---- MODULE RegistrationProofs ----
(***************************************************************************)
(* Registration, for every number of processes, variables, registrations   *)
(* and supersteps: whenever a process reads a request of another, that     *)
(* request is there; numbers never run out; the table of registrations     *)
(* rests while it is used without a lock; processes agree on the numbers   *)
(* of variables; and every address leads to what was registered.           *)
(***************************************************************************)
EXTENDS Registration, SequenceTheorems, WellFoundedInduction, TLAPS

LEMMA ConstantFacts ==
  /\ P \in Nat /\ P > 0 /\ 0 \in Procs
  /\ MaxSupersteps \in Nat /\ MaxActions \in Nat
  /\ \A s : s \in Procs <=> s \in Nat /\ s < P
BY PAssumption, BoundsAssumption DEF Procs

LEMMA TypesOfBarrier ==
  TypeOK => /\ entered \in [Procs -> Nat] /\ crossed \in [Procs -> Nat]
            /\ calls \in [Procs -> Nat]
            /\ \A s \in Procs : calls[s] \in 0 .. MaxSupersteps
<1> SUFFICES ASSUME TypeOK
             PROVE  /\ entered \in [Procs -> Nat] /\ crossed \in [Procs -> Nat]
                    /\ calls \in [Procs -> Nat]
                    /\ \A s \in Procs : calls[s] \in 0 .. MaxSupersteps
  OBVIOUS
<1>1. entered \in [Procs -> Nat] /\ crossed \in [Procs -> Nat] /\ calls \in [Procs -> 0 .. MaxSupersteps]
  BY DEF TypeOK, Bar!TypeOK, Bar!Procs, Procs
<1> QED BY <1>1, ConstantFacts

(* Where a process is, by the barriers it has gone through. *)
LEMMA Phases ==
  ASSUME TypeOK, BarriersInStep, NEW s \in Procs
  PROVE  /\ Phase(s) = "compute" <=> crossed[s] = entered[s] /\ entered[s] = 3 * calls[s]
         /\ Phase(s) = "deregister" <=> crossed[s] = entered[s] /\ entered[s] = 3 * calls[s] + 1
         /\ Phase(s) = "forget" <=>
              crossed[s] = entered[s] /\ entered[s] = 3 * calls[s] + 2 /\ localsToRemove[s] # <<>>
         /\ Phase(s) = "register" <=>
              crossed[s] = entered[s] /\ entered[s] = 3 * calls[s] + 2 /\ localsToRemove[s] = <<>>
         /\ Phase(s) = "remember" <=> crossed[s] = entered[s] /\ entered[s] = 3 * calls[s] + 3
<1>1. /\ crossed[s] \in Nat /\ entered[s] \in Nat /\ calls[s] \in Nat
      /\ 3 * calls[s] <= crossed[s] /\ crossed[s] <= entered[s] /\ entered[s] <= 3 * calls[s] + 3
  BY TypesOfBarrier DEF BarriersInStep
<1>2. CASE crossed[s] # entered[s]
  BY <1>2 DEF Phase
<1>3. CASE crossed[s] = entered[s]
  <2>1. \/ entered[s] = 3 * calls[s] \/ entered[s] = 3 * calls[s] + 1
        \/ entered[s] = 3 * calls[s] + 2 \/ entered[s] = 3 * calls[s] + 3
    BY <1>1, <1>3
  <2>2. CASE entered[s] = 3 * calls[s]
    BY <1>1, <1>3, <2>2 DEF Phase
  <2>3. CASE entered[s] = 3 * calls[s] + 1
    BY <1>1, <1>3, <2>3 DEF Phase
  <2>4. CASE entered[s] = 3 * calls[s] + 2
    BY <1>1, <1>3, <2>4 DEF Phase
  <2>5. CASE entered[s] = 3 * calls[s] + 3
    BY <1>1, <1>3, <2>5 DEF Phase
  <2> QED BY <2>1, <2>2, <2>3, <2>4, <2>5
<1> QED BY <1>2, <1>3

----
(* What a step does to barriers and calls. *)
Arrives(s) ==
  /\ crossed[s] = entered[s] /\ entered[s] < 3 * calls[s] + 3
  /\ entered[s] = 3 * calls[s] => calls[s] < MaxSupersteps
  /\ entered' = [entered EXCEPT ![s] = @ + 1]
  /\ UNCHANGED <<crossed, calls>>

Leaves(s) ==
  /\ crossed[s] # entered[s]
  /\ \A t \in Procs : entered[t] >= entered[s]
  /\ crossed' = [crossed EXCEPT ![s] = @ + 1]
  /\ UNCHANGED <<entered, calls>>

Returns(s) ==
  /\ crossed[s] = entered[s] /\ entered[s] = 3 * calls[s] + 3
  /\ calls' = [calls EXCEPT ![s] = @ + 1]
  /\ UNCHANGED <<entered, crossed>>

(* Every action, by name and process. *)
LEMMA Cases ==
  ASSUME [Next]_vars
  PROVE  \/ \E v \in Variables : PopReg(v)
         \/ \E v \in Variables, size \in Sizes : PushReg(v, size)
         \/ \E s \in Procs : ArriveStart(s)
         \/ \E s \in Procs : SeekRemoval(s)
         \/ \E s \in Procs : IgnoreRemoval(s)
         \/ \E s \in Procs : Deregister(s)
         \/ \E s \in Procs : ArriveMid(s)
         \/ \E s \in Procs : Forget(s)
         \/ \E s \in Procs : SeekRegistration(s)
         \/ \E s \in Procs : IgnoreRegistration(s)
         \/ \E s \in Procs : Register(s)
         \/ \E s \in Procs : ArriveEnd(s)
         \/ \E s \in Procs : Remember(s)
         \/ \E s \in Procs : Return(s)
         \/ \E s \in Procs : Cross(s)
         \/ UNCHANGED vars
BY Zenon DEF Next, Finished

LEMMA StepsOfBarrier ==
  ASSUME TypeOK, BarriersInStep, [Next]_vars
  PROVE  \/ UNCHANGED barrier
         \/ \E s \in Procs : Arrives(s) \/ Leaves(s) \/ Returns(s)
<1>1. CASE \E s \in Procs : ArriveStart(s)
  <2>1. PICK s \in Procs : ArriveStart(s)
    BY <1>1
  <2>2. Phase(s) = "compute" /\ calls[s] < MaxSupersteps
    BY <2>1 DEF ArriveStart
  <2>3. crossed[s] = entered[s] /\ entered[s] = 3 * calls[s] /\ calls[s] \in Nat
    BY <2>2, Phases, TypesOfBarrier
  <2>4. entered' = [entered EXCEPT ![s] = @ + 1] /\ UNCHANGED <<crossed, calls>>
    BY <2>1 DEF ArriveStart, Bar!Arrive
  <2>5. entered[s] < 3 * calls[s] + 3
    BY <2>3
  <2>6. Arrives(s)
    BY <2>2, <2>3, <2>4, <2>5 DEF Arrives
  <2> QED BY <2>6
<1>2. CASE \E s \in Procs : ArriveMid(s)
  <2>1. PICK s \in Procs : ArriveMid(s)
    BY <1>2
  <2>2. Phase(s) = "deregister"
    BY <2>1 DEF ArriveMid
  <2>3. crossed[s] = entered[s] /\ entered[s] = 3 * calls[s] + 1 /\ calls[s] \in Nat
    BY <2>2, Phases, TypesOfBarrier
  <2>4. entered' = [entered EXCEPT ![s] = @ + 1] /\ UNCHANGED <<crossed, calls>>
    BY <2>1 DEF ArriveMid, Bar!Arrive
  <2>5. entered[s] < 3 * calls[s] + 3 /\ entered[s] # 3 * calls[s]
    BY <2>3
  <2>6. Arrives(s)
    BY <2>3, <2>4, <2>5 DEF Arrives
  <2> QED BY <2>6
<1>3. CASE \E s \in Procs : ArriveEnd(s)
  <2>1. PICK s \in Procs : ArriveEnd(s)
    BY <1>3
  <2>2. Phase(s) = "register"
    BY <2>1 DEF ArriveEnd
  <2>3. crossed[s] = entered[s] /\ entered[s] = 3 * calls[s] + 2 /\ calls[s] \in Nat
    BY <2>2, Phases, TypesOfBarrier
  <2>4. entered' = [entered EXCEPT ![s] = @ + 1] /\ UNCHANGED <<crossed, calls>>
    BY <2>1 DEF ArriveEnd, Bar!Arrive
  <2>5. entered[s] < 3 * calls[s] + 3 /\ entered[s] # 3 * calls[s]
    BY <2>3
  <2>6. Arrives(s)
    BY <2>3, <2>4, <2>5 DEF Arrives
  <2> QED BY <2>6
<1>4. CASE \E s \in Procs : Cross(s)
  BY <1>4 DEF Cross, Bar!Cross, Bar!Procs, Procs, Leaves
<1>5. CASE \E s \in Procs : Return(s)
  BY <1>5, Phases DEF Return, Returns
<1>6. CASE UNCHANGED vars
  BY <1>6 DEF vars, barrier
<1>7. CASE \E v \in Variables : PopReg(v) \/ \E size \in Sizes : PushReg(v, size)
  BY <1>7 DEF PopReg, PushReg
<1>8. CASE \E s \in Procs : SeekRemoval(s) \/ IgnoreRemoval(s) \/ Deregister(s) \/ Forget(s)
  BY <1>8 DEF SeekRemoval, IgnoreRemoval, Deregister, Forget
<1>9. CASE \E s \in Procs : SeekRegistration(s) \/ IgnoreRegistration(s) \/ Register(s) \/ Remember(s)
  BY <1>9 DEF SeekRegistration, IgnoreRegistration, Register, Remember
<1> QED BY <1>1, <1>2, <1>3, <1>4, <1>5, <1>6, <1>7, <1>8, <1>9, Cases

LEMMA BarrierStep ==
  ASSUME TypeOK, BarriersInStep, [Next]_vars
  PROVE  /\ entered' \in [Procs -> Nat] /\ crossed' \in [Procs -> Nat]
         /\ calls' \in [Procs -> 0 .. MaxSupersteps]
         /\ BarriersInStep'
<1>t. /\ entered \in [Procs -> Nat] /\ crossed \in [Procs -> Nat]
      /\ calls \in [Procs -> 0 .. MaxSupersteps]
  BY DEF TypeOK, Bar!TypeOK, Bar!Procs, Procs
<1>b. \A s, t \in Procs :
        /\ crossed[s] <= entered[s] /\ entered[s] <= crossed[s] + 1
        /\ 3 * calls[s] <= crossed[s] /\ entered[s] <= 3 * calls[s] + 3
        /\ entered[s] > 3 * calls[s] => calls[s] < MaxSupersteps
        /\ crossed[s] <= entered[t]
  BY DEF BarriersInStep
<1>1. CASE UNCHANGED barrier
  BY <1>1, <1>t, <1>b DEF barrier, BarriersInStep
<1>2. CASE \E s \in Procs : Arrives(s)
  <2>1. PICK s \in Procs : Arrives(s)
    BY <1>2
  <2>2. /\ entered' \in [Procs -> Nat]
        /\ \A t \in Procs : entered'[t] = IF t = s THEN entered[t] + 1 ELSE entered[t]
        /\ crossed' = crossed /\ calls' = calls
    BY <2>1, <1>t DEF Arrives
  <2> QED BY <2>1, <2>2, <1>t, <1>b, ConstantFacts DEF BarriersInStep, Arrives
<1>3. CASE \E s \in Procs : Leaves(s)
  <2>1. PICK s \in Procs : Leaves(s)
    BY <1>3
  <2>2. /\ crossed' \in [Procs -> Nat]
        /\ \A t \in Procs : crossed'[t] = IF t = s THEN crossed[t] + 1 ELSE crossed[t]
        /\ entered' = entered /\ calls' = calls
    BY <2>1, <1>t DEF Leaves
  <2> QED BY <2>1, <2>2, <1>t, <1>b, ConstantFacts DEF BarriersInStep, Leaves
<1>4. CASE \E s \in Procs : Returns(s)
  <2>1. PICK s \in Procs : Returns(s)
    BY <1>4
  <2>2. /\ \A t \in Procs : calls'[t] = IF t = s THEN calls[t] + 1 ELSE calls[t]
        /\ entered' = entered /\ crossed' = crossed
    BY <2>1, <1>t DEF Returns
  <2>3. calls[s] + 1 \in 0 .. MaxSupersteps
    BY <2>1, <1>t, <1>b, ConstantFacts DEF Returns
  <2>4. calls' \in [Procs -> 0 .. MaxSupersteps]
    BY <2>1, <2>3, <1>t DEF Returns
  <2> QED BY <2>1, <2>2, <2>4, <1>t, <1>b, ConstantFacts DEF BarriersInStep, Returns
<1> QED BY <1>1, <1>2, <1>3, <1>4, StepsOfBarrier

----
(* Facts on stacks of requests and of numbers. *)
Addresses == Variables \cup {Null}

LEMMA TypesOfState ==
  TypeOK <=>
    /\ localsToPush \in [Procs -> Seq(Request)]
    /\ localsToRemove \in [Procs -> Seq(Addresses)]
    /\ globalsToPush \in [Procs -> Seq(Numbers)]
    /\ removedGlobals \in [Procs -> Seq(Numbers)]
    /\ localC \in [Procs -> Nat]
    /\ local2global \in [Procs -> [Addresses -> Numbers \cup {None}]]
    /\ new_addresses \in [Procs -> [Addresses -> Numbers \cup {None}]]
    /\ table \in [Numbers -> [Procs -> Seq(Request)]]
    /\ i \in [Procs -> Nat]
    /\ other \in [Procs -> 0 .. P]
    /\ found \in [Procs -> BOOLEAN]
    /\ calls \in [Procs -> 0 .. MaxSupersteps]
    /\ entered \in [Procs -> Nat] /\ crossed \in [Procs -> Nat]
    /\ actions \in 0 .. MaxActions
    /\ registered \in [Variables -> Seq(Sizes)]
    /\ added \in [Variables -> Seq(Sizes)]
    /\ dropped \in [Variables -> Nat]
BY DEF TypeOK, Bar!TypeOK, Bar!Procs, Procs, Map, Addresses

LEMMA TypesOfStateNext ==
  TypeOK' <=>
    /\ localsToPush' \in [Procs -> Seq(Request)]
    /\ localsToRemove' \in [Procs -> Seq(Addresses)]
    /\ globalsToPush' \in [Procs -> Seq(Numbers)]
    /\ removedGlobals' \in [Procs -> Seq(Numbers)]
    /\ localC' \in [Procs -> Nat]
    /\ local2global' \in [Procs -> [Addresses -> Numbers \cup {None}]]
    /\ new_addresses' \in [Procs -> [Addresses -> Numbers \cup {None}]]
    /\ table' \in [Numbers -> [Procs -> Seq(Request)]]
    /\ i' \in [Procs -> Nat]
    /\ other' \in [Procs -> 0 .. P]
    /\ found' \in [Procs -> BOOLEAN]
    /\ calls' \in [Procs -> 0 .. MaxSupersteps]
    /\ entered' \in [Procs -> Nat] /\ crossed' \in [Procs -> Nat]
    /\ actions' \in 0 .. MaxActions
    /\ registered' \in [Variables -> Seq(Sizes)]
    /\ added' \in [Variables -> Seq(Sizes)]
    /\ dropped' \in [Variables -> Nat]
BY DEF TypeOK, Bar!TypeOK, Bar!Procs, Procs, Map, Addresses

LEMMA PushOnStack ==
  ASSUME NEW S, NEW q \in Seq(S), NEW e \in S
  PROVE  Append(q, e) \in Seq(S) /\ Len(q) \in Nat /\ Len(Append(q, e)) = Len(q) + 1
BY LenProperties

LEMMA PopFromStack ==
  ASSUME NEW S, NEW q \in Seq(S), q # <<>>
  PROVE  /\ Len(q) \in Nat /\ Len(q) > 0
         /\ Top(q) = q[Len(q)] /\ Top(q) \in S
         /\ Pop(q) \in Seq(S) /\ Len(Pop(q)) = Len(q) - 1
<1>1. Len(q) \in Nat /\ Len(q) > 0
  BY EmptySeq, LenProperties
<1>2. \A j \in 1 .. Len(q) : q[j] \in S
  BY ElementOfSeq
<1>3. /\ SubSeq(q, 1, Len(q) - 1) \in Seq(S)
      /\ Len(SubSeq(q, 1, Len(q) - 1)) = IF 1 <= Len(q) - 1 THEN Len(q) - 1 - 1 + 1 ELSE 0
  BY <1>1, <1>2, SubSeqProperties
<1>4. Pop(q) \in Seq(S) /\ Len(Pop(q)) = Len(q) - 1
  <2>1. Pop(q) \in Seq(S) /\ Len(Pop(q)) = IF 1 <= Len(q) - 1 THEN Len(q) - 1 - 1 + 1 ELSE 0
    BY <1>3, Zenon DEF Pop
  <2> QED BY <1>1, <2>1
<1> QED BY <1>1, <1>2, <1>4 DEF Top

LEMMA UpdateInStack ==
  ASSUME NEW S, NEW q \in Seq(S), NEW j \in 1 .. Len(q), NEW e \in S
  PROVE  [q EXCEPT ![j] = e] \in Seq(S) /\ Len([q EXCEPT ![j] = e]) = Len(q)
BY ExceptSeq

LEMMA LengthOfStack ==
  ASSUME NEW S, NEW q \in Seq(S)
  PROVE  Len(q) \in Nat /\ (q = <<>> <=> Len(q) = 0)
BY EmptySeq, LenProperties

(* The requests of s have a counterpart in those of everybody while s is
   in the loop over them. *)
LEMMA RequestsOfOthers ==
  ASSUME RequestsInv, NEW s \in Procs, NEW t \in Procs
  PROVE  /\ Removing(s) => /\ i[s] \in 1 .. Len(localsToRemove[s])
                           /\ i[s] \in 1 .. Len(localsToRemove[t])
                           /\ ToRemove(s) \in Addresses
                           /\ localsToRemove[t][i[s]] \in Addresses
         /\ Registering(s) => /\ i[s] \in 1 .. Len(localsToPush[s])
                              /\ i[s] \in 1 .. Len(localsToPush[t])
                              /\ ToPush(s) \in Request
                              /\ localsToPush[t][i[s]] \in Request
<1>1. /\ localsToPush \in [Procs -> Seq(Request)] /\ localsToRemove \in [Procs -> Seq(Addresses)]
      /\ i[s] \in Nat /\ i[s] > 0
  BY TypesOfState DEF RequestsInv, LoopsStayInBounds
<1>2. /\ Len(localsToPush[s]) \in Nat /\ Len(localsToRemove[s]) \in Nat
      /\ \A j \in 1 .. Len(localsToPush[s]) : localsToPush[s][j] \in Request
      /\ \A j \in 1 .. Len(localsToPush[t]) : localsToPush[t][j] \in Request
      /\ \A j \in 1 .. Len(localsToRemove[s]) : localsToRemove[s][j] \in Addresses
      /\ \A j \in 1 .. Len(localsToRemove[t]) : localsToRemove[t][j] \in Addresses
  BY <1>1, ElementOfSeq, LenProperties
<1>3. /\ \A u \in Procs : entered[u] \in Nat /\ crossed[u] \in Nat /\ calls[u] \in Nat
      /\ crossed[s] <= entered[t] /\ crossed[t] <= entered[s]
      /\ 3 * calls[t] <= crossed[t] /\ entered[t] <= 3 * calls[t] + 3
  BY TypesOfBarrier DEF RequestsInv, BarriersInStep
<1>4. ASSUME Removing(s)
      PROVE  /\ i[s] \in 1 .. Len(localsToRemove[s]) /\ i[s] \in 1 .. Len(localsToRemove[t])
  <2>1. crossed[s] = 3 * calls[s] + 1 /\ entered[s] = crossed[s] /\ i[s] <= Len(localsToRemove[s])
    BY <1>4, Phases DEF Removing, RequestsInv
  <2>2. calls[t] = calls[s]
    BY <1>3, <2>1
  <2>3. crossed[t] <= 3 * calls[t] + 1
    BY <1>3, <2>1, <2>2
  <2>4. calls[s] = calls[t] /\ crossed[s] <= 3 * calls[s] + 1 /\ crossed[t] <= 3 * calls[t] + 1 =>
          Len(localsToRemove[s]) = Len(localsToRemove[t])
    BY DEF RequestsInv, RequestsPairUp
  <2>5. crossed[s] <= 3 * calls[s] + 1
    BY <1>3, <2>1
  <2>6. Len(localsToRemove[s]) = Len(localsToRemove[t])
    BY <2>2, <2>3, <2>4, <2>5
  <2> QED BY <1>1, <1>2, <2>1, <2>6
<1>5. ASSUME Registering(s)
      PROVE  /\ i[s] \in 1 .. Len(localsToPush[s]) /\ i[s] \in 1 .. Len(localsToPush[t])
  <2>1. crossed[s] = 3 * calls[s] + 2 /\ entered[s] = crossed[s] /\ i[s] <= Len(localsToPush[s])
    BY <1>5, Phases DEF Registering, RequestsInv
  <2>2. calls[t] = calls[s]
    BY <1>3, <2>1
  <2>3. crossed[t] <= 3 * calls[t] + 2
    BY <1>3, <2>1, <2>2
  <2>4. calls[s] = calls[t] /\ crossed[s] <= 3 * calls[s] + 2 /\ crossed[t] <= 3 * calls[t] + 2 =>
          Len(localsToPush[s]) = Len(localsToPush[t])
    BY DEF RequestsInv, RequestsPairUp
  <2>5. crossed[s] <= 3 * calls[s] + 2
    BY <1>3, <2>1
  <2>6. Len(localsToPush[s]) = Len(localsToPush[t])
    BY <2>2, <2>3, <2>4, <2>5
  <2> QED BY <1>1, <1>2, <2>1, <2>6
<1> QED BY <1>2, <1>4, <1>5 DEF ToRemove, ToPush

----
(* What the steps that move registrations do. *)
LEMMA DeregisterEffect ==
  ASSUME RequestsInv, NEW s \in Procs, Deregister(s)
  PROVE  \/ UNCHANGED <<localsToRemove, removedGlobals, localC, table>>
         \/ \E g \in Numbers :
              /\ table[g][s] \in Seq(Request) /\ table[g][s] # <<>>
              /\ table' = [table EXCEPT ![g][s] = Pop(table[g][s])]
              /\ \/ localsToRemove' = localsToRemove
                 \/ localsToRemove' = [localsToRemove EXCEPT ![s][i[s]] = Null]
              /\ \/ localC' = localC
                 \/ localC[s] = g + 1 /\ localC' = [localC EXCEPT ![s] = g]
              /\ \/ removedGlobals' = removedGlobals
                 \/ removedGlobals' = [removedGlobals EXCEPT ![s] = Append(removedGlobals[s], g)]
<1> DEFINE u == IF ToRemove(s) # Null THEN s ELSE other[s]
           g == local2global[u][localsToRemove[u][i[s]]]
<1>1. Removing(s) /\ (ToRemove(s) # Null \/ found[s])
  BY DEF Deregister
<1>2. u \in Procs
  <2>1. found[s] => other[s] < P
    BY DEF RequestsInv, LoopsStayInBounds
  <2>2. other[s] \in Nat
    BY TypesOfState, ConstantFacts DEF RequestsInv
  <2> QED BY <1>1, <2>1, <2>2, ConstantFacts
<1>3. localsToRemove[u][i[s]] \in Addresses
  BY <1>1, <1>2, RequestsOfOthers
<1>4. g \in Numbers \cup {None}
  <2>1. local2global \in [Procs -> [Addresses -> Numbers \cup {None}]]
    BY TypesOfState DEF RequestsInv
  <2> HIDE DEF u
  <2> QED BY <1>2, <1>3, <2>1
<1>5. IF g = None
        THEN UNCHANGED <<localsToRemove, removedGlobals, localC, table>>
        ELSE /\ table[g][s] # <<>>
             /\ table' = [table EXCEPT ![g][s] = Pop(@)]
             /\ IF table'[g][s] = <<>>
                  THEN FreeNumber(s, g) /\ UNCHANGED localsToRemove
                  ELSE KeepInMap(s) /\ UNCHANGED <<removedGlobals, localC>>
  BY DEF Deregister
<1> HIDE DEF g, u
<1>6. CASE g = None
  BY <1>5, <1>6
<1>7. CASE g # None
  <2>1. g \in Numbers
    BY <1>4, <1>7
  <2>t. table \in [Numbers -> [Procs -> Seq(Request)]] /\ localC \in [Procs -> Nat]
    BY TypesOfState DEF RequestsInv
  <2>2. table[g][s] \in Seq(Request) /\ localC \in [Procs -> Nat] /\ g \in Nat
    BY <2>1, <2>t, ConstantFacts DEF Numbers
  <2>3. table[g][s] # <<>> /\ table' = [table EXCEPT ![g][s] = Pop(table[g][s])]
    BY <1>5, <1>7
  <2>4. CASE FreeNumber(s, g) /\ UNCHANGED localsToRemove
    <3>1. CASE localC[s] = g + 1
      <4>1. localC' = [localC EXCEPT ![s] = localC[s] - 1] /\ removedGlobals' = removedGlobals
        BY <2>4, <3>1 DEF FreeNumber
      <4>2. localC[s] - 1 = g
        BY <2>2, <3>1
      <4> QED BY <2>1, <2>2, <2>3, <2>4, <3>1, <4>1, <4>2
    <3>2. CASE localC[s] # g + 1
      <4>1. localC' = localC
        BY <2>4, <3>2 DEF FreeNumber
      <4>2. removedGlobals' = [removedGlobals EXCEPT ![s] = Append(removedGlobals[s], g)]
        BY <2>4, <3>2 DEF FreeNumber
      <4> QED BY <2>1, <2>2, <2>3, <2>4, <4>1, <4>2
    <3> QED BY <3>1, <3>2
  <2>5. CASE KeepInMap(s) /\ UNCHANGED <<removedGlobals, localC>>
    BY <2>1, <2>2, <2>3, <2>5 DEF KeepInMap
  <2> QED BY <1>5, <1>7, <2>4, <2>5
<1> QED BY <1>6, <1>7

LEMMA RegisterEffect ==
  ASSUME RequestsInv, NEW s \in Procs, Register(s)
  PROVE  \E g \in Numbers :
           /\ ToPush(s) \in Request
           /\ table' = [table EXCEPT ![g][s] = Append(table[g][s], ToPush(s))]
           /\ \/ localsToPush' = localsToPush
              \/ localsToPush' = [localsToPush EXCEPT ![s][i[s]] =
                                    [localsToPush[s][i[s]] EXCEPT !.address = Null]]
           /\ \/ localC' = localC
              \/ localC' = [localC EXCEPT ![s] = localC[s] + 1]
           /\ \/ removedGlobals' = removedGlobals
              \/ /\ removedGlobals[s] # <<>>
                 /\ removedGlobals' = [removedGlobals EXCEPT ![s] = Pop(removedGlobals[s])]
           /\ \/ new_addresses' = new_addresses /\ globalsToPush' = globalsToPush
              \/ /\ new_addresses' = [new_addresses EXCEPT ![s][ToPush(s).address] = g]
                 /\ globalsToPush' = [globalsToPush EXCEPT ![s] = Append(globalsToPush[s], g)]
<1> DEFINE known == NumberKnown(s)
           g == IF known = None THEN NewNumber(s) ELSE known
<1>1. Registering(s) /\ (ToPush(s).address # Null \/ new_addresses[s][Null] # None \/ found[s])
  BY DEF Register
<1>2. /\ table' = [table EXCEPT ![g][s] = Append(@, ToPush(s))]
      /\ IF known = None
           THEN TakeNumber(s, g)
           ELSE /\ localsToPush' = [localsToPush EXCEPT ![s][i[s]].address = Null]
                /\ UNCHANGED <<localC, removedGlobals, new_addresses, globalsToPush>>
  BY DEF Register
<1>3. ToPush(s) \in Request /\ ToPush(s).address \in Addresses
  BY <1>1, RequestsOfOthers DEF Request, Addresses
<1>4. known \in Numbers \cup {None}
  <2>t. /\ local2global \in [Procs -> [Addresses -> Numbers \cup {None}]]
        /\ new_addresses \in [Procs -> [Addresses -> Numbers \cup {None}]]
    BY TypesOfState DEF RequestsInv
  <2> DEFINE a == ToPush(s).address
  <2>1. CASE new_addresses[s][a] # None
    BY <1>3, <2>1, <2>t DEF NumberKnown
  <2>2. CASE new_addresses[s][a] = None /\ a # Null
    BY <1>3, <2>2, <2>t DEF NumberKnown
  <2>3. CASE new_addresses[s][a] = None /\ a = Null
    <3>1. found[s]
      BY <1>1, <2>3
    <3>2. other[s] \in Procs
      BY <3>1, TypesOfState, ConstantFacts DEF RequestsInv, LoopsStayInBounds
    <3>3. localsToPush[other[s]][i[s]].address \in Addresses
      BY <1>1, <3>2, RequestsOfOthers DEF Request, Addresses
    <3>4. known = local2global[other[s]][localsToPush[other[s]][i[s]].address]
      BY <2>3 DEF NumberKnown
    <3> QED BY <3>2, <3>3, <3>4, <2>t
  <2> QED BY <2>1, <2>2, <2>3
<1>5. NewNumber(s) \in Numbers
  <2>1. CASE removedGlobals[s] = <<>>
    <3>1. /\ crossed[s] = entered[s] /\ entered[s] = 3 * calls[s] + 2 /\ calls[s] \in Nat
      BY <1>1, Phases, TypesOfBarrier DEF Registering, RequestsInv
    <3>2. Pending(s) = Len(localsToPush[s]) - (i[s] - 1)
      BY <3>1 DEF Pending
    <3>3. i[s] \in 1 .. Len(localsToPush[s]) /\ Len(localsToPush[s]) \in Nat
      BY <1>1, RequestsOfOthers, TypesOfState, LenProperties DEF RequestsInv
    <3>4. localC[s] \in Nat /\ actions \in 0 .. MaxActions /\ localC[s] + Pending(s) <= actions
      BY TypesOfState DEF RequestsInv, NumbersSuffice
    <3>5. localC[s] \in 0 .. MaxActions
      BY <3>2, <3>3, <3>4, ConstantFacts
    <3> QED BY <2>1, <3>5 DEF NewNumber, Numbers
  <2>2. CASE removedGlobals[s] # <<>>
    BY <2>2, PopFromStack, TypesOfState DEF NewNumber, RequestsInv
  <2> QED BY <2>1, <2>2
<1>6. g \in Numbers
  BY <1>4, <1>5
<1> HIDE DEF g, known
<1>7. CASE known = None
  <2>1. TakeNumber(s, g)
    BY <1>2, <1>7
  <2>2. /\ new_addresses' = [new_addresses EXCEPT ![s][ToPush(s).address] = g]
        /\ globalsToPush' = [globalsToPush EXCEPT ![s] = Append(globalsToPush[s], g)]
        /\ localsToPush' = localsToPush
    BY <2>1 DEF TakeNumber
  <2>3. \/ localC' = localC
        \/ localC' = [localC EXCEPT ![s] = localC[s] + 1]
    BY <2>1 DEF TakeNumber
  <2>4. \/ removedGlobals' = removedGlobals
        \/ /\ removedGlobals[s] # <<>>
           /\ removedGlobals' = [removedGlobals EXCEPT ![s] = Pop(removedGlobals[s])]
    BY <2>1 DEF TakeNumber
  <2>5. table' = [table EXCEPT ![g][s] = Append(table[g][s], ToPush(s))]
    BY <1>2
  <2> QED BY <1>3, <1>6, <2>2, <2>3, <2>4, <2>5
<1>8. CASE known # None
  <2>1. UNCHANGED <<localC, removedGlobals, new_addresses, globalsToPush>>
    BY <1>2, <1>8
  <2>2. localsToPush' = [localsToPush EXCEPT ![s][i[s]] =
                           [localsToPush[s][i[s]] EXCEPT !.address = Null]]
    BY <1>2, <1>8
  <2>3. table' = [table EXCEPT ![g][s] = Append(table[g][s], ToPush(s))]
    BY <1>2
  <2> QED BY <1>3, <1>6, <2>1, <2>2, <2>3
<1> QED BY <1>7, <1>8
----
(* The steps keep the types. *)
LEMMA LoopVariables ==
  ASSUME TypeOK, NEW s \in Procs, NextRequest(s) \/ Restart(s)
  PROVE  i' \in [Procs -> Nat] /\ other' \in [Procs -> 0 .. P] /\ found' \in [Procs -> BOOLEAN]
<1>1. i \in [Procs -> Nat] /\ other \in [Procs -> 0 .. P] /\ found \in [Procs -> BOOLEAN]
  BY TypesOfState
<1>2. 0 \in 0 .. P
  BY ConstantFacts
<1>3. i[s] + 1 \in Nat /\ 1 \in Nat
  BY <1>1
<1>4. i' = [i EXCEPT ![s] = i[s] + 1] \/ i' = [i EXCEPT ![s] = 1]
  BY DEF NextRequest, Restart
<1>5. i' \in [Procs -> Nat]
  BY <1>1, <1>3, <1>4
<1> QED BY <1>1, <1>2, <1>5 DEF NextRequest, Restart

LEMMA TypeStep ==
  ASSUME RequestsInv, [Next]_vars
  PROVE  TypeOK'
<1> USE DEF stacks, barrier, history
<1>i. TypeOK /\ BarriersInStep
  BY DEF RequestsInv
<1>t. /\ localsToPush \in [Procs -> Seq(Request)]
      /\ localsToRemove \in [Procs -> Seq(Addresses)]
      /\ globalsToPush \in [Procs -> Seq(Numbers)]
      /\ removedGlobals \in [Procs -> Seq(Numbers)]
      /\ localC \in [Procs -> Nat]
      /\ local2global \in [Procs -> [Addresses -> Numbers \cup {None}]]
      /\ new_addresses \in [Procs -> [Addresses -> Numbers \cup {None}]]
      /\ table \in [Numbers -> [Procs -> Seq(Request)]]
      /\ i \in [Procs -> Nat]
      /\ other \in [Procs -> 0 .. P]
      /\ found \in [Procs -> BOOLEAN]
      /\ actions \in 0 .. MaxActions
      /\ registered \in [Variables -> Seq(Sizes)]
      /\ added \in [Variables -> Seq(Sizes)]
      /\ dropped \in [Variables -> Nat]
  BY <1>i, TypesOfState
<1>b. /\ calls' \in [Procs -> 0 .. MaxSupersteps]
      /\ entered' \in [Procs -> Nat] /\ crossed' \in [Procs -> Nat]
  BY <1>i, BarrierStep
<1>1. ASSUME NEW v \in Variables, PopReg(v)
      PROVE  TypeOK'
  <2>1. \A s \in Procs : Address(v, s) \in Addresses
    BY DEF Address, Addresses
  <2>2. \A s \in Procs : Append(localsToRemove[s], Address(v, s)) \in Seq(Addresses)
    BY <1>t, <2>1, PushOnStack
  <2>3. localsToRemove' = [s \in Procs |-> Append(localsToRemove[s], Address(v, s))]
    BY <1>1 DEF PopReg
  <2>4. localsToRemove' \in [Procs -> Seq(Addresses)]
    BY <2>2, <2>3
  <2>5. dropped' \in [Variables -> Nat]
    BY <1>1, <1>t DEF PopReg
  <2>6. actions' \in 0 .. MaxActions
    BY <1>1, <1>t, ConstantFacts DEF PopReg, Calling
  <2> QED BY <1>1, <1>t, <1>b, <2>4, <2>5, <2>6, TypesOfStateNext DEF PopReg
<1>2. ASSUME NEW v \in Variables, NEW size \in Sizes, PushReg(v, size)
      PROVE  TypeOK'
  <2>1. \A s \in Procs : [address |-> Address(v, s), size |-> size] \in Request
    BY DEF Address, Request
  <2>2. \A s \in Procs :
          Append(localsToPush[s], [address |-> Address(v, s), size |-> size]) \in Seq(Request)
    BY <1>t, <2>1, PushOnStack
  <2>3. localsToPush' = [s \in Procs |->
          Append(localsToPush[s], [address |-> Address(v, s), size |-> size])]
    BY <1>2 DEF PushReg
  <2>4. localsToPush' \in [Procs -> Seq(Request)]
    BY <2>2, <2>3
  <2>5. Append(added[v], size) \in Seq(Sizes)
    BY <1>t, PushOnStack
  <2>6. added' \in [Variables -> Seq(Sizes)]
    BY <1>2, <1>t, <2>5 DEF PushReg
  <2>7. actions' \in 0 .. MaxActions
    BY <1>2, <1>t, ConstantFacts DEF PushReg, Calling
  <2> QED BY <1>2, <1>t, <1>b, <2>4, <2>6, <2>7, TypesOfStateNext DEF PushReg
<1>3. ASSUME NEW s \in Procs, ArriveStart(s) \/ Cross(s) \/ Return(s)
      PROVE  TypeOK'
  BY <1>3, <1>t, <1>b, TypesOfStateNext DEF ArriveStart, Cross, Return
<1>4. ASSUME NEW s \in Procs, SeekRemoval(s) \/ SeekRegistration(s)
      PROVE  TypeOK'
  <2>1. other[s] < P
    BY <1>4 DEF SeekRemoval, SeekRegistration
  <2>t. other[s] \in 0 .. P
    BY <1>t
  <2>2. other[s] + 1 \in 0 .. P
    BY <2>t, <2>1, ConstantFacts
  <2>3. other' \in [Procs -> 0 .. P] /\ found' \in [Procs -> BOOLEAN]
    BY <1>4, <1>t, <2>2 DEF SeekRemoval, SeekRegistration
  <2>4. UNCHANGED <<stacks, table, i, barrier, history>>
    BY <1>4 DEF SeekRemoval, SeekRegistration
  <2> QED BY <1>t, <1>b, <2>3, <2>4, TypesOfStateNext
<1>5. ASSUME NEW s \in Procs, IgnoreRemoval(s) \/ IgnoreRegistration(s)
      PROVE  TypeOK'
  <2>1. NextRequest(s) /\ UNCHANGED <<stacks, table, barrier, history>>
    BY <1>5 DEF IgnoreRemoval, IgnoreRegistration
  <2>2. i' \in [Procs -> Nat] /\ other' \in [Procs -> 0 .. P] /\ found' \in [Procs -> BOOLEAN]
    BY <1>i, <2>1, LoopVariables
  <2> QED BY <1>t, <1>b, <2>1, <2>2, TypesOfStateNext
<1>6. ASSUME NEW s \in Procs, Deregister(s)
      PROVE  TypeOK'
  <2>1. i' \in [Procs -> Nat] /\ other' \in [Procs -> 0 .. P] /\ found' \in [Procs -> BOOLEAN]
    BY <1>i, <1>6, LoopVariables DEF Deregister
  <2>2. UNCHANGED <<localsToPush, globalsToPush, local2global, new_addresses, barrier, history>>
    BY <1>6 DEF Deregister
  <2>3. CASE UNCHANGED <<localsToRemove, removedGlobals, localC, table>>
    BY <1>t, <1>b, <2>1, <2>2, <2>3, TypesOfStateNext
  <2>4. ASSUME NEW g \in Numbers,
               table[g][s] \in Seq(Request) /\ table[g][s] # <<>>,
               table' = [table EXCEPT ![g][s] = Pop(table[g][s])],
               \/ localsToRemove' = localsToRemove
               \/ localsToRemove' = [localsToRemove EXCEPT ![s][i[s]] = Null],
               \/ localC' = localC
               \/ localC[s] = g + 1 /\ localC' = [localC EXCEPT ![s] = g],
               \/ removedGlobals' = removedGlobals
               \/ removedGlobals' = [removedGlobals EXCEPT ![s] = Append(removedGlobals[s], g)]
        PROVE  TypeOK'
    <3>1. table' \in [Numbers -> [Procs -> Seq(Request)]]
      <4>1. Pop(table[g][s]) \in Seq(Request)
        BY <2>4, PopFromStack
      <4> QED BY <1>t, <2>4, <4>1
    <3>2. localsToRemove' \in [Procs -> Seq(Addresses)]
      <4>1. i[s] \in 1 .. Len(localsToRemove[s]) /\ localsToRemove[s] \in Seq(Addresses)
        BY <1>6, <1>t, RequestsOfOthers DEF Deregister
      <4>2. Null \in Addresses
        BY DEF Addresses
      <4>3. [localsToRemove[s] EXCEPT ![i[s]] = Null] \in Seq(Addresses)
        BY <4>1, <4>2, UpdateInStack
      <4> QED BY <1>t, <2>4, <4>3
    <3>3. localC' \in [Procs -> Nat]
      <4>1. g \in Nat
        BY ConstantFacts DEF Numbers
      <4> QED BY <1>t, <2>4, <4>1
    <3>4. removedGlobals' \in [Procs -> Seq(Numbers)]
      <4>1. Append(removedGlobals[s], g) \in Seq(Numbers)
        BY <1>t, PushOnStack
      <4> QED BY <1>t, <2>4, <4>1
    <3> QED BY <1>t, <1>b, <2>1, <2>2, <3>1, <3>2, <3>3, <3>4, TypesOfStateNext
  <2> QED BY <1>6, <2>3, <2>4, DeregisterEffect
<1>7. ASSUME NEW s \in Procs, ArriveMid(s)
      PROVE  TypeOK'
  <2>1. i' \in [Procs -> Nat] /\ other' \in [Procs -> 0 .. P] /\ found' \in [Procs -> BOOLEAN]
    BY <1>i, <1>7, LoopVariables DEF ArriveMid
  <2> QED BY <1>7, <1>t, <1>b, <2>1, TypesOfStateNext DEF ArriveMid
<1>8. ASSUME NEW s \in Procs, Forget(s)
      PROVE  TypeOK'
  <2>1. localsToRemove[s] # <<>>
    BY <1>8, <1>i, Phases DEF Forget
  <2>2. Pop(localsToRemove[s]) \in Seq(Addresses) /\ Top(localsToRemove[s]) \in Addresses
    BY <1>t, <2>1, PopFromStack
  <2>3. localsToRemove' \in [Procs -> Seq(Addresses)]
    BY <1>8, <1>t, <2>2 DEF Forget
  <2>4. local2global' \in [Procs -> [Addresses -> Numbers \cup {None}]]
    BY <1>8, <1>t, <2>2 DEF Forget
  <2> QED BY <1>8, <1>t, <1>b, <2>3, <2>4, TypesOfStateNext DEF Forget
<1>9. ASSUME NEW s \in Procs, Register(s)
      PROVE  TypeOK'
  <2>1. i' \in [Procs -> Nat] /\ other' \in [Procs -> 0 .. P] /\ found' \in [Procs -> BOOLEAN]
    BY <1>i, <1>9, LoopVariables DEF Register
  <2>2. UNCHANGED <<localsToRemove, local2global, barrier, history>>
    BY <1>9 DEF Register
  <2>3. PICK g \in Numbers :
           /\ ToPush(s) \in Request
           /\ table' = [table EXCEPT ![g][s] = Append(table[g][s], ToPush(s))]
           /\ \/ localsToPush' = localsToPush
              \/ localsToPush' = [localsToPush EXCEPT ![s][i[s]] =
                                    [localsToPush[s][i[s]] EXCEPT !.address = Null]]
           /\ \/ localC' = localC
              \/ localC' = [localC EXCEPT ![s] = localC[s] + 1]
           /\ \/ removedGlobals' = removedGlobals
              \/ /\ removedGlobals[s] # <<>>
                 /\ removedGlobals' = [removedGlobals EXCEPT ![s] = Pop(removedGlobals[s])]
           /\ \/ new_addresses' = new_addresses /\ globalsToPush' = globalsToPush
              \/ /\ new_addresses' = [new_addresses EXCEPT ![s][ToPush(s).address] = g]
                 /\ globalsToPush' = [globalsToPush EXCEPT ![s] = Append(globalsToPush[s], g)]
    BY <1>9, RegisterEffect
  <2>4. table' \in [Numbers -> [Procs -> Seq(Request)]]
    <3>1. Append(table[g][s], ToPush(s)) \in Seq(Request)
      BY <1>t, <2>3, PushOnStack
    <3> QED BY <1>t, <2>3, <3>1
  <2>5. localsToPush' \in [Procs -> Seq(Request)]
    <3>1. i[s] \in 1 .. Len(localsToPush[s]) /\ localsToPush[s][i[s]] \in Request
      BY <1>9, RequestsOfOthers DEF Register, ToPush
    <3>2. [localsToPush[s][i[s]] EXCEPT !.address = Null] \in Request
      BY <3>1 DEF Request
    <3>3. [localsToPush[s] EXCEPT ![i[s]] = [localsToPush[s][i[s]] EXCEPT !.address = Null]]
            \in Seq(Request)
      BY <1>t, <3>1, <3>2, UpdateInStack
    <3> QED BY <1>t, <2>3, <3>3
  <2>6. localC' \in [Procs -> Nat]
    <3>1. localC[s] + 1 \in Nat
      BY <1>t
    <3> QED BY <1>t, <2>3, <3>1
  <2>7. removedGlobals' \in [Procs -> Seq(Numbers)]
    <3>1. removedGlobals[s] # <<>> => Pop(removedGlobals[s]) \in Seq(Numbers)
      BY <1>t, PopFromStack
    <3> QED BY <1>t, <2>3, <3>1
  <2>8. /\ new_addresses' \in [Procs -> [Addresses -> Numbers \cup {None}]]
        /\ globalsToPush' \in [Procs -> Seq(Numbers)]
    <3>1. Append(globalsToPush[s], g) \in Seq(Numbers)
      BY <1>t, PushOnStack
    <3>2. ToPush(s).address \in Addresses
      BY <2>3 DEF Request, Addresses
    <3> DEFINE a == ToPush(s).address
    <3>3. \/ new_addresses' = new_addresses /\ globalsToPush' = globalsToPush
          \/ /\ new_addresses' = [new_addresses EXCEPT ![s][a] = g]
             /\ globalsToPush' = [globalsToPush EXCEPT ![s] = Append(globalsToPush[s], g)]
      BY <2>3
    <3>4. a \in Addresses
      BY <3>2
    <3> HIDE DEF a
    <3>5. [new_addresses EXCEPT ![s][a] = g] \in [Procs -> [Addresses -> Numbers \cup {None}]]
      BY <1>t, <3>4
    <3>6. [globalsToPush EXCEPT ![s] = Append(globalsToPush[s], g)] \in [Procs -> Seq(Numbers)]
      BY <1>t, <3>1
    <3> QED BY <1>t, <3>3, <3>5, <3>6
  <2> QED BY <1>t, <1>b, <2>1, <2>2, <2>4, <2>5, <2>6, <2>7, <2>8, TypesOfStateNext
<1>10. ASSUME NEW s \in Procs, ArriveEnd(s)
       PROVE  TypeOK'
  <2>1. i' \in [Procs -> Nat] /\ other' \in [Procs -> 0 .. P] /\ found' \in [Procs -> BOOLEAN]
    BY <1>i, <1>10, LoopVariables DEF ArriveEnd
  <2>2. new_addresses' \in [Procs -> [Addresses -> Numbers \cup {None}]]
    BY <1>10, <1>t DEF ArriveEnd, Empty, Addresses
  <2>3. /\ registered' \in [Variables -> Seq(Sizes)]
        /\ added' \in [Variables -> Seq(Sizes)]
        /\ dropped' \in [Variables -> Nat]
    <3>1. CASE UNCHANGED <<registered, added, dropped>>
      BY <1>t, <3>1
    <3>2. CASE /\ registered' = [v \in Variables |->
                    SubSeq(registered[v], 1, Len(registered[v]) - dropped[v]) \o added[v]]
               /\ added' = [v \in Variables |-> <<>>]
               /\ dropped' = [v \in Variables |-> 0]
      <4>1. ASSUME NEW v \in Variables
            PROVE  SubSeq(registered[v], 1, Len(registered[v]) - dropped[v]) \o added[v] \in Seq(Sizes)
        <5>1. registered[v] \in Seq(Sizes) /\ added[v] \in Seq(Sizes) /\ dropped[v] \in Nat
          BY <1>t
        <5>2. Len(registered[v]) \in Nat /\ \A j \in 1 .. Len(registered[v]) : registered[v][j] \in Sizes
          BY <5>1, ElementOfSeq, LenProperties
        <5>3. /\ Len(registered[v]) - dropped[v] \in Int
              /\ \A j \in 1 .. Len(registered[v]) - dropped[v] : registered[v][j] \in Sizes
          BY <5>1, <5>2
        <5>4. SubSeq(registered[v], 1, Len(registered[v]) - dropped[v]) \in Seq(Sizes)
          BY <5>3, SubSeqProperties
        <5> QED BY <5>1, <5>4, ConcatProperties
      <4>2. <<>> \in Seq(Sizes)
        BY EmptySeq
      <4> QED BY <3>2, <4>1, <4>2
    <3> QED BY <1>10, <3>1, <3>2 DEF ArriveEnd
  <2> QED BY <1>10, <1>t, <1>b, <2>1, <2>2, <2>3, TypesOfStateNext DEF ArriveEnd
<1>11. ASSUME NEW s \in Procs, Remember(s)
       PROVE  TypeOK'
  <2> DEFINE a == Top(localsToPush[s]).address
  <2>1. localsToPush[s] # <<>> /\ localsToPush' = [localsToPush EXCEPT ![s] = Pop(localsToPush[s])]
    BY <1>11 DEF Remember
  <2>2. Pop(localsToPush[s]) \in Seq(Request) /\ a \in Addresses
    <3>1. Pop(localsToPush[s]) \in Seq(Request) /\ Top(localsToPush[s]) \in Request
      BY <1>t, <2>1, PopFromStack
    <3> QED BY <3>1 DEF Request, Addresses
  <2>3. localsToPush' \in [Procs -> Seq(Request)]
    BY <1>t, <2>1, <2>2
  <2>4. IF a = Null
          THEN UNCHANGED <<globalsToPush, local2global>>
          ELSE /\ globalsToPush[s] # <<>>
               /\ globalsToPush' = [globalsToPush EXCEPT ![s] = Pop(globalsToPush[s])]
               /\ local2global' = IF local2global[s][a] # None THEN local2global
                    ELSE [local2global EXCEPT ![s][a] = Top(globalsToPush[s])]
    BY <1>11 DEF Remember
  <2> HIDE DEF a
  <2>5. /\ globalsToPush' \in [Procs -> Seq(Numbers)]
        /\ local2global' \in [Procs -> [Addresses -> Numbers \cup {None}]]
    <3>1. CASE a = Null
      BY <1>t, <2>4, <3>1
    <3>2. CASE a # Null
      <4>1. /\ globalsToPush[s] # <<>>
            /\ globalsToPush' = [globalsToPush EXCEPT ![s] = Pop(globalsToPush[s])]
            /\ local2global' = IF local2global[s][a] # None THEN local2global
                    ELSE [local2global EXCEPT ![s][a] = Top(globalsToPush[s])]
        BY <2>4, <3>2
      <4>2. Pop(globalsToPush[s]) \in Seq(Numbers) /\ Top(globalsToPush[s]) \in Numbers
        BY <1>t, <4>1, PopFromStack
      <4> QED BY <1>t, <2>2, <4>1, <4>2
    <3> QED BY <3>1, <3>2
  <2> QED BY <1>11, <1>t, <1>b, <2>3, <2>5, TypesOfStateNext DEF Remember
<1>12. CASE UNCHANGED vars
  BY <1>12, <1>t, <1>b, TypesOfStateNext DEF vars
<1> QED BY <1>1, <1>2, <1>3, <1>4, <1>5, <1>6, <1>7, <1>8, <1>9, <1>10, <1>11, <1>12, Cases
----
(* What a step of process s means for positions and for the numbers of
   requests, which is all that the rest of the invariant is about. *)
OthersRest(s) ==
  /\ actions' = actions
  /\ \A t \in Procs \ {s} :
       /\ entered'[t] = entered[t] /\ crossed'[t] = crossed[t] /\ calls'[t] = calls[t]
       /\ i'[t] = i[t] /\ other'[t] = other[t] /\ found'[t] = found[t]
       /\ localC'[t] = localC[t]
       /\ Len(localsToPush'[t]) = Len(localsToPush[t])
       /\ Len(localsToRemove'[t]) = Len(localsToRemove[t])

PositionRests(s) ==
  entered'[s] = entered[s] /\ crossed'[s] = crossed[s] /\ calls'[s] = calls[s]
LengthsRest(s) ==
  /\ Len(localsToPush'[s]) = Len(localsToPush[s])
  /\ Len(localsToRemove'[s]) = Len(localsToRemove[s])
LoopRests(s) == i'[s] = i[s] /\ other'[s] = other[s] /\ found'[s] = found[s] /\ localC'[s] = localC[s]

GoesToBarrier(s) ==
  /\ crossed[s] = entered[s] /\ entered'[s] = entered[s] + 1
  /\ crossed'[s] = crossed[s] /\ calls'[s] = calls[s]
  /\ LengthsRest(s) /\ localC'[s] = localC[s] /\ other'[s] = other[s] /\ found'[s] = found[s]
  /\ \/ entered[s] = 3 * calls[s] /\ i'[s] = i[s]
     \/ entered[s] = 3 * calls[s] + 1 /\ i'[s] = 1
     \/ /\ entered[s] = 3 * calls[s] + 2 /\ i'[s] = 1
        /\ i[s] > Len(localsToPush[s]) /\ Len(localsToRemove[s]) = 0

LeavesOrReturns(s) ==
  /\ LengthsRest(s) /\ LoopRests(s) /\ entered'[s] = entered[s]
  /\ \/ crossed'[s] = crossed[s] + 1 /\ calls'[s] = calls[s]
     \/ /\ crossed'[s] = crossed[s] /\ calls'[s] = calls[s] + 1
        /\ crossed[s] = entered[s] /\ entered[s] = 3 * calls[s] + 3 /\ Len(localsToPush[s]) = 0

Seeks(s) ==
  /\ PositionRests(s) /\ LengthsRest(s) /\ i'[s] = i[s] /\ localC'[s] = localC[s]
  /\ found'[s] => other'[s] < P

TakesNext(s) ==
  /\ PositionRests(s) /\ LengthsRest(s) /\ i'[s] = i[s] + 1 /\ ~ found'[s] /\ crossed[s] = entered[s]
  /\ \/ entered[s] = 3 * calls[s] + 1 /\ localC'[s] <= localC[s]
     \/ /\ entered[s] = 3 * calls[s] + 2 /\ localC'[s] <= localC[s] + 1
        /\ i[s] <= Len(localsToPush[s])

DropsOne(s) ==
  /\ PositionRests(s) /\ LoopRests(s) /\ crossed[s] = entered[s]
  /\ \/ /\ entered[s] = 3 * calls[s] + 2
        /\ Len(localsToRemove[s]) > 0
        /\ Len(localsToRemove'[s]) = Len(localsToRemove[s]) - 1
        /\ Len(localsToPush'[s]) = Len(localsToPush[s])
     \/ /\ entered[s] = 3 * calls[s] + 3
        /\ Len(localsToPush[s]) > 0
        /\ Len(localsToPush'[s]) = Len(localsToPush[s]) - 1
        /\ Len(localsToRemove'[s]) = Len(localsToRemove[s])

(* A call in user code is made by all. *)
AllCall ==
  /\ actions' = actions + 1 /\ UNCHANGED <<barrier, i, other, found, localC>>
  /\ \A s \in Procs : crossed[s] = entered[s] /\ entered[s] = 3 * calls[s]
  /\ \/ \A s \in Procs : /\ Len(localsToPush'[s]) = Len(localsToPush[s]) + 1
                         /\ Len(localsToRemove'[s]) = Len(localsToRemove[s])
     \/ \A s \in Procs : /\ Len(localsToRemove'[s]) = Len(localsToRemove[s]) + 1
                         /\ Len(localsToPush'[s]) = Len(localsToPush[s])

AllRest ==
  /\ UNCHANGED <<barrier, i, other, found, localC, actions>>
  /\ \A s \in Procs : LengthsRest(s)

LEMMA Effects ==
  ASSUME RequestsInv, [Next]_vars
  PROVE  \/ AllCall \/ AllRest
         \/ \E s \in Procs :
              /\ OthersRest(s)
              /\ GoesToBarrier(s) \/ LeavesOrReturns(s) \/ Seeks(s) \/ TakesNext(s) \/ DropsOne(s)
<1> USE DEF stacks, barrier, history
<1>i. TypeOK /\ BarriersInStep
  BY DEF RequestsInv
<1>t. /\ localsToPush \in [Procs -> Seq(Request)]
      /\ localsToRemove \in [Procs -> Seq(Addresses)]
      /\ localC \in [Procs -> Nat]
      /\ i \in [Procs -> Nat]
      /\ other \in [Procs -> 0 .. P]
      /\ found \in [Procs -> BOOLEAN]
      /\ actions \in 0 .. MaxActions
      /\ calls \in [Procs -> 0 .. MaxSupersteps]
      /\ entered \in [Procs -> Nat] /\ crossed \in [Procs -> Nat]
  BY <1>i, TypesOfState
<1>l. \A s \in Procs : /\ Len(localsToPush[s]) \in Nat /\ Len(localsToRemove[s]) \in Nat
                       /\ localsToPush[s] = <<>> <=> Len(localsToPush[s]) = 0
                       /\ localsToRemove[s] = <<>> <=> Len(localsToRemove[s]) = 0
  BY <1>t, LengthOfStack
<1>1. ASSUME NEW v \in Variables, PopReg(v)
      PROVE  AllCall
  <2>1. \A s \in Procs : Address(v, s) \in Addresses
    BY DEF Address, Addresses
  <2>2. \A s \in Procs : Len(Append(localsToRemove[s], Address(v, s))) = Len(localsToRemove[s]) + 1
    BY <1>t, <2>1, PushOnStack
  <2>3. /\ localsToRemove' = [s \in Procs |-> Append(localsToRemove[s], Address(v, s))]
        /\ localsToPush' = localsToPush /\ UNCHANGED <<barrier, i, other, found, localC>>
        /\ actions' = actions + 1 /\ \A s \in Procs : Phase(s) = "compute"
    BY <1>1 DEF PopReg, Calling
  <2>4. \A s \in Procs : crossed[s] = entered[s] /\ entered[s] = 3 * calls[s]
    BY <1>i, <2>3, Phases
  <2> QED BY <2>2, <2>3, <2>4 DEF AllCall
<1>2. ASSUME NEW v \in Variables, NEW size \in Sizes, PushReg(v, size)
      PROVE  AllCall
  <2> DEFINE r(s) == [address |-> Address(v, s), size |-> size]
  <2>1. \A s \in Procs : r(s) \in Request
    BY DEF Address, Request
  <2>2. /\ localsToPush' = [s \in Procs |-> Append(localsToPush[s], r(s))]
        /\ localsToRemove' = localsToRemove /\ UNCHANGED <<barrier, i, other, found, localC>>
        /\ actions' = actions + 1 /\ \A s \in Procs : Phase(s) = "compute"
    BY <1>2 DEF PushReg, Calling
  <2> HIDE DEF r
  <2>3. \A s \in Procs : Len(Append(localsToPush[s], r(s))) = Len(localsToPush[s]) + 1
    BY <1>t, <2>1, PushOnStack
  <2>4. \A s \in Procs : crossed[s] = entered[s] /\ entered[s] = 3 * calls[s]
    BY <1>i, <2>2, Phases
  <2> QED BY <2>2, <2>3, <2>4 DEF AllCall
<1>3. ASSUME NEW s \in Procs, ArriveStart(s) \/ ArriveMid(s) \/ ArriveEnd(s)
      PROVE  OthersRest(s) /\ GoesToBarrier(s)
  <2>1. /\ entered' = [entered EXCEPT ![s] = entered[s] + 1] /\ crossed' = crossed /\ calls' = calls
        /\ localsToPush' = localsToPush /\ localsToRemove' = localsToRemove
        /\ localC' = localC /\ other' = other /\ found' = found /\ actions' = actions
        /\ i' = i \/ i' = [i EXCEPT ![s] = 1]
    BY <1>3 DEF ArriveStart, ArriveMid, ArriveEnd, Bar!Arrive, Restart
  <2>2. OthersRest(s)
    BY <1>t, <2>1 DEF OthersRest
  <2>3. /\ crossed[s] = entered[s] /\ entered'[s] = entered[s] + 1
        /\ crossed'[s] = crossed[s] /\ calls'[s] = calls[s]
        /\ LengthsRest(s) /\ localC'[s] = localC[s] /\ other'[s] = other[s] /\ found'[s] = found[s]
    BY <1>3, <1>t, <2>1 DEF ArriveStart, ArriveMid, ArriveEnd, Bar!Arrive, LengthsRest
  <2>4. CASE ArriveStart(s)
    <3>1. i' = i /\ Phase(s) = "compute"
      BY <2>4 DEF ArriveStart
    <3> QED BY <1>i, <2>2, <2>3, <3>1, Phases DEF GoesToBarrier
  <2>5. CASE ArriveMid(s)
    <3>1. i' = [i EXCEPT ![s] = 1] /\ Phase(s) = "deregister"
      BY <2>5 DEF ArriveMid, Restart
    <3>2. i'[s] = 1
      BY <1>t, <3>1
    <3> QED BY <1>i, <2>2, <2>3, <3>1, <3>2, Phases DEF GoesToBarrier
  <2>6. CASE ArriveEnd(s)
    <3>1. i' = [i EXCEPT ![s] = 1] /\ Phase(s) = "register" /\ i[s] > Len(localsToPush[s])
      BY <2>6 DEF ArriveEnd, Restart
    <3>2. i'[s] = 1
      BY <1>t, <3>1
    <3>3. Len(localsToRemove[s]) = 0
      BY <1>i, <1>l, <3>1, Phases
    <3> QED BY <1>i, <2>2, <2>3, <3>1, <3>2, <3>3, Phases DEF GoesToBarrier
  <2> QED BY <1>3, <2>4, <2>5, <2>6
<1>4. ASSUME NEW s \in Procs, Cross(s) \/ Return(s)
      PROVE  OthersRest(s) /\ LeavesOrReturns(s)
  <2>1. /\ UNCHANGED <<entered, localsToPush, localsToRemove, i, other, found, localC, actions>>
        /\ \/ crossed' = [crossed EXCEPT ![s] = crossed[s] + 1] /\ calls' = calls
           \/ /\ crossed' = crossed /\ calls' = [calls EXCEPT ![s] = calls[s] + 1]
              /\ Phase(s) = "remember" /\ localsToPush[s] = <<>>
    BY <1>4 DEF Cross, Bar!Cross, Return
  <2>2. LengthsRest(s) /\ LoopRests(s) /\ entered'[s] = entered[s]
    BY <2>1 DEF LengthsRest, LoopRests
  <2>3. OthersRest(s)
    BY <1>t, <2>1 DEF OthersRest
  <2>4. CASE crossed' = [crossed EXCEPT ![s] = crossed[s] + 1] /\ calls' = calls
    BY <1>t, <2>2, <2>3, <2>4 DEF LeavesOrReturns
  <2>5. CASE /\ crossed' = crossed /\ calls' = [calls EXCEPT ![s] = calls[s] + 1]
             /\ Phase(s) = "remember" /\ localsToPush[s] = <<>>
    <3>1. calls'[s] = calls[s] + 1
      BY <1>t, <2>5
    <3>2. crossed[s] = entered[s] /\ entered[s] = 3 * calls[s] + 3 /\ Len(localsToPush[s]) = 0
      BY <1>i, <1>l, <2>5, Phases
    <3> QED BY <2>2, <2>3, <2>5, <3>1, <3>2 DEF LeavesOrReturns
  <2> QED BY <2>1, <2>4, <2>5
<1>5. ASSUME NEW s \in Procs, SeekRemoval(s) \/ SeekRegistration(s)
      PROVE  OthersRest(s) /\ Seeks(s)
  <2>1. /\ UNCHANGED <<localsToPush, localsToRemove, i, localC, actions, barrier>>
        /\ \/ other' = [other EXCEPT ![s] = other[s] + 1] /\ found' = found
           \/ found' = [found EXCEPT ![s] = TRUE] /\ other' = other
        /\ ~ found[s] /\ other[s] < P
    BY <1>5 DEF SeekRemoval, SeekRegistration
  <2>2. OthersRest(s)
    BY <1>t, <2>1 DEF OthersRest
  <2>3. found'[s] => other'[s] < P
    BY <1>t, <2>1
  <2>4. PositionRests(s) /\ LengthsRest(s) /\ i'[s] = i[s] /\ localC'[s] = localC[s]
    BY <2>1 DEF PositionRests, LengthsRest
  <2> QED BY <2>2, <2>3, <2>4 DEF Seeks
<1>6. ASSUME NEW s \in Procs, IgnoreRemoval(s) \/ IgnoreRegistration(s)
      PROVE  OthersRest(s) /\ TakesNext(s)
  <2>1. /\ UNCHANGED <<localsToPush, localsToRemove, localC, actions, barrier>>
        /\ i' = [i EXCEPT ![s] = i[s] + 1]
        /\ other' = [other EXCEPT ![s] = 0]
        /\ found' = [found EXCEPT ![s] = FALSE]
        /\ Removing(s) \/ Registering(s)
    BY <1>6 DEF IgnoreRemoval, IgnoreRegistration, NextRequest
  <2>2. OthersRest(s)
    BY <1>t, <2>1 DEF OthersRest
  <2>3. PositionRests(s) /\ LengthsRest(s) /\ i'[s] = i[s] + 1 /\ ~ found'[s] /\ localC'[s] = localC[s]
    BY <1>t, <2>1 DEF PositionRests, LengthsRest
  <2>4. /\ crossed[s] = entered[s]
        /\ \/ entered[s] = 3 * calls[s] + 1
           \/ entered[s] = 3 * calls[s] + 2 /\ i[s] <= Len(localsToPush[s])
    BY <1>i, <2>1, Phases DEF Removing, Registering
  <2>5. localC'[s] <= localC[s] /\ localC'[s] <= localC[s] + 1
    BY <1>t, <2>3
  <2> QED BY <2>2, <2>3, <2>4, <2>5 DEF TakesNext
<1>7. ASSUME NEW s \in Procs, Deregister(s)
      PROVE  OthersRest(s) /\ TakesNext(s)
  <2>1. /\ UNCHANGED <<localsToPush, actions, barrier>>
        /\ i' = [i EXCEPT ![s] = i[s] + 1]
        /\ other' = [other EXCEPT ![s] = 0]
        /\ found' = [found EXCEPT ![s] = FALSE]
        /\ Removing(s)
    BY <1>7 DEF Deregister, NextRequest
  <2>2. /\ \/ localsToRemove' = localsToRemove
           \/ localsToRemove' = [localsToRemove EXCEPT ![s][i[s]] = Null]
        /\ \/ localC' = localC
           \/ \E g \in Numbers : localC[s] = g + 1 /\ localC' = [localC EXCEPT ![s] = g]
    BY <1>7, DeregisterEffect
  <2>3. /\ \A t \in Procs \ {s} : localsToRemove'[t] = localsToRemove[t] /\ localC'[t] = localC[t]
        /\ localC'[s] <= localC[s]
    <3>1. \A t \in Procs \ {s} : localsToRemove'[t] = localsToRemove[t]
      BY <1>t, <2>2
    <3>2. CASE localC' = localC
      BY <1>t, <3>1, <3>2
    <3>3. ASSUME NEW g \in Numbers, localC[s] = g + 1, localC' = [localC EXCEPT ![s] = g]
          PROVE  localC'[s] <= localC[s] /\ \A t \in Procs \ {s} : localC'[t] = localC[t]
      <4>1. g \in Nat
        BY ConstantFacts DEF Numbers
      <4>2. localC'[s] = g
        BY <1>t, <3>3
      <4> QED BY <1>t, <3>3, <4>1, <4>2
    <3> QED BY <2>2, <3>1, <3>2, <3>3
  <2>4. Len(localsToRemove'[s]) = Len(localsToRemove[s])
    <3>1. i[s] \in 1 .. Len(localsToRemove[s]) /\ localsToRemove[s] \in Seq(Addresses)
      BY <1>t, <2>1, RequestsOfOthers
    <3>2. Null \in Addresses
      BY DEF Addresses
    <3>3. Len([localsToRemove[s] EXCEPT ![i[s]] = Null]) = Len(localsToRemove[s])
      BY <3>1, <3>2, UpdateInStack
    <3> QED BY <1>t, <2>2, <3>3
  <2>5. OthersRest(s)
    BY <1>t, <2>1, <2>3 DEF OthersRest
  <2>6. PositionRests(s) /\ LengthsRest(s) /\ i'[s] = i[s] + 1 /\ ~ found'[s]
    BY <1>t, <2>1, <2>4 DEF PositionRests, LengthsRest
  <2>7. crossed[s] = entered[s] /\ entered[s] = 3 * calls[s] + 1
    BY <1>i, <2>1, Phases DEF Removing
  <2> QED BY <2>3, <2>5, <2>6, <2>7 DEF TakesNext
<1>8. ASSUME NEW s \in Procs, Register(s)
      PROVE  OthersRest(s) /\ TakesNext(s)
  <2>1. /\ UNCHANGED <<localsToRemove, actions, barrier>>
        /\ i' = [i EXCEPT ![s] = i[s] + 1]
        /\ other' = [other EXCEPT ![s] = 0]
        /\ found' = [found EXCEPT ![s] = FALSE]
        /\ Registering(s)
    BY <1>8 DEF Register, NextRequest
  <2>2. /\ \/ localsToPush' = localsToPush
           \/ localsToPush' = [localsToPush EXCEPT ![s][i[s]] =
                                 [localsToPush[s][i[s]] EXCEPT !.address = Null]]
        /\ \/ localC' = localC
           \/ localC' = [localC EXCEPT ![s] = localC[s] + 1]
    BY <1>8, RegisterEffect
  <2>3. /\ \A t \in Procs \ {s} : localsToPush'[t] = localsToPush[t] /\ localC'[t] = localC[t]
        /\ localC'[s] <= localC[s] + 1
    BY <1>t, <2>2
  <2>4. Len(localsToPush'[s]) = Len(localsToPush[s])
    <3>1. /\ i[s] \in 1 .. Len(localsToPush[s]) /\ localsToPush[s] \in Seq(Request)
          /\ localsToPush[s][i[s]] \in Request
      BY <1>t, <2>1, RequestsOfOthers
    <3>2. [localsToPush[s][i[s]] EXCEPT !.address = Null] \in Request
      BY <3>1 DEF Request
    <3>3. Len([localsToPush[s] EXCEPT ![i[s]] = [localsToPush[s][i[s]] EXCEPT !.address = Null]])
            = Len(localsToPush[s])
      BY <3>1, <3>2, UpdateInStack
    <3> QED BY <1>t, <2>2, <3>3
  <2>5. OthersRest(s)
    BY <1>t, <2>1, <2>3 DEF OthersRest
  <2>6. PositionRests(s) /\ LengthsRest(s) /\ i'[s] = i[s] + 1 /\ ~ found'[s]
    BY <1>t, <2>1, <2>4 DEF PositionRests, LengthsRest
  <2>7. crossed[s] = entered[s] /\ entered[s] = 3 * calls[s] + 2 /\ i[s] <= Len(localsToPush[s])
    BY <1>i, <2>1, Phases DEF Registering
  <2> QED BY <2>3, <2>5, <2>6, <2>7 DEF TakesNext
<1>9. ASSUME NEW s \in Procs, Forget(s)
      PROVE  OthersRest(s) /\ DropsOne(s)
  <2>1. /\ UNCHANGED <<localsToPush, i, other, found, localC, actions, barrier>>
        /\ localsToRemove' = [localsToRemove EXCEPT ![s] = Pop(localsToRemove[s])]
        /\ Phase(s) = "forget"
    BY <1>9 DEF Forget
  <2>2. crossed[s] = entered[s] /\ entered[s] = 3 * calls[s] + 2 /\ localsToRemove[s] # <<>>
    BY <1>i, <2>1, Phases
  <2>3. Len(localsToRemove[s]) > 0 /\ Len(Pop(localsToRemove[s])) = Len(localsToRemove[s]) - 1
    BY <1>t, <2>2, PopFromStack
  <2>4. OthersRest(s)
    BY <1>t, <2>1 DEF OthersRest
  <2>5. Len(localsToRemove'[s]) = Len(localsToRemove[s]) - 1
    BY <1>t, <2>1, <2>3
  <2> QED BY <2>1, <2>2, <2>3, <2>4, <2>5 DEF DropsOne, PositionRests, LoopRests
<1>10. ASSUME NEW s \in Procs, Remember(s)
       PROVE  OthersRest(s) /\ DropsOne(s)
  <2>1. /\ UNCHANGED <<localsToRemove, i, other, found, localC, actions, barrier>>
        /\ localsToPush' = [localsToPush EXCEPT ![s] = Pop(localsToPush[s])]
        /\ Phase(s) = "remember" /\ localsToPush[s] # <<>>
    BY <1>10 DEF Remember
  <2>2. crossed[s] = entered[s] /\ entered[s] = 3 * calls[s] + 3
    BY <1>i, <2>1, Phases
  <2>3. Len(localsToPush[s]) > 0 /\ Len(Pop(localsToPush[s])) = Len(localsToPush[s]) - 1
    BY <1>t, <2>1, PopFromStack
  <2>4. OthersRest(s)
    BY <1>t, <2>1 DEF OthersRest
  <2>5. Len(localsToPush'[s]) = Len(localsToPush[s]) - 1
    BY <1>t, <2>1, <2>3
  <2> QED BY <2>1, <2>2, <2>3, <2>4, <2>5 DEF DropsOne, PositionRests, LoopRests
<1>11. CASE UNCHANGED vars
  BY <1>11 DEF vars, AllRest, LengthsRest
<1> QED BY <1>1, <1>2, <1>3, <1>4, <1>5, <1>6, <1>7, <1>8, <1>9, <1>10, <1>11, Cases
----
(* The requests in numbers. *)
LEMMA PairsInLengths ==
  TypeOK => (RequestsPairUp <=>
    \A s, t \in Procs :
      /\ calls[t] < calls[s] => Len(localsToPush[s]) = 0 /\ Len(localsToRemove[s]) = 0
      /\ calls[s] = calls[t] =>
           /\ crossed[s] <= 3 * calls[s] + 2 /\ crossed[t] <= 3 * calls[t] + 2 =>
                Len(localsToPush[s]) = Len(localsToPush[t])
           /\ crossed[s] <= 3 * calls[s] + 1 /\ crossed[t] <= 3 * calls[t] + 1 =>
                Len(localsToRemove[s]) = Len(localsToRemove[t])
      /\ entered[s] = 3 * calls[s] + 3 => Len(localsToRemove[s]) = 0)
<1> SUFFICES ASSUME TypeOK
             PROVE  \A s \in Procs : /\ localsToPush[s] = <<>> <=> Len(localsToPush[s]) = 0
                                     /\ localsToRemove[s] = <<>> <=> Len(localsToRemove[s]) = 0
  BY DEF RequestsPairUp
<1> QED BY TypesOfState, LengthOfStack

LEMMA PairsInLengthsNext ==
  TypeOK' => (RequestsPairUp' <=>
    \A s, t \in Procs :
      /\ calls'[t] < calls'[s] => Len(localsToPush'[s]) = 0 /\ Len(localsToRemove'[s]) = 0
      /\ calls'[s] = calls'[t] =>
           /\ crossed'[s] <= 3 * calls'[s] + 2 /\ crossed'[t] <= 3 * calls'[t] + 2 =>
                Len(localsToPush'[s]) = Len(localsToPush'[t])
           /\ crossed'[s] <= 3 * calls'[s] + 1 /\ crossed'[t] <= 3 * calls'[t] + 1 =>
                Len(localsToRemove'[s]) = Len(localsToRemove'[t])
      /\ entered'[s] = 3 * calls'[s] + 3 => Len(localsToRemove'[s]) = 0)
<1> SUFFICES ASSUME TypeOK'
             PROVE  \A s \in Procs : /\ localsToPush'[s] = <<>> <=> Len(localsToPush'[s]) = 0
                                     /\ localsToRemove'[s] = <<>> <=> Len(localsToRemove'[s]) = 0
  BY DEF RequestsPairUp
<1> QED BY TypesOfStateNext, LengthOfStack

(* Everything the arithmetic of a step needs to know of two processes. *)
LEMMA Arithmetic ==
  ASSUME RequestsInv, NEW s \in Procs, NEW t \in Procs
  PROVE  /\ entered[s] \in Nat /\ crossed[s] \in Nat /\ calls[s] \in Nat
         /\ i[s] \in Nat /\ i[s] > 0 /\ localC[s] \in Nat /\ actions \in Nat
         /\ Len(localsToPush[s]) \in Nat /\ Len(localsToRemove[s]) \in Nat
         /\ crossed[s] <= entered[s] /\ entered[s] <= crossed[s] + 1
         /\ 3 * calls[s] <= crossed[s] /\ entered[s] <= 3 * calls[s] + 3
         /\ crossed[s] <= entered[t]
         /\ calls[t] < calls[s] => Len(localsToPush[s]) = 0 /\ Len(localsToRemove[s]) = 0
         /\ calls[s] = calls[t] =>
              /\ crossed[s] <= 3 * calls[s] + 2 /\ crossed[t] <= 3 * calls[t] + 2 =>
                   Len(localsToPush[s]) = Len(localsToPush[t])
              /\ crossed[s] <= 3 * calls[s] + 1 /\ crossed[t] <= 3 * calls[t] + 1 =>
                   Len(localsToRemove[s]) = Len(localsToRemove[t])
         /\ entered[s] = 3 * calls[s] + 3 => Len(localsToRemove[s]) = 0
         /\ entered[s] = 3 * calls[s] + 2 => i[s] <= Len(localsToPush[s]) + 1
         /\ found[s] => other[s] < P
         /\ localC[s] + Pending(s) <= actions
<1>1. /\ TypeOK /\ BarriersInStep /\ RequestsPairUp
      /\ LoopsStayInBounds /\ NumbersSuffice
  BY DEF RequestsInv
<1>2. /\ entered[s] \in Nat /\ crossed[s] \in Nat /\ calls[s] \in Nat
      /\ i[s] \in Nat /\ localC[s] \in Nat /\ actions \in Nat
      /\ localsToPush[s] \in Seq(Request) /\ localsToRemove[s] \in Seq(Addresses)
  BY <1>1, TypesOfState, TypesOfBarrier
<1>3. Len(localsToPush[s]) \in Nat /\ Len(localsToRemove[s]) \in Nat
  BY <1>2, LenProperties
<1>4. /\ i[s] > 0 /\ (entered[s] = 3 * calls[s] + 2 => i[s] <= Len(localsToPush[s]) + 1)
      /\ found[s] => other[s] < P
  BY <1>1 DEF LoopsStayInBounds
<1>5. localC[s] + Pending(s) <= actions
  BY <1>1 DEF NumbersSuffice
<1>6. /\ crossed[s] <= entered[s] /\ entered[s] <= crossed[s] + 1
      /\ 3 * calls[s] <= crossed[s] /\ entered[s] <= 3 * calls[s] + 3
      /\ crossed[s] <= entered[t]
  BY <1>1 DEF BarriersInStep
<1>7. /\ calls[t] < calls[s] => Len(localsToPush[s]) = 0 /\ Len(localsToRemove[s]) = 0
      /\ calls[s] = calls[t] =>
              /\ crossed[s] <= 3 * calls[s] + 2 /\ crossed[t] <= 3 * calls[t] + 2 =>
                   Len(localsToPush[s]) = Len(localsToPush[t])
              /\ crossed[s] <= 3 * calls[s] + 1 /\ crossed[t] <= 3 * calls[t] + 1 =>
                   Len(localsToRemove[s]) = Len(localsToRemove[t])
      /\ entered[s] = 3 * calls[s] + 3 => Len(localsToRemove[s]) = 0
  BY <1>1, PairsInLengths
<1> QED BY <1>2, <1>3, <1>4, <1>5, <1>6, <1>7

PairAfter(s, t) ==
  /\ calls'[t] < calls'[s] => Len(localsToPush'[s]) = 0 /\ Len(localsToRemove'[s]) = 0
  /\ calls'[s] = calls'[t] =>
       /\ crossed'[s] <= 3 * calls'[s] + 2 /\ crossed'[t] <= 3 * calls'[t] + 2 =>
            Len(localsToPush'[s]) = Len(localsToPush'[t])
       /\ crossed'[s] <= 3 * calls'[s] + 1 /\ crossed'[t] <= 3 * calls'[t] + 1 =>
            Len(localsToRemove'[s]) = Len(localsToRemove'[t])
  /\ entered'[s] = 3 * calls'[s] + 3 => Len(localsToRemove'[s]) = 0

LEMMA PairStep ==
  ASSUME RequestsInv, [Next]_vars
  PROVE  RequestsPairUp'
<1> SUFFICES ASSUME NEW s \in Procs, NEW t \in Procs
             PROVE  PairAfter(s, t)
  BY TypeStep, PairsInLengthsNext DEF PairAfter
<1>s. /\ entered[s] \in Nat /\ crossed[s] \in Nat /\ calls[s] \in Nat
      /\ Len(localsToPush[s]) \in Nat /\ Len(localsToRemove[s]) \in Nat
      /\ crossed[s] <= entered[s] /\ entered[s] <= crossed[s] + 1
      /\ 3 * calls[s] <= crossed[s] /\ entered[s] <= 3 * calls[s] + 3
      /\ crossed[s] <= entered[t]
      /\ calls[t] < calls[s] => Len(localsToPush[s]) = 0 /\ Len(localsToRemove[s]) = 0
      /\ calls[s] = calls[t] =>
           /\ crossed[s] <= 3 * calls[s] + 2 /\ crossed[t] <= 3 * calls[t] + 2 =>
                Len(localsToPush[s]) = Len(localsToPush[t])
           /\ crossed[s] <= 3 * calls[s] + 1 /\ crossed[t] <= 3 * calls[t] + 1 =>
                Len(localsToRemove[s]) = Len(localsToRemove[t])
      /\ entered[s] = 3 * calls[s] + 3 => Len(localsToRemove[s]) = 0
  BY Arithmetic
<1>t. /\ entered[t] \in Nat /\ crossed[t] \in Nat /\ calls[t] \in Nat
      /\ Len(localsToPush[t]) \in Nat /\ Len(localsToRemove[t]) \in Nat
      /\ crossed[t] <= entered[t] /\ entered[t] <= crossed[t] + 1
      /\ 3 * calls[t] <= crossed[t] /\ entered[t] <= 3 * calls[t] + 3
      /\ crossed[t] <= entered[s]
      /\ calls[s] < calls[t] => Len(localsToPush[t]) = 0 /\ Len(localsToRemove[t]) = 0
      /\ calls[t] = calls[s] =>
           /\ crossed[t] <= 3 * calls[t] + 2 /\ crossed[s] <= 3 * calls[s] + 2 =>
                Len(localsToPush[t]) = Len(localsToPush[s])
           /\ crossed[t] <= 3 * calls[t] + 1 /\ crossed[s] <= 3 * calls[s] + 1 =>
                Len(localsToRemove[t]) = Len(localsToRemove[s])
      /\ entered[t] = 3 * calls[t] + 3 => Len(localsToRemove[t]) = 0
  BY Arithmetic
<1>1. CASE AllCall
  <2>1. /\ entered'[s] = entered[s] /\ crossed'[s] = crossed[s] /\ calls'[s] = calls[s]
        /\ entered'[t] = entered[t] /\ crossed'[t] = crossed[t] /\ calls'[t] = calls[t]
        /\ crossed[s] = entered[s] /\ entered[s] = 3 * calls[s]
        /\ crossed[t] = entered[t] /\ entered[t] = 3 * calls[t]
    BY <1>1 DEF AllCall, barrier
  <2>2. \/ /\ Len(localsToPush'[s]) = Len(localsToPush[s]) + 1
           /\ Len(localsToRemove'[s]) = Len(localsToRemove[s])
           /\ Len(localsToPush'[t]) = Len(localsToPush[t]) + 1
           /\ Len(localsToRemove'[t]) = Len(localsToRemove[t])
        \/ /\ Len(localsToPush'[s]) = Len(localsToPush[s])
           /\ Len(localsToRemove'[s]) = Len(localsToRemove[s]) + 1
           /\ Len(localsToPush'[t]) = Len(localsToPush[t])
           /\ Len(localsToRemove'[t]) = Len(localsToRemove[t]) + 1
    BY <1>1 DEF AllCall
  <2>3. calls[s] = calls[t]
    BY <2>1, <1>s, <1>t
  <2>4. Len(localsToPush[s]) = Len(localsToPush[t]) /\ Len(localsToRemove[s]) = Len(localsToRemove[t])
    BY <2>1, <2>3, <1>s, <1>t
  <2>5. entered'[s] # 3 * calls'[s] + 3 /\ ~ (calls'[t] < calls'[s])
    BY <2>1, <2>3, <1>s, <1>t
  <2>6. /\ Len(localsToPush'[s]) = Len(localsToPush'[t])
        /\ Len(localsToRemove'[s]) = Len(localsToRemove'[t])
    BY <2>2, <2>4
  <2> QED BY <2>5, <2>6 DEF PairAfter
<1>2. CASE AllRest
  <2>1. /\ entered'[s] = entered[s] /\ crossed'[s] = crossed[s] /\ calls'[s] = calls[s]
        /\ Len(localsToPush'[s]) = Len(localsToPush[s])
        /\ Len(localsToRemove'[s]) = Len(localsToRemove[s])
    BY <1>2 DEF AllRest, barrier, LengthsRest
  <2>2. /\ entered'[t] = entered[t] /\ crossed'[t] = crossed[t] /\ calls'[t] = calls[t]
        /\ Len(localsToPush'[t]) = Len(localsToPush[t])
        /\ Len(localsToRemove'[t]) = Len(localsToRemove[t])
    BY <1>2 DEF AllRest, barrier, LengthsRest
  <2> QED BY <2>1, <2>2, <1>s, <1>t DEF PairAfter
<1>3. ASSUME NEW u \in Procs, OthersRest(u),
             GoesToBarrier(u) \/ LeavesOrReturns(u) \/ Seeks(u) \/ TakesNext(u) \/ DropsOne(u)
      PROVE  PairAfter(s, t)
  <2>1. CASE u = s /\ t # s
    <3>r. /\ entered'[t] = entered[t] /\ crossed'[t] = crossed[t] /\ calls'[t] = calls[t]
          /\ Len(localsToPush'[t]) = Len(localsToPush[t])
          /\ Len(localsToRemove'[t]) = Len(localsToRemove[t])
      BY <1>3, <2>1 DEF OthersRest
    <3>1. CASE GoesToBarrier(s)
      BY <3>1, <3>r, <2>1, <1>s, <1>t DEF GoesToBarrier, LengthsRest, PairAfter
    <3>2. CASE LeavesOrReturns(s)
      BY <3>2, <3>r, <2>1, <1>s, <1>t DEF LeavesOrReturns, LengthsRest, LoopRests, PairAfter
    <3>3. CASE Seeks(s)
      BY <3>3, <3>r, <2>1, <1>s, <1>t DEF Seeks, PositionRests, LengthsRest, PairAfter
    <3>4. CASE TakesNext(s)
      BY <3>4, <3>r, <2>1, <1>s, <1>t DEF TakesNext, PositionRests, LengthsRest, PairAfter
    <3>5. CASE DropsOne(s)
      BY <3>5, <3>r, <2>1, <1>s, <1>t DEF DropsOne, PositionRests, LoopRests, PairAfter
    <3> QED BY <1>3, <2>1, <3>1, <3>2, <3>3, <3>4, <3>5
  <2>2. CASE u = t /\ t # s
    <3>r. /\ entered'[s] = entered[s] /\ crossed'[s] = crossed[s] /\ calls'[s] = calls[s]
          /\ Len(localsToPush'[s]) = Len(localsToPush[s])
          /\ Len(localsToRemove'[s]) = Len(localsToRemove[s])
      BY <1>3, <2>2 DEF OthersRest
    <3>1. CASE GoesToBarrier(t)
      BY <3>1, <3>r, <2>2, <1>s, <1>t DEF GoesToBarrier, LengthsRest, PairAfter
    <3>2. CASE LeavesOrReturns(t)
      BY <3>2, <3>r, <2>2, <1>s, <1>t DEF LeavesOrReturns, LengthsRest, LoopRests, PairAfter
    <3>3. CASE Seeks(t)
      BY <3>3, <3>r, <2>2, <1>s, <1>t DEF Seeks, PositionRests, LengthsRest, PairAfter
    <3>4. CASE TakesNext(t)
      BY <3>4, <3>r, <2>2, <1>s, <1>t DEF TakesNext, PositionRests, LengthsRest, PairAfter
    <3>5. CASE DropsOne(t)
      BY <3>5, <3>r, <2>2, <1>s, <1>t DEF DropsOne, PositionRests, LoopRests, PairAfter
    <3> QED BY <1>3, <2>2, <3>1, <3>2, <3>3, <3>4, <3>5
  <2>3. CASE u = s /\ t = s
    <3>1. CASE GoesToBarrier(s)
      BY <3>1, <2>3, <1>s, <1>t DEF GoesToBarrier, LengthsRest, PairAfter
    <3>2. CASE LeavesOrReturns(s)
      BY <3>2, <2>3, <1>s, <1>t DEF LeavesOrReturns, LengthsRest, LoopRests, PairAfter
    <3>3. CASE Seeks(s)
      BY <3>3, <2>3, <1>s, <1>t DEF Seeks, PositionRests, LengthsRest, PairAfter
    <3>4. CASE TakesNext(s)
      BY <3>4, <2>3, <1>s, <1>t DEF TakesNext, PositionRests, LengthsRest, PairAfter
    <3>5. CASE DropsOne(s)
      BY <3>5, <2>3, <1>s, <1>t DEF DropsOne, PositionRests, LoopRests, PairAfter
    <3> QED BY <1>3, <2>3, <3>1, <3>2, <3>3, <3>4, <3>5
  <2>4. CASE u # s /\ u # t
    <3>1. /\ entered'[s] = entered[s] /\ crossed'[s] = crossed[s] /\ calls'[s] = calls[s]
          /\ Len(localsToPush'[s]) = Len(localsToPush[s])
          /\ Len(localsToRemove'[s]) = Len(localsToRemove[s])
      BY <1>3, <2>4 DEF OthersRest
    <3>2. /\ entered'[t] = entered[t] /\ crossed'[t] = crossed[t] /\ calls'[t] = calls[t]
          /\ Len(localsToPush'[t]) = Len(localsToPush[t])
          /\ Len(localsToRemove'[t]) = Len(localsToRemove[t])
      BY <1>3, <2>4 DEF OthersRest
    <3> QED BY <3>1, <3>2, <1>s, <1>t DEF PairAfter
  <2> QED BY <2>1, <2>2, <2>3, <2>4
<1> QED BY <1>1, <1>2, <1>3, Effects

LEMMA LoopStep ==
  ASSUME RequestsInv, [Next]_vars
  PROVE  LoopsStayInBounds'
<1> SUFFICES ASSUME NEW s \in Procs
             PROVE  /\ i'[s] > 0
                    /\ entered'[s] = 3 * calls'[s] + 2 => i'[s] <= Len(localsToPush'[s]) + 1
                    /\ found'[s] => other'[s] < P
  BY DEF LoopsStayInBounds
<1>a. /\ entered[s] \in Nat /\ crossed[s] \in Nat /\ calls[s] \in Nat
      /\ i[s] \in Nat /\ i[s] > 0
      /\ Len(localsToPush[s]) \in Nat
      /\ entered[s] = 3 * calls[s] + 2 => i[s] <= Len(localsToPush[s]) + 1
      /\ found[s] => other[s] < P
  BY Arithmetic
<1>1. CASE AllCall
  BY <1>1, <1>a DEF AllCall, barrier
<1>2. CASE AllRest
  BY <1>2, <1>a DEF AllRest, barrier, LengthsRest
<1>3. ASSUME NEW u \in Procs, u # s, OthersRest(u)
      PROVE  /\ i'[s] > 0
             /\ entered'[s] = 3 * calls'[s] + 2 => i'[s] <= Len(localsToPush'[s]) + 1
             /\ found'[s] => other'[s] < P
  BY <1>3, <1>a DEF OthersRest
<1>4. CASE GoesToBarrier(s)
  BY <1>4, <1>a DEF GoesToBarrier, LengthsRest
<1>5. CASE LeavesOrReturns(s)
  BY <1>5, <1>a DEF LeavesOrReturns, LengthsRest, LoopRests
<1>6. CASE Seeks(s)
  BY <1>6, <1>a DEF Seeks, PositionRests, LengthsRest
<1>7. CASE TakesNext(s)
  BY <1>7, <1>a DEF TakesNext, PositionRests, LengthsRest
<1>8. CASE DropsOne(s)
  BY <1>8, <1>a DEF DropsOne, PositionRests, LoopRests
<1> QED BY <1>1, <1>2, <1>3, <1>4, <1>5, <1>6, <1>7, <1>8, Effects

LEMMA NumbersInLengths ==
  NumbersSuffice <=>
    \A s \in Procs :
      /\ entered[s] = 3 * calls[s] + 3 => localC[s] + 0 <= actions
      /\ entered[s] # 3 * calls[s] + 3 /\ entered[s] = 3 * calls[s] + 2 =>
           localC[s] + (Len(localsToPush[s]) - (i[s] - 1)) <= actions
      /\ entered[s] # 3 * calls[s] + 3 /\ entered[s] # 3 * calls[s] + 2 =>
           localC[s] + Len(localsToPush[s]) <= actions
BY DEF NumbersSuffice, Pending

LEMMA OneLess ==
  ASSUME NEW n \in Nat, NEW m \in Nat, NEW l \in Nat, NEW j \in Nat, NEW a \in Nat,
         m <= n + 1, n + (l - (j - 1)) <= a
  PROVE  m + (l - ((j + 1) - 1)) <= a
OBVIOUS

LEMMA NumberStep ==
  ASSUME RequestsInv, [Next]_vars
  PROVE  NumbersSuffice'
<1> DEFINE Enough(s) ==
      /\ entered'[s] = 3 * calls'[s] + 3 => localC'[s] + 0 <= actions'
      /\ entered'[s] # 3 * calls'[s] + 3 /\ entered'[s] = 3 * calls'[s] + 2 =>
           localC'[s] + (Len(localsToPush'[s]) - (i'[s] - 1)) <= actions'
      /\ entered'[s] # 3 * calls'[s] + 3 /\ entered'[s] # 3 * calls'[s] + 2 =>
           localC'[s] + Len(localsToPush'[s]) <= actions'
<1> SUFFICES ASSUME NEW s \in Procs
             PROVE  Enough(s)
  BY DEF NumbersSuffice, Pending
<1>a. /\ entered[s] \in Nat /\ crossed[s] \in Nat /\ calls[s] \in Nat
      /\ i[s] \in Nat /\ i[s] > 0 /\ localC[s] \in Nat /\ actions \in Nat
      /\ Len(localsToPush[s]) \in Nat
      /\ crossed[s] <= entered[s] /\ entered[s] <= 3 * calls[s] + 3
      /\ entered[s] = 3 * calls[s] + 2 => i[s] <= Len(localsToPush[s]) + 1
  BY Arithmetic
<1>p. /\ entered[s] = 3 * calls[s] + 3 => localC[s] + 0 <= actions
      /\ entered[s] # 3 * calls[s] + 3 /\ entered[s] = 3 * calls[s] + 2 =>
           localC[s] + (Len(localsToPush[s]) - (i[s] - 1)) <= actions
      /\ entered[s] # 3 * calls[s] + 3 /\ entered[s] # 3 * calls[s] + 2 =>
           localC[s] + Len(localsToPush[s]) <= actions
  BY NumbersInLengths DEF RequestsInv
<1>b. localC'[s] \in Nat /\ actions' \in Nat
  BY TypeStep, TypesOfStateNext, ConstantFacts
<1>1. CASE AllCall
  <2>1. /\ actions' = actions + 1 /\ entered'[s] = entered[s] /\ calls'[s] = calls[s]
        /\ localC'[s] = localC[s] /\ i'[s] = i[s]
        /\ entered[s] = 3 * calls[s]
        /\ \/ Len(localsToPush'[s]) = Len(localsToPush[s]) + 1
           \/ Len(localsToPush'[s]) = Len(localsToPush[s])
    BY <1>1 DEF AllCall, barrier
  <2> QED BY <2>1, <1>a, <1>p
<1>2. CASE AllRest
  <2>1. /\ actions' = actions /\ entered'[s] = entered[s] /\ calls'[s] = calls[s]
        /\ localC'[s] = localC[s] /\ i'[s] = i[s]
        /\ Len(localsToPush'[s]) = Len(localsToPush[s])
    BY <1>2 DEF AllRest, barrier, LengthsRest
  <2> QED BY <2>1, <1>a, <1>p
<1>3. ASSUME NEW u \in Procs, u # s, OthersRest(u)
      PROVE  Enough(s)
  <2>1. /\ actions' = actions /\ entered'[s] = entered[s] /\ calls'[s] = calls[s]
        /\ localC'[s] = localC[s] /\ i'[s] = i[s]
        /\ Len(localsToPush'[s]) = Len(localsToPush[s])
    BY <1>3 DEF OthersRest
  <2> QED BY <2>1, <1>a, <1>p
<1>4. CASE actions' = actions /\ GoesToBarrier(s)
  <2>1. /\ actions' = actions /\ entered'[s] = entered[s] + 1 /\ calls'[s] = calls[s]
        /\ localC'[s] = localC[s]
        /\ Len(localsToPush'[s]) = Len(localsToPush[s])
    BY <1>4 DEF GoesToBarrier, LengthsRest
  <2>2. \/ entered[s] = 3 * calls[s]
        \/ entered[s] = 3 * calls[s] + 1 /\ i'[s] = 1
        \/ entered[s] = 3 * calls[s] + 2 /\ i[s] > Len(localsToPush[s])
    BY <1>4 DEF GoesToBarrier
  <2>3. CASE entered[s] = 3 * calls[s]
    BY <1>a, <1>p, <2>1, <2>3
  <2>4. CASE entered[s] = 3 * calls[s] + 1 /\ i'[s] = 1
    BY <1>a, <1>p, <2>1, <2>4
  <2>5. CASE entered[s] = 3 * calls[s] + 2 /\ i[s] > Len(localsToPush[s])
    <3>1. localC[s] + (Len(localsToPush[s]) - (i[s] - 1)) <= actions
      BY <1>a, <1>p, <2>5
    <3>2. i[s] - 1 = Len(localsToPush[s])
      BY <1>a, <2>5
    <3>3. localC[s] + 0 <= actions
      BY <1>a, <3>1, <3>2
    <3> QED BY <1>a, <2>1, <2>5, <3>3
  <2> QED BY <2>2, <2>3, <2>4, <2>5
<1>5. CASE actions' = actions /\ LeavesOrReturns(s)
  BY <1>5, <1>a, <1>p DEF LeavesOrReturns, LengthsRest, LoopRests
<1>6. CASE actions' = actions /\ Seeks(s)
  <2>1. /\ actions' = actions /\ entered'[s] = entered[s] /\ calls'[s] = calls[s]
        /\ localC'[s] = localC[s] /\ i'[s] = i[s]
        /\ Len(localsToPush'[s]) = Len(localsToPush[s])
    BY <1>6 DEF Seeks, PositionRests, LengthsRest
  <2> QED BY <2>1, <1>a, <1>p
<1>7. CASE actions' = actions /\ TakesNext(s)
  <2>1. /\ actions' = actions /\ entered'[s] = entered[s] /\ calls'[s] = calls[s]
        /\ i'[s] = i[s] + 1
        /\ Len(localsToPush'[s]) = Len(localsToPush[s])
    BY <1>7 DEF TakesNext, PositionRests, LengthsRest
  <2>2. \/ entered[s] = 3 * calls[s] + 1 /\ localC'[s] <= localC[s]
        \/ /\ entered[s] = 3 * calls[s] + 2 /\ localC'[s] <= localC[s] + 1
           /\ i[s] <= Len(localsToPush[s])
    BY <1>7 DEF TakesNext
  <2>3. CASE entered[s] = 3 * calls[s] + 1 /\ localC'[s] <= localC[s]
    BY <1>a, <1>b, <1>p, <2>1, <2>3
  <2>4. CASE entered[s] = 3 * calls[s] + 2 /\ localC'[s] <= localC[s] + 1
    <3>1. localC[s] + (Len(localsToPush[s]) - (i[s] - 1)) <= actions
      BY <1>a, <1>p, <2>4
    <3>2. localC'[s] + (Len(localsToPush'[s]) - (i'[s] - 1)) <= actions'
      <4>1. localC'[s] + (Len(localsToPush[s]) - ((i[s] + 1) - 1)) <= actions
        BY <1>a, <1>b, <2>4, <3>1, OneLess
      <4> QED BY <2>1, <4>1
    <3>3. entered'[s] = 3 * calls'[s] + 2 /\ entered'[s] # 3 * calls'[s] + 3
      BY <1>a, <2>1, <2>4
    <3> QED BY <3>2, <3>3
  <2> QED BY <2>2, <2>3, <2>4
<1>8. CASE actions' = actions /\ DropsOne(s)
  BY <1>8, <1>a, <1>p DEF DropsOne, PositionRests, LoopRests
<1>9. ASSUME NEW u \in Procs, OthersRest(u),
             GoesToBarrier(u) \/ LeavesOrReturns(u) \/ Seeks(u) \/ TakesNext(u) \/ DropsOne(u)
      PROVE  Enough(s)
  <2>1. CASE u # s
    BY <1>3, <1>9, <2>1
  <2>2. CASE u = s
    <3>1. actions' = actions
      BY <1>9 DEF OthersRest
    <3> HIDE DEF Enough
    <3> QED BY <1>9, <1>4, <1>5, <1>6, <1>7, <1>8, <2>2, <3>1
  <2> QED BY <2>1, <2>2
<1> HIDE DEF Enough
<1> QED BY <1>1, <1>2, <1>9, Effects

----
(* Whenever a process looks at a request of another process (to find out
   what its own NULL stands for), that process has a request at that place,
   and it has not dropped it yet; and a new number is always one the table
   has room for. *)
THEOREM RequestsCorrect == Spec => []RequestsInv
<1>1. Init => RequestsInv
  <2> SUFFICES ASSUME Init
               PROVE  RequestsInv
    OBVIOUS
  <2>i. /\ localsToPush = [s \in Procs |-> <<>>]
        /\ localsToRemove = [s \in Procs |-> <<>>]
        /\ globalsToPush = [s \in Procs |-> <<>>]
        /\ removedGlobals = [s \in Procs |-> <<>>]
        /\ localC = [s \in Procs |-> 0]
        /\ local2global = [s \in Procs |-> Empty]
        /\ new_addresses = [s \in Procs |-> Empty]
        /\ table = [g \in Numbers |-> [s \in Procs |-> <<>>]]
        /\ i = [s \in Procs |-> 1]
        /\ other = [s \in Procs |-> 0]
        /\ found = [s \in Procs |-> FALSE]
        /\ calls = [s \in Procs |-> 0]
        /\ entered = [s \in Procs |-> 0] /\ crossed = [s \in Procs |-> 0]
        /\ actions = 0
        /\ registered = [v \in Variables |-> <<>>]
        /\ added = [v \in Variables |-> <<>>]
        /\ dropped = [v \in Variables |-> 0]
    BY DEF Init, Bar!Init, Bar!Procs, Procs
  <2>1. TypeOK
    <3>1. /\ <<>> \in Seq(Request) /\ <<>> \in Seq(Addresses) /\ <<>> \in Seq(Numbers)
          /\ <<>> \in Seq(Sizes)
      BY EmptySeq
    <3>2. 0 \in 0 .. MaxActions /\ 0 \in 0 .. MaxSupersteps /\ 0 \in 0 .. P
      BY ConstantFacts
    <3>3. Empty \in [Addresses -> Numbers \cup {None}]
      BY DEF Empty, Addresses
    <3> QED BY <2>i, <3>1, <3>2, <3>3, TypesOfState
  <2>2. BarriersInStep
    BY <2>i DEF BarriersInStep
  <2>3. RequestsPairUp
    BY <2>i DEF RequestsPairUp
  <2>4. LoopsStayInBounds
    BY <2>i DEF LoopsStayInBounds
  <2>5. NumbersSuffice
    <3>1. Len(<<>>) = 0
      BY EmptySeq
    <3> QED BY <2>i, <3>1 DEF NumbersSuffice, Pending
  <2> QED BY <2>1, <2>2, <2>3, <2>4, <2>5 DEF RequestsInv
<1>2. RequestsInv /\ [Next]_vars => RequestsInv'
  <2> SUFFICES ASSUME RequestsInv, [Next]_vars
               PROVE  RequestsInv'
    OBVIOUS
  <2>1. BarriersInStep'
    BY BarrierStep DEF RequestsInv
  <2> QED BY <2>1, TypeStep, PairStep, LoopStep, NumberStep DEF RequestsInv
<1> QED BY <1>1, <1>2, PTL DEF Spec

(* Whoever puts or gets looks addresses up in the table without a lock, in
   user code: no process changes the table then, however far ahead in its
   own bsp_sync, or late in the last one, it is. *)
THEOREM TableRests == Spec => TableRestsWhileUsed
<1>1. ASSUME RequestsInv, [Next]_vars, NEW u \in Procs, Phase(u) = "compute"
      PROVE  UNCHANGED table
  <2>i. TypeOK /\ BarriersInStep
    BY <1>1 DEF RequestsInv
  <2>1. crossed[u] = entered[u] /\ entered[u] = 3 * calls[u]
    BY <1>1, <2>i, Phases
  <2>2. \A s \in Procs :
          /\ entered[s] \in Nat /\ crossed[s] \in Nat /\ calls[s] \in Nat
          /\ crossed[s] <= entered[u] /\ crossed[u] <= entered[s]
    BY <2>i, TypesOfBarrier DEF BarriersInStep
  <2>3. \A s \in Procs : ~ Removing(s) /\ ~ Registering(s)
    <3> SUFFICES ASSUME NEW s \in Procs, Removing(s) \/ Registering(s)
                 PROVE  FALSE
      OBVIOUS
    <3>1. crossed[s] = entered[s] /\ (entered[s] = 3 * calls[s] + 1 \/ entered[s] = 3 * calls[s] + 2)
      BY <2>i, Phases DEF Removing, Registering
    <3>2. 3 * calls[u] = entered[s] /\ calls[u] \in Nat /\ calls[s] \in Nat
      BY <2>1, <2>2, <3>1
    <3> QED BY <3>1, <3>2
  <2>4. \A s \in Procs : ~ Deregister(s) /\ ~ Register(s)
    BY <2>3 DEF Deregister, Register
  <2>5. CASE \E v \in Variables : PopReg(v) \/ \E size \in Sizes : PushReg(v, size)
    BY <2>5 DEF PopReg, PushReg
  <2>6. CASE \E s \in Procs : ArriveStart(s) \/ SeekRemoval(s) \/ IgnoreRemoval(s) \/ ArriveMid(s)
    BY <2>6 DEF ArriveStart, SeekRemoval, IgnoreRemoval, ArriveMid
  <2>7. CASE \E s \in Procs : Forget(s) \/ SeekRegistration(s) \/ IgnoreRegistration(s) \/ ArriveEnd(s)
    BY <2>7 DEF Forget, SeekRegistration, IgnoreRegistration, ArriveEnd
  <2>8. CASE \E s \in Procs : Remember(s) \/ Return(s) \/ Cross(s)
    BY <2>8 DEF Remember, Return, Cross
  <2>9. CASE UNCHANGED vars
    BY <2>9 DEF vars
  <2> QED BY <1>1, <2>4, <2>5, <2>6, <2>7, <2>8, <2>9, Cases
<1>2. RequestsInv /\ [Next]_vars => [(\E s \in Procs : Phase(s) = "compute") => UNCHANGED table]_vars
  BY <1>1
<1> QED BY <1>2, RequestsCorrect, PTL DEF Spec, TableRestsWhileUsed

----
(***************************************************************************)
(* Why the processes agree on the numbers of variables.  Each of them      *)
(* works the numbers out by itself, from its own requests and, where those *)
(* are NULL or were made NULL, from what it reads of others', while the    *)
(* others may be some steps ahead or behind.  The inductive invariant says *)
(* that there is one account of the superstep in progress (what was asked  *)
(* for, in which order, and the numbering after each request) and that     *)
(* every process is somewhere in it: with the numbers, the table, the map  *)
(* and the requests that the account gives for that place.                 *)
(***************************************************************************)

(* The numbers of variables.  While no process is in bsp_sync all of them
   would answer alike: a numbering says which number each variable has,
   which ones were freed, and from where on all are unused. *)
Numbering == [num : [Variables -> Numbers \cup {None}], freed : Seq(Numbers), next : Nat]

NumbersDiffer(x) ==
  /\ \A v, w \in Variables : v # w /\ x.num[v] # None => x.num[v] # x.num[w]
  /\ \A v \in Variables : x.num[v] # None => x.num[v] < x.next
  /\ \A j \in 1 .. Len(x.freed) :
       x.freed[j] < x.next /\ \A v \in Variables : x.num[v] # x.freed[j]
  /\ \A j, k \in 1 .. Len(x.freed) : x.freed[j] = x.freed[k] => j = k

Sensible(x) == x \in Numbering /\ NumbersDiffer(x)

(* A variable takes the number freed last, or an unused one. *)
Chosen(x) == IF x.freed = <<>> THEN x.next ELSE Top(x.freed)

Taken(x, v) ==
  [num |-> [x.num EXCEPT ![v] = Chosen(x)],
   freed |-> IF x.freed = <<>> THEN x.freed ELSE Pop(x.freed),
   next |-> IF x.freed = <<>> THEN x.next + 1 ELSE x.next]

(* It gives its number back. *)
Released(x, v) ==
  [num |-> [x.num EXCEPT ![v] = None],
   freed |-> IF x.next = x.num[v] + 1 THEN x.freed ELSE Append(x.freed, x.num[v]),
   next |-> IF x.next = x.num[v] + 1 THEN x.next - 1 ELSE x.next]

(* Popping leaves the other elements of a stack alone. *)
LEMMA PopElements ==
  ASSUME NEW S, NEW q \in Seq(S), q # <<>>
  PROVE  \A j \in 1 .. Len(q) - 1 : Pop(q)[j] = q[j]
<1>1. Len(q) \in Nat /\ \A j \in 1 .. Len(q) : q[j] \in S
  BY LenProperties, ElementOfSeq
<1>2. \A j \in 1 .. (Len(q) - 1) : q[j] \in S
  BY <1>1
<1>3. \A j \in 1 .. ((Len(q) - 1) - 1) + 1 : SubSeq(q, 1, Len(q) - 1)[j] = q[(1 + j) - 1]
  BY <1>1, <1>2, SubSeqProperties
<1> QED BY <1>1, <1>3 DEF Pop

(* And so does pushing one more. *)
LEMMA AppendElements ==
  ASSUME NEW S, NEW q \in Seq(S), NEW e \in S
  PROVE  /\ \A j \in 1 .. Len(q) : Append(q, e)[j] = q[j]
         /\ Append(q, e)[Len(q) + 1] = e
<1>1. Len(q) \in Nat
  BY LenProperties
<1> QED BY <1>1

(* A variable that takes a number gets one that nobody has, and all others
   keep theirs. *)
LEMMA TakenIs ==
  ASSUME NEW x, Sensible(x), NEW v \in Variables, x.num[v] = None,
         x.next \in Numbers
  PROVE  /\ Chosen(x) \in Numbers /\ Chosen(x) # None
         /\ \A w \in Variables : x.num[w] # Chosen(x)
         /\ Sensible(Taken(x, v))
         /\ Taken(x, v).next <= x.next + 1
         /\ Taken(x, v).num[v] = Chosen(x)
         /\ \A w \in Variables \ {v} : Taken(x, v).num[w] = x.num[w]
<1> DEFINE y == Taken(x, v)
<1>1. /\ x.num \in [Variables -> Numbers \cup {None}] /\ x.freed \in Seq(Numbers) /\ x.next \in Nat
      /\ NumbersDiffer(x)
  BY DEF Sensible, Numbering
<1>2. /\ y.num = [x.num EXCEPT ![v] = Chosen(x)]
      /\ y.freed = IF x.freed = <<>> THEN x.freed ELSE Pop(x.freed)
      /\ y.next = IF x.freed = <<>> THEN x.next + 1 ELSE x.next
      /\ y = [num |-> y.num, freed |-> y.freed, next |-> y.next]
  BY DEF Taken
<1> HIDE DEF y
<1>3. Numbers \subseteq Nat /\ Len(x.freed) \in Nat
  BY <1>1, ConstantFacts, LenProperties DEF Numbers
<1>4. \A w \in Variables : x.num[w] # None => x.num[w] \in Numbers
  BY <1>1
<1>5. CASE x.freed = <<>>
  <2>1. Chosen(x) = x.next /\ y.freed = x.freed /\ y.next = x.next + 1
    BY <1>2, <1>5 DEF Chosen
  <2>2. \A w \in Variables : x.num[w] # x.next
    <3> SUFFICES ASSUME NEW w \in Variables, x.num[w] = x.next
                 PROVE  FALSE
      OBVIOUS
    <3>1. x.num[w] # None
      BY NoneAssumption
    <3>2. x.num[w] < x.next
      BY <1>1, <3>1 DEF NumbersDiffer
    <3> QED BY <1>1, <3>2
  <2>3. y \in Numbering
    BY <1>1, <1>2, <2>1 DEF Numbering
  <2>4. Len(x.freed) = 0
    BY <1>5, EmptySeq
  <2>5. \A w \in Variables : y.num[w] = IF w = v THEN x.next ELSE x.num[w]
    BY <1>1, <1>2, <2>1
  <2>6. \A w \in Variables : y.num[w] # None => y.num[w] < y.next
    BY <1>1, <1>3, <1>4, <2>1, <2>5 DEF NumbersDiffer
  <2>7. \A w, u \in Variables : w # u /\ y.num[w] # None => y.num[w] # y.num[u]
    BY <1>1, <2>2, <2>5 DEF NumbersDiffer
  <2>8. NumbersDiffer(y)
    BY <2>1, <2>4, <2>6, <2>7 DEF NumbersDiffer
  <2> QED BY <1>1, <1>2, <2>1, <2>2, <2>3, <2>5, <2>8, NoneAssumption DEF y, Sensible
<1>6. CASE x.freed # <<>>
  <2>1. Chosen(x) = Top(x.freed) /\ y.freed = Pop(x.freed) /\ y.next = x.next
    BY <1>2, <1>6 DEF Chosen
  <2>2. /\ Len(x.freed) > 0 /\ Top(x.freed) = x.freed[Len(x.freed)] /\ Top(x.freed) \in Numbers
        /\ Pop(x.freed) \in Seq(Numbers) /\ Len(Pop(x.freed)) = Len(x.freed) - 1
        /\ \A j \in 1 .. Len(x.freed) - 1 : Pop(x.freed)[j] = x.freed[j]
    BY <1>1, <1>6, PopFromStack, PopElements
  <2>3. Len(x.freed) \in 1 .. Len(x.freed)
    BY <1>3, <2>2
  <2>4. /\ Chosen(x) < x.next
        /\ \A w \in Variables : x.num[w] # Chosen(x)
    BY <1>1, <2>1, <2>2, <2>3 DEF NumbersDiffer
  <2>5. y \in Numbering
    BY <1>1, <1>2, <2>1, <2>2 DEF Numbering
  <2>6. \A w \in Variables : y.num[w] = IF w = v THEN Chosen(x) ELSE x.num[w]
    BY <1>1, <1>2
  <2>7. \A w \in Variables : y.num[w] # None => y.num[w] < y.next
    BY <1>1, <2>1, <2>4, <2>6 DEF NumbersDiffer
  <2>8. \A w, u \in Variables : w # u /\ y.num[w] # None => y.num[w] # y.num[u]
    BY <1>1, <2>4, <2>6 DEF NumbersDiffer
  <2>9. \A j \in 1 .. Len(y.freed) :
          /\ j \in 1 .. Len(x.freed) /\ j # Len(x.freed) /\ y.freed[j] = x.freed[j]
    BY <1>3, <2>1, <2>2
  <2>10. \A j \in 1 .. Len(y.freed) : y.freed[j] < y.next
    BY <1>1, <2>1, <2>9 DEF NumbersDiffer
  <2>11. \A j \in 1 .. Len(y.freed) : y.freed[j] # Chosen(x)
    BY <1>1, <2>1, <2>2, <2>3, <2>9 DEF NumbersDiffer
  <2>12. \A j \in 1 .. Len(y.freed) : \A w \in Variables : y.num[w] # y.freed[j]
    BY <1>1, <2>6, <2>9, <2>11 DEF NumbersDiffer
  <2>13. \A j, k \in 1 .. Len(y.freed) : y.freed[j] = y.freed[k] => j = k
    BY <1>1, <2>9 DEF NumbersDiffer
  <2>14. NumbersDiffer(y)
    BY <2>7, <2>8, <2>10, <2>12, <2>13 DEF NumbersDiffer
  <2> QED BY <1>1, <1>2, <2>1, <2>2, <2>4, <2>5, <2>6, <2>14, NoneAssumption DEF y, Sensible
<1> QED BY <1>5, <1>6

(* A variable that gives its number back leaves a numbering behind in
   which the number is free. *)
LEMMA ReleasedIs ==
  ASSUME NEW x, Sensible(x), NEW v \in Variables, x.num[v] # None
  PROVE  /\ Sensible(Released(x, v))
         /\ Released(x, v).next <= x.next
         /\ Released(x, v).num[v] = None
         /\ \A w \in Variables \ {v} : Released(x, v).num[w] = x.num[w]
<1> DEFINE y == Released(x, v)
           g == x.num[v]
<1>1. /\ x.num \in [Variables -> Numbers \cup {None}] /\ x.freed \in Seq(Numbers) /\ x.next \in Nat
      /\ NumbersDiffer(x)
  BY DEF Sensible, Numbering
<1>2. /\ y.num = [x.num EXCEPT ![v] = None]
      /\ y.freed = IF x.next = g + 1 THEN x.freed ELSE Append(x.freed, g)
      /\ y.next = IF x.next = g + 1 THEN x.next - 1 ELSE x.next
      /\ y = [num |-> y.num, freed |-> y.freed, next |-> y.next]
  BY DEF Released
<1> HIDE DEF y
<1>3. Numbers \subseteq Nat /\ Len(x.freed) \in Nat
  BY <1>1, ConstantFacts, LenProperties DEF Numbers
<1>4. g \in Numbers /\ g < x.next
  BY <1>1 DEF NumbersDiffer
<1>5. \A w \in Variables : y.num[w] = IF w = v THEN None ELSE x.num[w]
  BY <1>1, <1>2
<1>6. \A w, u \in Variables : w # u /\ y.num[w] # None => y.num[w] # y.num[u]
  BY <1>1, <1>5 DEF NumbersDiffer
<1>7. \A w \in Variables : y.num[w] # g
  BY <1>1, <1>4, <1>5, NoneAssumption DEF NumbersDiffer
<1>8. \A w \in Variables : y.num[w] # None => y.num[w] = x.num[w] /\ x.num[w] \in Numbers /\ x.num[w] < x.next
  BY <1>1, <1>5 DEF NumbersDiffer
<1>9. \A j \in 1 .. Len(x.freed) :
        /\ x.freed[j] \in Numbers /\ x.freed[j] < x.next /\ x.freed[j] # g
        /\ \A w \in Variables : y.num[w] # x.freed[j]
  <2>1. \A j \in 1 .. Len(x.freed) : x.freed[j] \in Numbers
    BY <1>1, ElementOfSeq
  <2> QED BY <1>1, <1>5, <2>1, NoneAssumption DEF NumbersDiffer
<1>n. /\ g \in Nat /\ x.next \in Nat /\ g = x.num[v]
      /\ \A w \in Variables : y.num[w] # None => y.num[w] \in Nat /\ y.num[w] < x.next /\ y.num[w] # g
      /\ \A j \in 1 .. Len(x.freed) : x.freed[j] \in Nat /\ x.freed[j] < x.next /\ x.freed[j] # g
  BY <1>1, <1>3, <1>4, <1>7, <1>8, <1>9
<1> HIDE DEF g
<1>10. CASE x.next = g + 1
  <2>1. y.freed = x.freed /\ y.next = g
    BY <1>2, <1>n, <1>10
  <2>2. y \in Numbering
    BY <1>1, <1>2, <1>3, <1>4, <2>1 DEF Numbering
  <2>3. \A w \in Variables : y.num[w] # None => y.num[w] < y.next
    BY <1>n, <1>10, <2>1
  <2>4. \A j \in 1 .. Len(x.freed) : x.freed[j] < y.next
    BY <1>n, <1>10, <2>1
  <2>5. NumbersDiffer(y)
    BY <1>1, <1>6, <1>9, <2>1, <2>3, <2>4 DEF NumbersDiffer
  <2> QED BY <1>n, <1>5, <1>10, <2>1, <2>2, <2>5 DEF y, Sensible
<1>11. CASE x.next # g + 1
  <2>1. y.freed = Append(x.freed, g) /\ y.next = x.next
    BY <1>2, <1>11
  <2>2. /\ Append(x.freed, g) \in Seq(Numbers) /\ Len(Append(x.freed, g)) = Len(x.freed) + 1
        /\ \A j \in 1 .. Len(x.freed) : Append(x.freed, g)[j] = x.freed[j]
        /\ Append(x.freed, g)[Len(x.freed) + 1] = g
    BY <1>1, <1>4, PushOnStack, AppendElements
  <2>3. y \in Numbering
    BY <1>1, <1>2, <2>1, <2>2 DEF Numbering
  <2>4. \A j \in 1 .. Len(y.freed) :
          y.freed[j] = IF j = Len(x.freed) + 1 THEN g ELSE x.freed[j]
    BY <1>3, <2>1, <2>2
  <2>5. \A j \in 1 .. Len(y.freed) : j = Len(x.freed) + 1 \/ j \in 1 .. Len(x.freed)
    BY <1>3, <2>1, <2>2
  <2>6. \A j \in 1 .. Len(y.freed) :
          y.freed[j] < y.next /\ \A w \in Variables : y.num[w] # y.freed[j]
    BY <1>4, <1>7, <1>9, <2>1, <2>4, <2>5
  <2>7. \A j, k \in 1 .. Len(y.freed) : y.freed[j] = y.freed[k] => j = k
    BY <1>1, <1>9, <2>4, <2>5 DEF NumbersDiffer
  <2>8. \A w \in Variables : y.num[w] # None => y.num[w] < y.next
    BY <1>8, <2>1
  <2>9. NumbersDiffer(y)
    BY <1>6, <2>6, <2>7, <2>8 DEF NumbersDiffer
  <2> QED BY <1>1, <1>5, <2>1, <2>3, <2>9 DEF y, Sensible
<1> QED BY <1>10, <1>11
----
(* What is asked for in a superstep, and what becomes of the numbers. *)

AllNull(v) == \A s \in Procs : <<v, s>> \in NullAt

AfterPush(x, v) == IF AllNull(v) \/ x.num[v] # None THEN x ELSE Taken(x, v)
AfterPop(x, v, left) == IF x.num[v] = None \/ left > 0 THEN x ELSE Released(x, v)

(* R[j] is the numbering after j of m registrations, from x on. *)
AfterPushes(R, x, j, pushed) ==
  /\ Sensible(R[j]) /\ R[j].next <= x.next + j
  /\ \A v \in Variables :
       /\ R[j].num[v] # None <=> ~ AllNull(v) /\ (x.num[v] # None \/ pushed[j][v] # <<>>)
       /\ x.num[v] # None => R[j].num[v] = x.num[v]

RunIs(R, x, m, pushes, pushed) ==
  /\ R[0] = x
  /\ \A j \in 0 .. m-1 : R[j+1] = AfterPush(R[j], pushes[j+1].of)
  /\ \A j \in 0 .. m : AfterPushes(R, x, j, pushed)

Counting(m, pushes, pushed) ==
  /\ m \in Nat
  /\ \A j \in 1 .. m : pushes[j] \in [of : Variables, size : Sizes]
  /\ pushed[0] = [v \in Variables |-> <<>>]
  /\ \A j \in 0 .. m-1 :
       pushed[j+1] = [pushed[j] EXCEPT ![pushes[j+1].of] = Append(@, pushes[j+1].size)]
  /\ \A j \in 0 .. m : pushed[j] \in [Variables -> Seq(Sizes)]

(* A set of natural numbers has a least one: the induction of this module. *)
LEMMA LeastNumber ==
  ASSUME NEW T, T \subseteq Nat, T # {}
  PROVE  \E n \in T : \A m \in T : ~ (m < n)
<1>1. PICK n \in T : \A m \in T : <<m, n>> \notin OpToRel(<, Nat)
  BY WFMin, NatLessThanWellFounded, Zenon
<1> QED BY <1>1, Zenon DEF OpToRel

(* A stack with something pushed on it is not empty. *)
LEMMA AppendIsNotEmpty ==
  ASSUME NEW S, NEW q \in Seq(S), NEW e \in S
  PROVE  Append(q, e) # <<>>
<1>1. Append(q, e) \in Seq(S) /\ Len(q) \in Nat /\ Len(Append(q, e)) = Len(q) + 1
  BY PushOnStack
<1> QED BY <1>1, LengthOfStack

(* One more registration. *)
LEMMA PushKeeps ==
  ASSUME NEW R, NEW x, NEW m, NEW pushes, NEW pushed, Counting(m, pushes, pushed),
         NEW j \in 0 .. m-1, AfterPushes(R, x, j, pushed),
         R[j+1] = AfterPush(R[j], pushes[j+1].of),
         x \in Numbering, x.next + m <= MaxActions
  PROVE  AfterPushes(R, x, j+1, pushed)
<1> DEFINE v == pushes[j+1].of
<1>1. /\ m \in Nat /\ j \in Nat /\ j < m /\ j + 1 \in 1 .. m
      /\ x.next \in Nat /\ MaxActions \in Nat
  BY ConstantFacts DEF Counting, Numbering
<1>2. v \in Variables /\ pushes[j+1].size \in Sizes
  BY <1>1 DEF Counting
<1>3. pushed[j] \in [Variables -> Seq(Sizes)]
  BY <1>1 DEF Counting
<1>4. pushed[j+1] = [pushed[j] EXCEPT ![v] = Append(pushed[j][v], pushes[j+1].size)]
  BY <1>1 DEF Counting
<1>5. /\ pushed[j+1][v] # <<>>
      /\ \A w \in Variables \ {v} : pushed[j+1][w] = pushed[j][w]
  <2> HIDE DEF v
  <2>1. pushed[j][v] \in Seq(Sizes)
    BY <1>2, <1>3
  <2>2. Append(pushed[j][v], pushes[j+1].size) # <<>>
    BY <1>2, <2>1, AppendIsNotEmpty
  <2> QED BY <1>2, <1>3, <1>4, <2>2
<1>6. /\ Sensible(R[j]) /\ R[j].next <= x.next + j /\ R[j].next \in Nat
      /\ \A w \in Variables :
           /\ R[j].num[w] # None <=> ~ AllNull(w) /\ (x.num[w] # None \/ pushed[j][w] # <<>>)
           /\ x.num[w] # None => R[j].num[w] = x.num[w]
  BY DEF AfterPushes, Sensible, Numbering
<1> HIDE DEF v
<1>7. CASE AllNull(v) \/ R[j].num[v] # None
  <2>1. R[j+1] = R[j]
    BY <1>7 DEF AfterPush, v
  <2>2. \A w \in Variables :
          R[j].num[w] # None <=> ~ AllNull(w) /\ (x.num[w] # None \/ pushed[j+1][w] # <<>>)
    BY <1>5, <1>6, <1>7
  <2>3. R[j].next <= x.next + (j + 1)
    BY <1>1, <1>6
  <2> QED BY <1>6, <2>1, <2>2, <2>3 DEF AfterPushes
<1>8. CASE ~ AllNull(v) /\ R[j].num[v] = None
  <2>1. R[j+1] = Taken(R[j], v)
    BY <1>8 DEF AfterPush, v
  <2>2. R[j].next \in Numbers
    BY <1>1, <1>6 DEF Numbers
  <2>3. /\ Chosen(R[j]) # None
        /\ Sensible(R[j+1]) /\ R[j+1].next <= R[j].next + 1
        /\ R[j+1].num[v] = Chosen(R[j])
        /\ \A w \in Variables \ {v} : R[j+1].num[w] = R[j].num[w]
    BY <1>2, <1>6, <1>8, <2>1, <2>2, TakenIs
  <2>4. R[j+1].next \in Nat
    BY <2>3 DEF Sensible, Numbering
  <2>5. R[j+1].next <= x.next + (j + 1)
    BY <1>1, <1>6, <2>3, <2>4
  <2>6. \A w \in Variables :
          /\ R[j+1].num[w] # None <=> ~ AllNull(w) /\ (x.num[w] # None \/ pushed[j+1][w] # <<>>)
          /\ x.num[w] # None => R[j+1].num[w] = x.num[w]
    BY <1>5, <1>6, <1>8, <2>3
  <2> QED BY <2>3, <2>5, <2>6 DEF AfterPushes
<1> QED BY <1>7, <1>8

(* The numberings after 0, 1 ... m registrations exist, by induction on
   how many there are. *)
LEMMA RunExists ==
  ASSUME NEW x, Sensible(x), NEW m, NEW pushes, NEW pushed, Counting(m, pushes, pushed),
         x.next + m <= MaxActions,
         \A v \in Variables : x.num[v] # None => ~ AllNull(v)
  PROVE  \E R : RunIs(R, x, m, pushes, pushed)
<1> DEFINE T == {k \in 0 .. m : ~ \E R : RunIs(R, x, k, pushes, pushed)}
<1>1. m \in Nat /\ x.next \in Nat /\ x \in Numbering /\ MaxActions \in Nat
  BY ConstantFacts DEF Counting, Sensible, Numbering
<1>2. 0 \notin T
  <2> DEFINE R == [j \in {0} |-> x]
  <2>1. R[0] = x
    OBVIOUS
  <2>2. pushed[0] = [v \in Variables |-> <<>>]
    BY DEF Counting
  <2>3. AfterPushes(R, x, 0, pushed)
    BY <1>1, <2>1, <2>2 DEF AfterPushes
  <2> HIDE DEF R
  <2>4. RunIs(R, x, 0, pushes, pushed)
    BY <2>1, <2>3 DEF RunIs
  <2> QED BY <2>4
<1>3. ASSUME T # {}
      PROVE  FALSE
  <2>0. T \subseteq Nat
    BY <1>1
  <2>1. PICK n \in T : \A k \in T : ~ (k < n)
    BY <1>3, <2>0, LeastNumber
  <2>2. n \in 1 .. m /\ n - 1 \in 0 .. m /\ n \in Nat
    BY <1>1, <1>2, <2>1
  <2>3. n - 1 \notin T
    BY <2>1, <2>2
  <2>4. PICK R : RunIs(R, x, n - 1, pushes, pushed)
    BY <2>2, <2>3
  <2> DEFINE Q == [j \in 0 .. n |-> IF j = n THEN AfterPush(R[n-1], pushes[n].of) ELSE R[j]]
  <2>5. /\ \A j \in 0 .. n-1 : Q[j] = R[j]
        /\ Q[n] = AfterPush(R[n-1], pushes[n].of)
    BY <2>2
  <2> HIDE DEF Q
  <2>6. 0 \in 0 .. n-1 /\ n - 1 \in 0 .. n-1 /\ (n - 1) + 1 = n /\ n - 1 \in 0 .. m-1
    BY <2>2, <1>1
  <2>7. Q[0] = x
    BY <2>4, <2>5, <2>6 DEF RunIs
  <2>8. ASSUME NEW j \in 0 .. n-1
        PROVE  Q[j+1] = AfterPush(Q[j], pushes[j+1].of)
    <3>1. CASE j = n - 1
      BY <2>5, <2>6, <3>1
    <3>2. CASE j # n - 1
      <4>1. j \in 0 .. (n - 1) - 1 /\ j + 1 \in 0 .. n-1
        BY <2>2, <3>2
      <4>2. R[j+1] = AfterPush(R[j], pushes[j+1].of)
        BY <2>4, <4>1 DEF RunIs
      <4> QED BY <2>5, <4>1, <4>2
    <3> QED BY <3>1, <3>2
  <2>9. \A j \in 0 .. n-1 : AfterPushes(R, x, j, pushed)
    BY <2>4 DEF RunIs
  <2>10. \A j \in 0 .. n-1 : AfterPushes(Q, x, j, pushed)
    BY <2>5, <2>9 DEF AfterPushes
  <2>11. AfterPushes(Q, x, n - 1, pushed) /\ Q[(n - 1) + 1] = AfterPush(Q[n-1], pushes[(n-1)+1].of)
    BY <2>6, <2>8, <2>10
  <2>12. AfterPushes(Q, x, (n - 1) + 1, pushed)
    BY <1>1, <2>6, <2>11, PushKeeps
  <2>13. AfterPushes(Q, x, n, pushed)
    BY <2>6, <2>12
  <2>14. \A j \in 0 .. n : j = n \/ j \in 0 .. n-1
    BY <2>2
  <2>15. RunIs(Q, x, n, pushes, pushed)
    BY <2>7, <2>8, <2>10, <2>13, <2>14 DEF RunIs
  <2> QED BY <2>1, <2>15
<1>4. m \in 0 .. m
  BY <1>1
<1> QED BY <1>3, <1>4
----
(* The superstep in progress: h.sync calls of bsp_sync are over, and then
   h.n deregistrations h.pops and h.m registrations h.pushes were asked
   for.  h.popped[j] says how often a variable is among the first j of the
   ones, h.pushed[j] with which sizes among the first j of the others;
   h.dereg[j] and h.reg[j] are the numberings after so many. *)

Dropping(h) ==
  /\ h.n \in Nat
  /\ \A j \in 1 .. h.n : h.pops[j] \in Variables
  /\ h.popped[0] = [v \in Variables |-> 0]
  /\ \A j \in 0 .. h.n-1 :
       h.popped[j+1] = IF registered[h.pops[j+1]] = <<>> THEN h.popped[j]
                       ELSE [h.popped[j] EXCEPT ![h.pops[j+1]] = @ + 1]
  /\ \A j \in 0 .. h.n :
       h.popped[j] \in [Variables -> Nat] /\ \A v \in Variables : h.popped[j][v] <= Len(registered[v])

AfterPops(h, j) ==
  /\ Sensible(h.dereg[j]) /\ h.dereg[j].next <= h.dereg[0].next
  /\ \A v \in Variables :
       /\ h.dereg[j].num[v] # None <=> ~ AllNull(v) /\ h.popped[j][v] < Len(registered[v])
       /\ h.dereg[j].num[v] \in {None, h.dereg[0].num[v]}

Releasing(h) ==
  /\ \A j \in 0 .. h.n-1 :
       h.dereg[j+1] = AfterPop(h.dereg[j], h.pops[j+1],
                               Len(registered[h.pops[j+1]]) - h.popped[j+1][h.pops[j+1]])
  /\ \A j \in 0 .. h.n : AfterPops(h, j)

CareTaken(h) ==
  /\ \A v \in Variables : HasNulls(v) => Len(registered[v]) + Len(added[v]) <= 1
  /\ \A j \in 1 .. h.m : HasNulls(h.pushes[j].of) => j = 1 /\ registered[h.pushes[j].of] = <<>>
  /\ (\A v \in Variables : added[v] = <<>>) => h.m = 0

History(h) ==
  /\ h.sync \in Nat
  /\ Dropping(h) /\ Releasing(h)
  /\ Counting(h.m, h.pushes, h.pushed)
  /\ RunIs(h.reg, h.dereg[h.n], h.m, h.pushes, h.pushed)
  /\ h.popped[h.n] = dropped /\ h.pushed[h.m] = added
  /\ h.dereg[0].next + h.m <= actions
  /\ CareTaken(h)

(* The registrations left after so many requests. *)
ListsAfterPops(h, j) ==
  [v \in Variables |-> SubSeq(registered[v], 1, Len(registered[v]) - h.popped[j][v])]
ListsAfterPushes(h, j) ==
  [v \in Variables |-> SubSeq(registered[v], 1, Len(registered[v]) - dropped[v]) \o h.pushed[j][v]]

Held(v, s) == <<v, s>> \notin NullAt

Lists(q, v, s, l) ==
  /\ Len(q) = Len(l)
  /\ \A j \in 1 .. Len(l) : q[j] = [address |-> Address(v, s), size |-> l[j]]

(* Process s has numbered as in x and has the registrations L. *)
Holds(s, x, L) ==
  /\ localC[s] = x.next /\ removedGlobals[s] = x.freed
  /\ \A g \in Numbers :
       /\ (\A v \in Variables : x.num[v] # g) => table[g][s] = <<>>
       /\ \A v \in Variables : x.num[v] = g => Lists(table[g][s], v, s, L[v])

(* The requests of s, of which the first b - 1, and d, may have been made
   NULL: but none that is NULL elsewhere. *)
ToDrop(h, s, b) ==
  /\ Len(localsToRemove[s]) = h.n
  /\ \A k \in 1 .. h.n :
       \/ localsToRemove[s][k] = Address(h.pops[k], s)
       \/ localsToRemove[s][k] = Null /\ ~ HasNulls(h.pops[k]) /\ k < b

Asked(h, s, d) ==
  /\ Len(localsToPush[s]) = h.m
  /\ \A k \in 1 .. h.m :
       /\ localsToPush[s][k].size = h.pushes[k].size
       /\ \/ localsToPush[s][k].address = Address(h.pushes[k].of, s)
          \/ localsToPush[s][k].address = Null /\ ~ HasNulls(h.pushes[k].of) /\ k <= d

(* The deregistrations that are not made NULL are those of variables that
   lost their number. *)
Exhausted(h, s, p) ==
  \A v \in Variables : Held(v, s) =>
    /\ \A k \in 1 .. p-1 : localsToRemove[s][k] = v => h.dereg[p-1].num[v] = None
    /\ h.dereg[0].num[v] # None /\ h.dereg[p-1].num[v] = None =>
         \E k \in 1 .. p-1 : localsToRemove[s][k] = v

(* What is still to be forgotten has no number any more. *)
Unnumbered(h, s) ==
  \A v \in Variables : Held(v, s) =>
    \A k \in 1 .. Len(localsToRemove[s]) : (localsToRemove[s][k] = v => h.reg[0].num[v] = None)

(* The numbers given in this superstep. *)
NewNumbers(h, s, p) ==
  \A v \in Variables : Held(v, s) =>
    /\ new_addresses[s][v] = IF h.reg[0].num[v] = None THEN h.reg[p-1].num[v] ELSE None
    /\ \A k \in 1 .. p-1 : localsToPush[s][k].address = v => h.reg[0].num[v] = None

MapIs(h, s) ==
  \A v \in Variables : Held(v, s) => local2global[s][v] = h.dereg[0].num[v]

Unnamed(h, s) ==
  \A v \in Variables : Held(v, s) /\ h.dereg[0].num[v] = None => local2global[s][v] = None

(* New numbers on the stack globalsToPush[s] belong to those of the first
   d registrations that were not made NULL: f[k] is how high the stack is
   after the k-th. *)
Matched(s, d, x, f) ==
  /\ f[d] = Len(globalsToPush[s])
  /\ \A k \in 0 .. d : f[k] \in Nat /\ \A l \in k .. d : f[k] <= f[l]
  /\ \A k \in 1 .. d :
       IF localsToPush[s][k].address = Null THEN f[k] = f[k-1]
       ELSE f[k] = f[k-1] + 1 /\ globalsToPush[s][f[k]] = x.num[localsToPush[s][k].address]

AtMostOnce(s, d) ==
  \A k, l \in 1 .. d :
    localsToPush[s][k].address # Null /\ localsToPush[s][k].address = localsToPush[s][l].address => k = l

(* The map lacks just these numbers (of what is not yet to be forgotten). *)
MapLacks(s, d, x) ==
  \A v \in Variables :
    Held(v, s) /\ (\A k \in 1 .. Len(localsToRemove[s]) : localsToRemove[s][k] # v) =>
      IF \E k \in 1 .. d : localsToPush[s][k].address = v
        THEN local2global[s][v] = None /\ x.num[v] # None
        ELSE local2global[s][v] = x.num[v]

Remaining(s, d, x) ==
  (\E f : Matched(s, d, x, f)) /\ AtMostOnce(s, d) /\ MapLacks(s, d, x)

Idle(s) == other[s] = 0 /\ ~ found[s]

Seeking(s, v) ==
  /\ \A t \in Procs : t < other[s] => ~ Held(v, t)
  /\ found[s] => other[s] \in Procs /\ Held(v, other[s])
  /\ found[s] \/ other[s] > 0 => ~ Held(v, s)

(* Where a process is: behind the last barrier of the last bsp_sync, with
   d of its registrations not yet in its map... *)
Last(h, s, d) ==
  /\ calls[s] + 1 = h.sync /\ entered[s] = 3 * h.sync
  /\ h.n = 0 /\ h.m = 0 /\ Len(localsToPush[s]) = d
  /\ i[s] = 1 /\ Idle(s) /\ localsToRemove[s] = <<>> /\ new_addresses[s] = Empty
  /\ Holds(s, h.dereg[0], registered)
  /\ Remaining(s, d, h.dereg[0])

(* ... back from it and up to the second barrier of the next one, with its
   p-th deregistration to come... *)
First(h, s, p) ==
  /\ calls[s] = h.sync /\ entered[s] \in {3 * h.sync, 3 * h.sync + 1}
  /\ i[s] = p /\ p \in 1 .. h.n+1 /\ (crossed[s] = 3 * h.sync => p = 1)
  /\ Holds(s, h.dereg[p-1], ListsAfterPops(h, p-1))
  /\ Asked(h, s, 0) /\ ToDrop(h, s, p)
  /\ Exhausted(h, s, p) /\ MapIs(h, s) /\ new_addresses[s] = Empty
  /\ IF p <= h.n THEN Seeking(s, h.pops[p]) ELSE Idle(s)

(* ... from there to the third one, with its p-th registration to come... *)
Second(h, s, p) ==
  /\ calls[s] = h.sync /\ entered[s] = 3 * h.sync + 2
  /\ i[s] = p /\ p \in 1 .. h.m+1
  /\ localsToRemove[s] # <<>> \/ crossed[s] = 3 * h.sync + 1 => p = 1
  /\ Holds(s, h.reg[p-1], ListsAfterPushes(h, p-1))
  /\ Asked(h, s, p-1)
  /\ crossed[s] = 3 * h.sync + 1 => ToDrop(h, s, h.n+1) /\ MapIs(h, s)
  /\ Unnumbered(h, s)
  /\ Remaining(s, p-1, h.reg[p-1]) /\ Unnamed(h, s)
  /\ p = 1 => new_addresses[s] = Empty
  /\ NewNumbers(h, s, p)
  /\ IF p <= h.m THEN Seeking(s, h.pushes[p].of) ELSE Idle(s)

(* ... and waiting at it for others. *)
Third(h, s) ==
  /\ calls[s] = h.sync /\ entered[s] = 3 * h.sync + 3 /\ crossed[s] = 3 * h.sync + 2
  /\ i[s] = 1 /\ Idle(s) /\ localsToRemove[s] = <<>> /\ new_addresses[s] = Empty
  /\ Holds(s, h.reg[h.m], ListsAfterPushes(h, h.m))
  /\ Asked(h, s, h.m) /\ Remaining(s, h.m, h.reg[h.m]) /\ Unnamed(h, s)

Somewhere(h, s) ==
  \/ \E d : Last(h, s, d)
  \/ \E p : First(h, s, p)
  \/ \E p : Second(h, s, p)
  \/ Third(h, s)

InStep(h) ==
  /\ History(h)
  /\ \E s \in Procs : entered[s] < 3 * h.sync + 3
  /\ \A s \in Procs : Somewhere(h, s)

Unmoved(s) ==
  /\ localsToPush'[s] = localsToPush[s] /\ localsToRemove'[s] = localsToRemove[s]
  /\ globalsToPush'[s] = globalsToPush[s] /\ removedGlobals'[s] = removedGlobals[s]
  /\ localC'[s] = localC[s] /\ local2global'[s] = local2global[s]
  /\ new_addresses'[s] = new_addresses[s]
  /\ \A g \in Numbers : table'[g][s] = table[g][s]
  /\ i'[s] = i[s] /\ other'[s] = other[s] /\ found'[s] = found[s]
  /\ calls'[s] = calls[s] /\ entered'[s] = entered[s] /\ crossed'[s] = crossed[s]

(* Where nothing of a process changes, what remains to enter its map does
   not. *)
LEMMA RemainingRests ==
  ASSUME NEW s \in Procs, NEW d, NEW x, Unmoved(s), Remaining(s, d, x)
  PROVE  Remaining(s, d, x)'
<1>1. PICK f : Matched(s, d, x, f)
  BY DEF Remaining
<1>2. Matched(s, d, x, f)'
  BY <1>1 DEF Unmoved, Matched
<1>3. AtMostOnce(s, d)'
  BY DEF Unmoved, AtMostOnce, Remaining
<1>4. MapLacks(s, d, x)'
  BY DEF Unmoved, MapLacks, Remaining
<1> QED BY <1>2, <1>3, <1>4 DEF Remaining

(* Nor do its requests and what is said of its map. *)
LEMMA RequestsRest ==
  ASSUME NEW h, NEW s \in Procs, NEW p, Unmoved(s)
  PROVE  /\ ToDrop(h, s, p) => ToDrop(h, s, p)'
         /\ Asked(h, s, p) => Asked(h, s, p)'
         /\ Exhausted(h, s, p) => Exhausted(h, s, p)'
         /\ MapIs(h, s) => MapIs(h, s)'
         /\ Unnumbered(h, s) => Unnumbered(h, s)'
         /\ Unnamed(h, s) => Unnamed(h, s)'
         /\ NewNumbers(h, s, p) => NewNumbers(h, s, p)'
<1>1. ToDrop(h, s, p) => ToDrop(h, s, p)'
  BY DEF Unmoved, ToDrop
<1>2. Asked(h, s, p) => Asked(h, s, p)'
  BY DEF Unmoved, Asked
<1>3. Exhausted(h, s, p) => Exhausted(h, s, p)'
  BY DEF Unmoved, Exhausted
<1>4. MapIs(h, s) => MapIs(h, s)'
  BY DEF Unmoved, MapIs
<1>5. Unnumbered(h, s) => Unnumbered(h, s)'
  BY DEF Unmoved, Unnumbered
<1>6. Unnamed(h, s) => Unnamed(h, s)'
  BY DEF Unmoved, Unnamed
<1>7. NewNumbers(h, s, p) => NewNumbers(h, s, p)'
  BY DEF Unmoved, NewNumbers
<1> QED BY <1>1, <1>2, <1>3, <1>4, <1>5, <1>6, <1>7

(* Nor does its search for a process with another address. *)
LEMMA SeekingRests ==
  ASSUME NEW s \in Procs, NEW v, Unmoved(s)
  PROVE  /\ Idle(s) => Idle(s)'
         /\ Seeking(s, v) => Seeking(s, v)'
BY DEF Unmoved, Idle, Seeking

(* The lists of registrations change only with the history. *)
LEMMA ListsRest ==
  ASSUME NEW h, NEW p, UNCHANGED history
  PROVE  /\ ListsAfterPops(h, p)' = ListsAfterPops(h, p)
         /\ ListsAfterPushes(h, p)' = ListsAfterPushes(h, p)
         /\ registered' = registered
BY DEF history, ListsAfterPops, ListsAfterPushes

(* So who does not move stays where it is. *)
LEMMA StaysSomewhere ==
  ASSUME NEW h, NEW s \in Procs, Somewhere(h, s), Unmoved(s), UNCHANGED history
  PROVE  Somewhere(h, s)'
<1>1. ASSUME NEW d, Last(h, s, d)
      PROVE  Last(h, s, d)'
  <2>1. Holds(s, h.dereg[0], registered)'
    <3>1. Holds(s, h.dereg[0], registered)
      BY <1>1 DEF Last
    <3>2. registered' = registered
      BY ListsRest
    <3> QED BY <3>1, <3>2 DEF Unmoved, Holds, Lists
  <2>2. Remaining(s, d, h.dereg[0])'
    BY <1>1, RemainingRests DEF Last
  <2>3. Idle(s)'
    BY <1>1, SeekingRests DEF Last
  <2> QED BY <1>1, <2>1, <2>2, <2>3 DEF Last, Unmoved
<1>2. ASSUME NEW p, First(h, s, p)
      PROVE  First(h, s, p)'
  <2>1. Holds(s, h.dereg[p-1], ListsAfterPops(h, p-1))'
    <3>1. Holds(s, h.dereg[p-1], ListsAfterPops(h, p-1))
      BY <1>2 DEF First
    <3>2. ListsAfterPops(h, p-1)' = ListsAfterPops(h, p-1)
      BY ListsRest
    <3>3. PICK L : L = ListsAfterPops(h, p-1)
      OBVIOUS
    <3>4. Holds(s, h.dereg[p-1], L)'
      BY <3>1, <3>3 DEF Unmoved, Holds, Lists
    <3> QED BY ONLY <3>2, <3>3, <3>4 DEF Holds, Lists
  <2>2. Asked(h, s, 0)' /\ ToDrop(h, s, p)' /\ Exhausted(h, s, p)' /\ MapIs(h, s)'
    BY <1>2, RequestsRest DEF First
  <2>3. IF p <= h.n THEN Seeking(s, h.pops[p])' ELSE Idle(s)'
    BY <1>2, SeekingRests DEF First
  <2> QED BY <1>2, <2>1, <2>2, <2>3 DEF First, Unmoved
<1>3. ASSUME NEW p, Second(h, s, p)
      PROVE  Second(h, s, p)'
  <2>1. Holds(s, h.reg[p-1], ListsAfterPushes(h, p-1))'
    <3>1. Holds(s, h.reg[p-1], ListsAfterPushes(h, p-1))
      BY <1>3 DEF Second
    <3>2. ListsAfterPushes(h, p-1)' = ListsAfterPushes(h, p-1)
      BY ListsRest
    <3> QED BY <3>1, <3>2 DEF Unmoved, Holds, Lists
  <2>2. Asked(h, s, p-1)' /\ Unnumbered(h, s)' /\ Unnamed(h, s)' /\ NewNumbers(h, s, p)'
    BY <1>3, RequestsRest DEF Second
  <2>3. crossed[s] = 3 * h.sync + 1 => ToDrop(h, s, h.n+1)' /\ MapIs(h, s)'
    BY <1>3, RequestsRest DEF Second
  <2>4. Remaining(s, p-1, h.reg[p-1])'
    BY <1>3, RemainingRests DEF Second
  <2>5. IF p <= h.m THEN Seeking(s, h.pushes[p].of)' ELSE Idle(s)'
    BY <1>3, SeekingRests DEF Second
  <2> QED BY <1>3, <2>1, <2>2, <2>3, <2>4, <2>5 DEF Second, Unmoved
<1>4. ASSUME Third(h, s)
      PROVE  Third(h, s)'
  <2>1. Holds(s, h.reg[h.m], ListsAfterPushes(h, h.m))'
    <3>1. Holds(s, h.reg[h.m], ListsAfterPushes(h, h.m))
      BY <1>4 DEF Third
    <3>2. ListsAfterPushes(h, h.m)' = ListsAfterPushes(h, h.m)
      BY ListsRest
    <3> QED BY <3>1, <3>2 DEF Unmoved, Holds, Lists
  <2>2. Asked(h, s, h.m)' /\ Unnamed(h, s)'
    BY <1>4, RequestsRest DEF Third
  <2>3. Remaining(s, h.m, h.reg[h.m])' /\ Idle(s)'
    BY <1>4, RemainingRests, SeekingRests DEF Third
  <2> QED BY <1>4, <2>1, <2>2, <2>3 DEF Third, Unmoved
<1> QED BY <1>1, <1>2, <1>3, <1>4 DEF Somewhere

(* The history of a superstep holds as long as it is not changed. *)
LEMMA HistoryRests ==
  ASSUME NEW h, History(h), UNCHANGED history
  PROVE  History(h)'
<1>1. UNCHANGED <<actions, registered, added, dropped>>
  BY DEF history
<1>2. Dropping(h)'
  BY <1>1 DEF History, Dropping
<1>3. Releasing(h)'
  BY <1>1 DEF History, Releasing, AfterPops
<1>4. CareTaken(h)'
  BY <1>1 DEF History, CareTaken
<1> QED BY <1>1, <1>2, <1>3, <1>4 DEF History

(* If one process moves and can tell where to, all are still in step. *)
LEMMA OneMoves ==
  ASSUME NEW h, InStep(h), NEW s \in Procs, \A t \in Procs \ {s} : Unmoved(t),
         UNCHANGED history, Somewhere(h, s)', \E t \in Procs : entered'[t] < 3 * h.sync + 3
  PROVE  InStep(h)'
<1>1. History(h)'
  BY HistoryRests DEF InStep
<1>2. \A t \in Procs : Somewhere(h, t)'
  BY StaysSomewhere DEF InStep
<1> QED BY <1>1, <1>2 DEF InStep

(* A process in a part of bsp_sync is there for the invariant too. *)
LEMMA Where ==
  ASSUME RequestsInv, NEW h, InStep(h), NEW s \in Procs
  PROVE  /\ Phase(s) = "compute" => First(h, s, 1) /\ crossed[s] = 3 * h.sync /\ entered[s] = 3 * h.sync
         /\ Phase(s) = "deregister" =>
              /\ crossed[s] = 3 * h.sync + 1 /\ entered[s] = 3 * h.sync + 1
              /\ \E p : First(h, s, p)
         /\ Phase(s) = "forget" =>
              /\ crossed[s] = 3 * h.sync + 2 /\ Second(h, s, 1) /\ localsToRemove[s] # <<>>
         /\ Phase(s) = "register" =>
              /\ crossed[s] = 3 * h.sync + 2 /\ localsToRemove[s] = <<>>
              /\ \E p : Second(h, s, p)
         /\ Phase(s) = "remember" =>
              /\ crossed[s] = 3 * h.sync /\ \E d : Last(h, s, d)
<1>1. TypeOK /\ BarriersInStep
  BY DEF RequestsInv
<1>2. h.sync \in Nat /\ entered[s] \in Nat /\ crossed[s] \in Nat /\ calls[s] \in Nat
  BY <1>1, TypesOfBarrier DEF InStep, History
<1>3. Somewhere(h, s)
  BY DEF InStep
<1>4. ASSUME NEW d, Last(h, s, d)
      PROVE  entered[s] = 3 * calls[s] + 3 /\ entered[s] = 3 * h.sync
  BY <1>2, <1>4 DEF Last
<1>5. ASSUME NEW p, First(h, s, p)
      PROVE  /\ calls[s] = h.sync
             /\ entered[s] = 3 * calls[s] \/ entered[s] = 3 * calls[s] + 1
             /\ crossed[s] = 3 * h.sync => p = 1
  BY <1>2, <1>5 DEF First
<1>6. ASSUME NEW p, Second(h, s, p)
      PROVE  /\ calls[s] = h.sync /\ entered[s] = 3 * calls[s] + 2
             /\ localsToRemove[s] # <<>> => p = 1
  BY <1>2, <1>6 DEF Second
<1>7. ASSUME Third(h, s)
      PROVE  calls[s] = h.sync /\ entered[s] = 3 * calls[s] + 3 /\ crossed[s] # entered[s]
  BY <1>2, <1>7 DEF Third
<1>8. CASE Phase(s) = "compute"
  <2>1. crossed[s] = entered[s] /\ entered[s] = 3 * calls[s]
    BY <1>1, <1>8, Phases
  <2>2. PICK p : First(h, s, p)
    BY <1>2, <1>3, <1>4, <1>6, <1>7, <2>1 DEF Somewhere
  <2> QED BY <1>2, <1>5, <1>8, <2>1, <2>2
<1>9. CASE Phase(s) = "deregister"
  <2>1. crossed[s] = entered[s] /\ entered[s] = 3 * calls[s] + 1
    BY <1>1, <1>9, Phases
  <2>2. PICK p : First(h, s, p)
    BY <1>2, <1>3, <1>4, <1>6, <1>7, <2>1 DEF Somewhere
  <2> QED BY <1>2, <1>5, <1>9, <2>1, <2>2
<1>10. CASE Phase(s) \in {"forget", "register"}
  <2>1. /\ crossed[s] = entered[s] /\ entered[s] = 3 * calls[s] + 2
        /\ Phase(s) = "forget" <=> localsToRemove[s] # <<>>
    BY <1>1, <1>10, Phases
  <2>0. (\A d : ~ Last(h, s, d)) /\ (\A p : ~ First(h, s, p)) /\ ~ Third(h, s)
    <3>1. \A d : ~ Last(h, s, d)
      BY <1>2, <1>4, <2>1
    <3>2. \A p : ~ First(h, s, p)
      BY <1>2, <1>5, <2>1
    <3>3. ~ Third(h, s)
      BY <1>7, <2>1
    <3> QED BY <3>1, <3>2, <3>3
  <2>2. PICK p : Second(h, s, p)
    BY <1>3, <2>0, Zenon DEF Somewhere
  <2>3. calls[s] = h.sync /\ (localsToRemove[s] # <<>> => p = 1)
    BY <1>6, <2>2
  <2>4. crossed[s] = 3 * h.sync + 2
    BY <1>2, <2>1, <2>3
  <2>5. CASE Phase(s) = "forget"
    <3>1. p = 1 /\ localsToRemove[s] # <<>>
      BY <2>1, <2>3, <2>5
    <3> QED BY <2>2, <2>4, <2>5, <3>1
  <2>6. CASE Phase(s) = "register"
    <3>1. localsToRemove[s] = <<>>
      BY <2>1, <2>6
    <3>2. \E q : Second(h, s, q)
      BY <2>2, Zenon
    <3> QED BY <2>4, <2>6, <3>1, <3>2
  <2> QED BY <1>10, <2>5, <2>6
<1>11. CASE Phase(s) = "remember"
  <2>1. crossed[s] = entered[s] /\ entered[s] = 3 * calls[s] + 3
    BY <1>1, <1>11, Phases
  <2>2. PICK d : Last(h, s, d)
    BY <1>2, <1>3, <1>5, <1>6, <1>7, <2>1 DEF Somewhere
  <2> QED BY <1>2, <1>4, <1>11, <2>1, <2>2
<1> QED BY <1>8, <1>9, <1>10, <1>11

(* A step in bsp_sync is one process' own. *)
LEMMA OthersUnmoved ==
  ASSUME RequestsInv, NEW s \in Procs,
         \/ ArriveStart(s) \/ SeekRemoval(s) \/ IgnoreRemoval(s) \/ Deregister(s)
         \/ ArriveMid(s) \/ Forget(s) \/ SeekRegistration(s) \/ IgnoreRegistration(s)
         \/ Register(s) \/ ArriveEnd(s) \/ Remember(s) \/ Return(s) \/ Cross(s)
  PROVE  \A t \in Procs \ {s} : Unmoved(t)
<1> SUFFICES ASSUME NEW t \in Procs, t # s
             PROVE  Unmoved(t)
  OBVIOUS
<1> USE DEF stacks, barrier, history
<1>t. /\ localsToPush \in [Procs -> Seq(Request)]
      /\ localsToRemove \in [Procs -> Seq(Addresses)]
      /\ globalsToPush \in [Procs -> Seq(Numbers)]
      /\ removedGlobals \in [Procs -> Seq(Numbers)]
      /\ localC \in [Procs -> Nat]
      /\ local2global \in [Procs -> [Addresses -> Numbers \cup {None}]]
      /\ new_addresses \in [Procs -> [Addresses -> Numbers \cup {None}]]
      /\ table \in [Numbers -> [Procs -> Seq(Request)]]
      /\ i \in [Procs -> Nat]
      /\ other \in [Procs -> 0 .. P]
      /\ found \in [Procs -> BOOLEAN]
      /\ calls \in [Procs -> 0 .. MaxSupersteps]
      /\ entered \in [Procs -> Nat] /\ crossed \in [Procs -> Nat]
  BY TypesOfState DEF RequestsInv
<1>1. CASE ArriveStart(s) \/ ArriveMid(s) \/ ArriveEnd(s)
  BY <1>t, <1>1 DEF ArriveStart, ArriveMid, ArriveEnd, Bar!Arrive, Restart, Unmoved
<1>2. CASE SeekRemoval(s) \/ IgnoreRemoval(s) \/ SeekRegistration(s) \/ IgnoreRegistration(s)
  BY <1>t, <1>2 DEF SeekRemoval, IgnoreRemoval, SeekRegistration, IgnoreRegistration, NextRequest, Unmoved
<1>3. CASE Return(s) \/ Cross(s)
  BY <1>t, <1>3 DEF Return, Cross, Bar!Cross, Unmoved
<1>4. CASE Forget(s) \/ Remember(s)
  BY <1>t, <1>4 DEF Forget, Remember, Unmoved
<1>5. CASE Deregister(s)
  <2>1. /\ UNCHANGED <<localsToPush, globalsToPush, local2global, new_addresses, calls, entered, crossed>>
        /\ i'[t] = i[t] /\ other'[t] = other[t] /\ found'[t] = found[t]
    BY <1>t, <1>5 DEF Deregister, NextRequest
  <2>2. /\ localsToRemove'[t] = localsToRemove[t] /\ removedGlobals'[t] = removedGlobals[t]
        /\ localC'[t] = localC[t] /\ \A g \in Numbers : table'[g][t] = table[g][t]
    <3>1. CASE UNCHANGED <<localsToRemove, removedGlobals, localC, table>>
      BY <3>1
    <3>2. CASE ~ UNCHANGED <<localsToRemove, removedGlobals, localC, table>>
      <4>1. PICK g \in Numbers :
              /\ table' = [table EXCEPT ![g][s] = Pop(table[g][s])]
              /\ \/ localsToRemove' = localsToRemove
                 \/ localsToRemove' = [localsToRemove EXCEPT ![s][i[s]] = Null]
              /\ \/ localC' = localC
                 \/ localC' = [localC EXCEPT ![s] = g]
              /\ \/ removedGlobals' = removedGlobals
                 \/ removedGlobals' = [removedGlobals EXCEPT ![s] = Append(removedGlobals[s], g)]
        BY <1>5, <3>2, DeregisterEffect
      <4>2. localsToRemove'[t] = localsToRemove[t]
        BY <1>t, <4>1
      <4>3. localC'[t] = localC[t] /\ removedGlobals'[t] = removedGlobals[t]
        BY <1>t, <4>1
      <4>4. \A k \in Numbers : table'[k][t] = table[k][t]
        BY <1>t, <4>1
      <4> QED BY <4>2, <4>3, <4>4
    <3> QED BY <3>1, <3>2
  <2> QED BY <2>1, <2>2 DEF Unmoved
<1>6. CASE Register(s)
  <2>1. /\ UNCHANGED <<localsToRemove, local2global, calls, entered, crossed>>
        /\ i'[t] = i[t] /\ other'[t] = other[t] /\ found'[t] = found[t]
    BY <1>t, <1>6 DEF Register, NextRequest
  <2>2. PICK g \in Numbers :
          /\ table' = [table EXCEPT ![g][s] = Append(table[g][s], ToPush(s))]
          /\ \/ localsToPush' = localsToPush
             \/ localsToPush' = [localsToPush EXCEPT ![s][i[s]] =
                                   [localsToPush[s][i[s]] EXCEPT !.address = Null]]
          /\ \/ localC' = localC
             \/ localC' = [localC EXCEPT ![s] = localC[s] + 1]
          /\ \/ removedGlobals' = removedGlobals
             \/ removedGlobals' = [removedGlobals EXCEPT ![s] = Pop(removedGlobals[s])]
          /\ \/ new_addresses' = new_addresses /\ globalsToPush' = globalsToPush
             \/ /\ new_addresses' = [new_addresses EXCEPT ![s][ToPush(s).address] = g]
                /\ globalsToPush' = [globalsToPush EXCEPT ![s] = Append(globalsToPush[s], g)]
    BY <1>6, RegisterEffect
  <2>3. localsToPush'[t] = localsToPush[t]
    BY <1>t, <2>2
  <2>4. localC'[t] = localC[t] /\ removedGlobals'[t] = removedGlobals[t]
    BY <1>t, <2>2
  <2>5. new_addresses'[t] = new_addresses[t] /\ globalsToPush'[t] = globalsToPush[t]
    BY <1>t, <2>2
  <2>6. \A k \in Numbers : table'[k][t] = table[k][t]
    BY <1>t, <2>2
  <2> QED BY <2>1, <2>3, <2>4, <2>5, <2>6 DEF Unmoved
<1> QED BY <1>1, <1>2, <1>3, <1>4, <1>5, <1>6

(* A step of the barriers alone changes nothing that is said of the
   stacks, the maps and the table. *)
LEMMA StacksRest ==
  ASSUME NEW h, NEW s \in Procs, UNCHANGED <<stacks, table, history>>
  PROVE  /\ \A x : Holds(s, x, registered) => Holds(s, x, registered)'
         /\ \A x, p : Holds(s, x, ListsAfterPops(h, p)) => Holds(s, x, ListsAfterPops(h, p))'
         /\ \A x, p : Holds(s, x, ListsAfterPushes(h, p)) => Holds(s, x, ListsAfterPushes(h, p))'
         /\ \A p : ToDrop(h, s, p) => ToDrop(h, s, p)'
         /\ \A d : Asked(h, s, d) => Asked(h, s, d)'
         /\ \A p : Exhausted(h, s, p) => Exhausted(h, s, p)'
         /\ \A p : NewNumbers(h, s, p) => NewNumbers(h, s, p)'
         /\ MapIs(h, s) => MapIs(h, s)'
         /\ Unnumbered(h, s) => Unnumbered(h, s)'
         /\ Unnamed(h, s) => Unnamed(h, s)'
         /\ \A d, x : Remaining(s, d, x) => Remaining(s, d, x)'
<1>0. UNCHANGED <<localC, removedGlobals, table, registered>>
  BY DEF stacks, history
<1>1. \A x : Holds(s, x, registered) => Holds(s, x, registered)'
  BY ONLY <1>0 DEF Holds, Lists
<1> USE DEF stacks, history
<1>2. \A x, p : Holds(s, x, ListsAfterPops(h, p)) => Holds(s, x, ListsAfterPops(h, p))'
  <2>1. \A p : ListsAfterPops(h, p)' = ListsAfterPops(h, p)
    BY DEF ListsAfterPops
  <2> QED BY ONLY <1>0, <2>1 DEF Holds, Lists
<1>3. \A x, p : Holds(s, x, ListsAfterPushes(h, p)) => Holds(s, x, ListsAfterPushes(h, p))'
  <2>1. \A p : ListsAfterPushes(h, p)' = ListsAfterPushes(h, p)
    BY DEF ListsAfterPushes
  <2> QED BY <2>1 DEF Holds, Lists
<1>4. \A p : ToDrop(h, s, p) => ToDrop(h, s, p)'
  BY DEF ToDrop
<1>5. \A d : Asked(h, s, d) => Asked(h, s, d)'
  BY DEF Asked
<1>6. \A p : Exhausted(h, s, p) => Exhausted(h, s, p)'
  BY DEF Exhausted
<1>7. \A p : NewNumbers(h, s, p) => NewNumbers(h, s, p)'
  BY DEF NewNumbers
<1>8. /\ MapIs(h, s) => MapIs(h, s)'
      /\ Unnumbered(h, s) => Unnumbered(h, s)'
      /\ Unnamed(h, s) => Unnamed(h, s)'
  BY DEF MapIs, Unnumbered, Unnamed
<1>9. \A d, x : Remaining(s, d, x) => Remaining(s, d, x)'
  BY DEF Remaining, Matched, AtMostOnce, MapLacks
<1> QED BY <1>1, <1>2, <1>3, <1>4, <1>5, <1>6, <1>7, <1>8, <1>9

(* The barriers keep any two processes close together. *)
LEMMA PlacesInBarriers ==
  ASSUME RequestsInv, NEW h, InStep(h), NEW s \in Procs, NEW t \in Procs
  PROVE  /\ h.sync \in Nat /\ h.n \in Nat /\ h.m \in Nat
         /\ entered[t] \in Nat /\ crossed[t] \in Nat /\ calls[t] \in Nat
         /\ crossed[s] <= entered[t] /\ crossed[t] <= entered[t] /\ entered[t] <= crossed[t] + 1
         /\ 3 * calls[t] <= crossed[t]
         /\ i[t] \in Nat /\ Somewhere(h, t)
<1>1. TypeOK /\ BarriersInStep
  BY DEF RequestsInv
<1>2. h.sync \in Nat /\ h.n \in Nat /\ h.m \in Nat
  BY DEF InStep, History, Dropping, Counting
<1>3. i[t] \in Nat
  BY <1>1, TypesOfState
<1> QED BY <1>1, <1>2, <1>3, TypesOfBarrier DEF InStep, BarriersInStep

(* While one process deregisters, the others still have their requests and
   their maps... *)
LEMMA BesidesRemoval ==
  ASSUME RequestsInv, NEW h, InStep(h), NEW s \in Procs, NEW t \in Procs,
         Phase(s) = "deregister"
  PROVE  MapIs(h, t) /\ \E b : ToDrop(h, t, b)
<1>1. crossed[s] = 3 * h.sync + 1 /\ entered[s] = 3 * h.sync + 1
  BY Where
<1>2. /\ h.sync \in Nat /\ entered[t] \in Nat /\ crossed[t] \in Nat
      /\ entered[t] >= 3 * h.sync + 1 /\ crossed[t] <= 3 * h.sync + 1
      /\ crossed[t] <= entered[t] /\ entered[t] <= crossed[t] + 1
  BY <1>1, PlacesInBarriers
<1>3. Somewhere(h, t)
  BY PlacesInBarriers
<1>4. ASSUME NEW d, Last(h, t, d)
      PROVE  FALSE
  BY <1>2, <1>4 DEF Last
<1>5. ASSUME NEW p, First(h, t, p)
      PROVE  MapIs(h, t) /\ ToDrop(h, t, p)
  BY <1>5 DEF First
<1>6. ASSUME NEW p, Second(h, t, p)
      PROVE  MapIs(h, t) /\ ToDrop(h, t, h.n + 1)
  <2>1. crossed[t] = 3 * h.sync + 1
    BY <1>2, <1>6 DEF Second
  <2> QED BY <1>6, <2>1 DEF Second
<1>7. ASSUME Third(h, t)
      PROVE  FALSE
  BY <1>2, <1>7 DEF Third
<1> QED BY <1>3, <1>4, <1>5, <1>6, <1>7, Zenon DEF Somewhere

(* ... and while one registers, their requests; their maps have no number
   for a variable that was not registered before. *)
LEMMA BesidesRegistration ==
  ASSUME RequestsInv, NEW h, InStep(h), NEW s \in Procs, NEW t \in Procs,
         Phase(s) = "register"
  PROVE  Unnamed(h, t) /\ \E d : Asked(h, t, d)
<1>1. crossed[s] = 3 * h.sync + 2 /\ entered[s] = 3 * h.sync + 2
  <2>1. crossed[s] = 3 * h.sync + 2
    BY Where
  <2>2. crossed[s] = entered[s]
    BY Phases DEF RequestsInv
  <2> QED BY <2>1, <2>2
<1>2. /\ h.sync \in Nat /\ entered[t] \in Nat /\ crossed[t] \in Nat
      /\ entered[t] >= 3 * h.sync + 2
  BY <1>1, PlacesInBarriers
<1>3. Somewhere(h, t)
  BY PlacesInBarriers
<1>4. ASSUME NEW d, Last(h, t, d)
      PROVE  FALSE
  BY <1>2, <1>4 DEF Last
<1>5. ASSUME NEW p, First(h, t, p)
      PROVE  FALSE
  BY <1>2, <1>5 DEF First
<1>6. ASSUME NEW p, Second(h, t, p)
      PROVE  Unnamed(h, t) /\ Asked(h, t, p-1)
  BY <1>6 DEF Second
<1>7. ASSUME Third(h, t)
      PROVE  Unnamed(h, t) /\ Asked(h, t, h.m)
  BY <1>7 DEF Third
<1> QED BY <1>3, <1>4, <1>5, <1>6, <1>7, Zenon DEF Somewhere

(* Who knows where it is after its step keeps everybody in step. *)
LEMMA StepKeeps ==
  ASSUME RequestsInv, NEW h, InStep(h), NEW s \in Procs,
         \/ ArriveStart(s) \/ SeekRemoval(s) \/ IgnoreRemoval(s) \/ Deregister(s)
         \/ ArriveMid(s) \/ Forget(s) \/ SeekRegistration(s) \/ IgnoreRegistration(s)
         \/ Register(s) \/ ArriveEnd(s) \/ Remember(s) \/ Return(s) \/ Cross(s),
         UNCHANGED history, Somewhere(h, s)', UNCHANGED entered
  PROVE  InStep(h)'
<1>1. \A t \in Procs \ {s} : Unmoved(t)
  BY OthersUnmoved
<1>2. \E t \in Procs : entered'[t] < 3 * h.sync + 3
  BY DEF InStep
<1> QED BY <1>1, <1>2, OneMoves

(* Arriving at the first barrier keeps the processes in step. *)
LEMMA ArriveStartInStep ==
  ASSUME RequestsInv, NEW h, InStep(h), NEW s \in Procs, ArriveStart(s)
  PROVE  InStep(h)'
<1>1. First(h, s, 1) /\ crossed[s] = 3 * h.sync /\ entered[s] = 3 * h.sync
  BY Where DEF ArriveStart
<1>2. h.sync \in Nat /\ entered \in [Procs -> Nat]
  BY PlacesInBarriers, TypesOfBarrier DEF RequestsInv
<1>3. entered'[s] = 3 * h.sync + 1 /\ UNCHANGED <<crossed, calls, i, other, found, history>>
  BY <1>1, <1>2 DEF ArriveStart, Bar!Arrive
<1>4. UNCHANGED <<stacks, table, history>>
  BY DEF ArriveStart
<1>5. /\ Holds(s, h.dereg[1-1], ListsAfterPops(h, 1-1))'
      /\ Asked(h, s, 0)' /\ ToDrop(h, s, 1)' /\ Exhausted(h, s, 1)' /\ MapIs(h, s)'
  BY <1>1, <1>4, StacksRest DEF First
<1>6. new_addresses'[s] = Empty
  BY <1>1, <1>4 DEF First, stacks
<1>7. IF 1 <= h.n THEN Seeking(s, h.pops[1])' ELSE Idle(s)'
  BY <1>1, <1>3 DEF First, Seeking, Idle
<1>8. First(h, s, 1)'
  BY <1>1, <1>3, <1>5, <1>6, <1>7 DEF First
<1>9. \A t \in Procs \ {s} : Unmoved(t)
  BY OthersUnmoved
<1>10. entered'[s] < 3 * h.sync + 3
  BY <1>2, <1>3
<1>11. Somewhere(h, s)'
  BY <1>8, Zenon DEF Somewhere
<1> QED BY <1>3, <1>9, <1>10, <1>11, OneMoves

(* A variable is NULL on a process, or it has its address there. *)
LEMMA Addressing ==
  ASSUME NEW v \in Variables, NEW s \in Procs
  PROVE  /\ Held(v, s) => Address(v, s) = v /\ ~ AllNull(v)
         /\ ~ Held(v, s) => Address(v, s) = Null /\ HasNulls(v)
         /\ Address(v, s) = Null <=> ~ Held(v, s)
         /\ v # Null
BY NullAssumption DEF Held, Address, AllNull, HasNulls

(* The request that a process deregisters. *)
LEMMA RemovalAt ==
  ASSUME RequestsInv, NEW h, InStep(h), NEW s \in Procs, Removing(s)
  PROVE  /\ First(h, s, i[s]) /\ i[s] \in 1 .. h.n
         /\ h.pops[i[s]] \in Variables
         /\ crossed[s] = 3 * h.sync + 1 /\ entered[s] = 3 * h.sync + 1
         /\ ToRemove(s) = Address(h.pops[i[s]], s)
         /\ \A t \in Procs : ~ Held(h.pops[i[s]], s) =>
              localsToRemove[t][i[s]] = Address(h.pops[i[s]], t)
<1> DEFINE p == i[s]
           v == h.pops[p]
<1>1. crossed[s] = 3 * h.sync + 1 /\ entered[s] = 3 * h.sync + 1 /\ \E q : First(h, s, q)
  BY Where DEF Removing
<1>2. First(h, s, p) /\ p \in 1 .. h.n+1
  BY <1>1 DEF First
<1>3. ToDrop(h, s, p) /\ Len(localsToRemove[s]) = h.n /\ p <= h.n
  BY <1>2 DEF First, ToDrop, Removing
<1>4. h.n \in Nat
  BY PlacesInBarriers
<1>5. p \in 1 .. h.n
  BY <1>2, <1>3, <1>4
<1>6. v \in Variables
  BY <1>5 DEF InStep, History, Dropping
<1> HIDE DEF v
<1>7. ToRemove(s) = Address(v, s)
  BY <1>3, <1>5 DEF ToDrop, ToRemove, v
<1>8. ASSUME NEW t \in Procs, ~ Held(v, s)
      PROVE  localsToRemove[t][p] = Address(v, t)
  <2>1. PICK b : ToDrop(h, t, b)
    BY BesidesRemoval DEF Removing
  <2>2. HasNulls(v)
    BY <1>6, <1>8, Addressing
  <2> QED BY <1>5, <2>1, <2>2 DEF ToDrop, v
<1> QED BY <1>1, <1>2, <1>5, <1>6, <1>7, <1>8 DEF v

(* Looking at another process for the address of a deregistration. *)
LEMMA SeekRemovalInStep ==
  ASSUME RequestsInv, NEW h, InStep(h), NEW s \in Procs, SeekRemoval(s)
  PROVE  InStep(h)'
<1>i. PICK p : p = i[s]
  OBVIOUS
<1>o. PICK t : t = other[s]
  OBVIOUS
<1> DEFINE v == h.pops[p]
<1>1. /\ First(h, s, p) /\ p \in 1 .. h.n /\ v \in Variables
      /\ ToRemove(s) = Address(v, s)
      /\ \A u \in Procs : ~ Held(v, s) => localsToRemove[u][p] = Address(v, u)
  BY <1>i, RemovalAt DEF SeekRemoval
<1>2. ~ Held(v, s)
  BY <1>1, <1>i, Addressing DEF SeekRemoval
<1>3. other \in [Procs -> 0 .. P] /\ found \in [Procs -> BOOLEAN] /\ h.n \in Nat
  BY TypesOfState, PlacesInBarriers DEF RequestsInv
<1>4. t \in Procs
  BY <1>3, <1>o, ConstantFacts DEF SeekRemoval
<1>5. localsToRemove[t][p] = Null <=> ~ Held(v, t)
  BY <1>1, <1>2, <1>4, Addressing
<1>6. Seeking(s, v)
  BY <1>1 DEF First
<1>7. Seeking(s, v)'
  <2>1. CASE localsToRemove[t][p] = Null
    <3>1. other'[s] = t + 1 /\ found'[s] = FALSE
      BY <1>3, <1>i, <1>o, <2>1 DEF SeekRemoval
    <3>2. \A u \in Procs : u < t + 1 => u = t \/ u < t
      BY <1>4, ConstantFacts
    <3> QED BY <1>2, <1>5, <1>6, <1>o, <2>1, <3>1, <3>2 DEF Seeking, Held
  <2>2. CASE localsToRemove[t][p] # Null
    <3>1. other'[s] = t /\ found'[s] = TRUE
      BY <1>3, <1>i, <1>o, <2>2 DEF SeekRemoval
    <3> QED BY <1>2, <1>4, <1>5, <1>6, <1>o, <2>2, <3>1 DEF Seeking, Held
  <2> QED BY <2>1, <2>2
<1> HIDE DEF v
<1>8. UNCHANGED <<stacks, table, history, i, calls, entered, crossed>>
  BY DEF SeekRemoval, barrier
<1>9. /\ Holds(s, h.dereg[p-1], ListsAfterPops(h, p-1))'
      /\ Asked(h, s, 0)' /\ ToDrop(h, s, p)' /\ Exhausted(h, s, p)' /\ MapIs(h, s)'
  BY <1>1, <1>8, StacksRest DEF First
<1>10. new_addresses'[s] = Empty
  BY <1>1, <1>8 DEF First, stacks
<1>11. p <= h.n
  BY <1>1, <1>3
<1>12. First(h, s, p)'
  BY <1>i, <1>1, <1>7, <1>8, <1>9, <1>10, <1>11 DEF First, v
<1>13. Somewhere(h, s)'
  BY <1>12, Zenon DEF Somewhere
<1> QED BY <1>8, <1>13, StepKeeps

(* The registration that a process carries out. *)
LEMMA RegistrationAt ==
  ASSUME RequestsInv, NEW h, InStep(h), NEW s \in Procs, Registering(s)
  PROVE  /\ Second(h, s, i[s]) /\ i[s] \in 1 .. h.m
         /\ h.pushes[i[s]] \in [of : Variables, size : Sizes]
         /\ h.pushes[i[s]].of \in Variables
         /\ crossed[s] = 3 * h.sync + 2 /\ entered[s] = 3 * h.sync + 2
         /\ localsToRemove[s] = <<>>
         /\ ToPush(s).address = Address(h.pushes[i[s]].of, s)
         /\ ToPush(s).size = h.pushes[i[s]].size
         /\ \A t \in Procs : ~ Held(h.pushes[i[s]].of, s) =>
              localsToPush[t][i[s]].address = Address(h.pushes[i[s]].of, t)
<1> DEFINE p == i[s]
           v == h.pushes[p].of
<1>1. /\ crossed[s] = 3 * h.sync + 2 /\ localsToRemove[s] = <<>>
      /\ \E q : Second(h, s, q)
  BY Where DEF Registering
<1>2. Second(h, s, p) /\ p \in 1 .. h.m+1
  BY <1>1 DEF Second
<1>3. Asked(h, s, p-1) /\ Len(localsToPush[s]) = h.m /\ p <= h.m
  BY <1>2 DEF Second, Asked, Registering
<1>4. h.m \in Nat
  BY PlacesInBarriers
<1>5. p \in 1 .. h.m
  BY <1>2, <1>3, <1>4
<1>6. h.pushes[p] \in [of : Variables, size : Sizes]
  BY <1>5 DEF InStep, History, Counting
<1>7. v \in Variables
  BY <1>6
<1> HIDE DEF v
<1>8. ~ (p <= p - 1)
  BY <1>4, <1>5
<1>9. ToPush(s).address = Address(v, s) /\ ToPush(s).size = h.pushes[p].size
  BY <1>3, <1>5, <1>8 DEF Asked, ToPush, v
<1>10. ASSUME NEW t \in Procs, ~ Held(v, s)
       PROVE  localsToPush[t][p].address = Address(v, t)
  <2>1. PICK d : Asked(h, t, d)
    BY BesidesRegistration DEF Registering
  <2>2. HasNulls(v)
    BY <1>7, <1>10, Addressing
  <2> QED BY <1>5, <2>1, <2>2 DEF Asked, v
<1>11. entered[s] = 3 * h.sync + 2
  BY <1>2 DEF Second
<1> QED BY <1>1, <1>2, <1>5, <1>6, <1>7, <1>9, <1>10, <1>11 DEF v

(* Looking at another process for the address of a registration. *)
LEMMA SeekRegistrationInStep ==
  ASSUME RequestsInv, NEW h, InStep(h), NEW s \in Procs, SeekRegistration(s)
  PROVE  InStep(h)'
<1>i. PICK p : p = i[s]
  OBVIOUS
<1>o. PICK t : t = other[s]
  OBVIOUS
<1> DEFINE v == h.pushes[p].of
<1>1. /\ Second(h, s, p) /\ p \in 1 .. h.m /\ v \in Variables
      /\ ToPush(s).address = Address(v, s)
      /\ \A u \in Procs : ~ Held(v, s) => localsToPush[u][p].address = Address(v, u)
  BY <1>i, RegistrationAt DEF SeekRegistration
<1>2. ~ Held(v, s)
  BY <1>1, <1>i, Addressing DEF SeekRegistration
<1>3. other \in [Procs -> 0 .. P] /\ found \in [Procs -> BOOLEAN] /\ h.m \in Nat
  BY TypesOfState, PlacesInBarriers DEF RequestsInv
<1>4. t \in Procs
  BY <1>3, <1>o, ConstantFacts DEF SeekRegistration
<1>5. localsToPush[t][p].address = Null <=> ~ Held(v, t)
  BY <1>1, <1>2, <1>4, Addressing
<1>6. Seeking(s, v)
  BY <1>1 DEF Second
<1>7. Seeking(s, v)'
  <2>1. CASE localsToPush[t][p].address = Null
    <3>1. other'[s] = t + 1 /\ found'[s] = FALSE
      BY <1>3, <1>i, <1>o, <2>1 DEF SeekRegistration
    <3>2. \A u \in Procs : u < t + 1 => u = t \/ u < t
      BY <1>4, ConstantFacts
    <3> QED BY <1>2, <1>5, <1>6, <1>o, <2>1, <3>1, <3>2 DEF Seeking, Held
  <2>2. CASE localsToPush[t][p].address # Null
    <3>1. other'[s] = t /\ found'[s] = TRUE
      BY <1>3, <1>i, <1>o, <2>2 DEF SeekRegistration
    <3> QED BY <1>2, <1>4, <1>5, <1>6, <1>o, <2>2, <3>1 DEF Seeking, Held
  <2> QED BY <2>1, <2>2
<1> HIDE DEF v
<1>8. UNCHANGED <<stacks, table, history, i, calls, entered, crossed>>
  BY DEF SeekRegistration, barrier
<1>9. /\ Holds(s, h.reg[p-1], ListsAfterPushes(h, p-1))'
      /\ Asked(h, s, p-1)' /\ Unnumbered(h, s)' /\ Remaining(s, p-1, h.reg[p-1])'
      /\ Unnamed(h, s)' /\ NewNumbers(h, s, p)'
      /\ crossed[s] = 3 * h.sync + 1 => ToDrop(h, s, h.n+1)' /\ MapIs(h, s)'
  BY <1>1, <1>8, StacksRest DEF Second
<1>10. UNCHANGED <<new_addresses, localsToRemove>>
  BY <1>8 DEF stacks
<1>11. p <= h.m
  BY <1>1, <1>3
<1>12. Second(h, s, p)'
  BY <1>i, <1>1, <1>7, <1>8, <1>9, <1>10, <1>11 DEF Second, v
<1>13. Somewhere(h, s)'
  BY <1>12, Zenon DEF Somewhere
<1> QED BY <1>8, <1>13, StepKeeps

(* Leaving a barrier: behind the second one no request of another process
   is needed as it was asked for. *)
LEMMA CrossInStep ==
  ASSUME RequestsInv, NEW h, InStep(h), NEW s \in Procs, Cross(s)
  PROVE  InStep(h)'
<1>1. /\ UNCHANGED <<stacks, table, history, i, other, found, calls, entered>>
      /\ crossed[s] # entered[s] /\ \A t \in Procs : entered[t] >= entered[s]
      /\ crossed' = [crossed EXCEPT ![s] = @ + 1]
  BY DEF Cross, Bar!Cross, Bar!Procs, Procs
<1>2. /\ h.sync \in Nat /\ entered[s] \in Nat /\ crossed[s] \in Nat /\ calls[s] \in Nat
      /\ crossed[s] <= entered[s] /\ entered[s] <= crossed[s] + 1 /\ 3 * calls[s] <= crossed[s]
      /\ Somewhere(h, s) /\ crossed \in [Procs -> Nat]
  BY PlacesInBarriers, TypesOfBarrier DEF RequestsInv
<1>3. crossed'[s] = entered[s] /\ crossed'[s] = crossed[s] + 1
  BY <1>1, <1>2
<1>4. UNCHANGED <<localsToPush, localsToRemove, new_addresses, i, calls, entered, registered>>
  BY <1>1 DEF stacks, history
<1>5. /\ Idle(s) => Idle(s)'
      /\ \A v : Seeking(s, v) => Seeking(s, v)'
  BY <1>1 DEF Idle, Seeking
<1>6. ASSUME NEW d, Last(h, s, d)
      PROVE  Last(h, s, d)'
  BY <1>1, <1>4, <1>5, <1>6, StacksRest DEF Last
<1>7. ASSUME NEW p, First(h, s, p)
      PROVE  First(h, s, p)'
  <2>1. crossed'[s] # 3 * h.sync
    BY <1>2, <1>3, <1>7 DEF First
  <2>2. /\ Holds(s, h.dereg[p-1], ListsAfterPops(h, p-1))'
        /\ Asked(h, s, 0)' /\ ToDrop(h, s, p)' /\ Exhausted(h, s, p)' /\ MapIs(h, s)'
    BY <1>1, <1>7, StacksRest DEF First
  <2> QED BY <1>4, <1>5, <1>7, <2>1, <2>2 DEF First
<1>8. ASSUME NEW p, Second(h, s, p)
      PROVE  Second(h, s, p)'
  <2>0. entered[s] = 3 * h.sync + 2
    BY <1>8 DEF Second
  <2>1. crossed'[s] # 3 * h.sync + 1
    <3>1. h.sync \in Nat /\ crossed'[s] = 3 * h.sync + 2
      BY <1>2, <1>3, <2>0
    <3> QED BY <3>1
  <2>2. /\ Holds(s, h.reg[p-1], ListsAfterPushes(h, p-1))'
        /\ Asked(h, s, p-1)' /\ Unnumbered(h, s)' /\ Remaining(s, p-1, h.reg[p-1])'
        /\ Unnamed(h, s)' /\ NewNumbers(h, s, p)'
    BY <1>1, <1>8, StacksRest DEF Second
  <2> QED BY <1>4, <1>5, <1>8, <2>1, <2>2 DEF Second
<1>9. ASSUME Third(h, s)
      PROVE  FALSE
  <2>1. PICK t \in Procs : entered[t] < 3 * h.sync + 3
    BY DEF InStep
  <2>2. entered[t] \in Nat
    BY PlacesInBarriers
  <2> QED BY <1>1, <1>2, <1>9, <2>1, <2>2 DEF Third
<1>10. Somewhere(h, s)'
  BY <1>2, <1>6, <1>7, <1>8, <1>9, Zenon DEF Somewhere
<1> QED BY <1>1, <1>10, StepKeeps

(* Nothing cut off a stack leaves the stack. *)
LEMMA WholeSubSeq ==
  ASSUME NEW S, NEW q \in Seq(S)
  PROVE  SubSeq(q, 1, Len(q)) = q /\ SubSeq(q, 1, Len(q) - 0) = q
<1>1. Len(q) \in Nat
  BY LenProperties
<1>2. SubSeq(q, 1, Len(q)) = q
  BY <1>1
<1>3. Len(q) - 0 = Len(q)
  BY <1>1
<1> QED BY <1>2, <1>3

(* All registrations are left before the first deregistration. *)
LEMMA NothingDroppedYet ==
  ASSUME RequestsInv, NEW h, InStep(h)
  PROVE  \A v \in Variables : ListsAfterPops(h, 0)[v] = registered[v]
<1>1. h.popped[0] = [v \in Variables |-> 0] /\ registered \in [Variables -> Seq(Sizes)]
  BY TypesOfState DEF InStep, History, Dropping, RequestsInv
<1> QED BY <1>1, WholeSubSeq DEF ListsAfterPops

(* A process holds lists that are equal variable by variable. *)
LEMMA SameLists ==
  ASSUME NEW s, NEW x, NEW L, NEW K, \A v \in Variables : L[v] = K[v], Holds(s, x, L)
  PROVE  Holds(s, x, K)
BY DEF Holds

(* Returning from bsp_sync: the map has all numbers, and the process
   begins the next superstep. *)
LEMMA ReturnInStep ==
  ASSUME RequestsInv, NEW h, InStep(h), NEW s \in Procs, Return(s)
  PROVE  InStep(h)'
<1>1. crossed[s] = 3 * h.sync /\ \E d : Last(h, s, d)
  BY Where DEF Return
<1>2. localsToPush[s] = <<>>
  BY DEF Return
<1>3. Last(h, s, 0)
  <2>1. PICK d : Last(h, s, d)
    BY <1>1
  <2>2. d = 0
    BY <1>2, <2>1, EmptySeq DEF Last
  <2> QED BY <2>1, <2>2
<1>4. UNCHANGED <<stacks, table, i, other, found, entered, crossed, history>>
  BY DEF Return
<1>5. calls \in [Procs -> Nat] /\ h.sync \in Nat
  BY TypesOfBarrier, PlacesInBarriers DEF RequestsInv
<1>6. calls'[s] = h.sync
  BY <1>3, <1>5 DEF Return, Last
<1>7. /\ h.n = 0 /\ h.m = 0 /\ localsToRemove[s] = <<>> /\ localsToPush[s] = <<>>
      /\ Len(<<>>) = 0
  BY <1>2, <1>3, EmptySeq DEF Last
<1>8. Holds(s, h.dereg[1-1], ListsAfterPops(h, 1-1))
  BY <1>3, NothingDroppedYet, SameLists DEF Last
<1>9. Asked(h, s, 0) /\ ToDrop(h, s, 1)
  BY <1>7 DEF Asked, ToDrop
<1>10. Exhausted(h, s, 1)
  BY DEF Exhausted
<1>11. MapIs(h, s)
  BY <1>3, <1>7 DEF Last, Remaining, MapLacks, MapIs
<1>12. /\ Holds(s, h.dereg[1-1], ListsAfterPops(h, 1-1))'
       /\ Asked(h, s, 0)' /\ ToDrop(h, s, 1)' /\ Exhausted(h, s, 1)' /\ MapIs(h, s)'
  BY <1>4, <1>8, <1>9, <1>10, <1>11, StacksRest
<1>13. Idle(s)' /\ UNCHANGED <<new_addresses, i, entered>>
  BY <1>3, <1>4 DEF Last, Idle, stacks
<1>14. First(h, s, 1)'
  BY <1>3, <1>6, <1>7, <1>12, <1>13 DEF First, Last
<1>15. Somewhere(h, s)'
  BY <1>14, Zenon DEF Somewhere
<1> QED BY <1>4, <1>15, StepKeeps

(* A number entering the map is the number of its variable, and what
   remains is one registration less. *)
LEMMA RememberRemaining ==
  ASSUME TypeOK, NEW s \in Procs, Remember(s), localsToRemove[s] = <<>>,
         NEW d, d = Len(localsToPush[s]), NEW x, Remaining(s, d, x),
         x.num \in [Variables -> Numbers \cup {None}]
  PROVE  Remaining(s, d - 1, x)' /\ Len(localsToPush'[s]) = d - 1
<1> DEFINE q == localsToPush[s]
           r == globalsToPush[s]
           a == Top(q).address
<1>t. /\ localsToPush \in [Procs -> Seq(Request)]
      /\ globalsToPush \in [Procs -> Seq(Numbers)]
      /\ local2global \in [Procs -> [Addresses -> Numbers \cup {None}]]
      /\ q \in Seq(Request) /\ r \in Seq(Numbers)
  BY TypesOfState
<1>1. /\ q # <<>> /\ localsToPush'[s] = Pop(q)
      /\ localsToRemove' = localsToRemove
  BY <1>t DEF Remember
<1>2. /\ d \in Nat /\ d > 0 /\ Top(q) = q[d] /\ Top(q) \in Request
      /\ Len(Pop(q)) = d - 1 /\ \A k \in 1 .. d-1 : Pop(q)[k] = q[k]
  BY <1>t, <1>1, PopFromStack, PopElements
<1>3. a \in Addresses /\ a = q[d].address
  BY <1>2 DEF Request, Addresses
<1>4. PICK f : Matched(s, d, x, f)
  BY DEF Remaining
<1>5. /\ f[d] = Len(r) /\ \A k \in 0 .. d : f[k] \in Nat /\ \A l \in k .. d : f[k] <= f[l]
      /\ \A k \in 1 .. d :
           IF q[k].address = Null THEN f[k] = f[k-1]
           ELSE f[k] = f[k-1] + 1 /\ r[f[k]] = x.num[q[k].address]
  BY <1>4 DEF Matched
<1>6. d \in 1 .. d /\ d - 1 \in 0 .. d-1 /\ (\A k \in 1 .. d-1 : k \in 1 .. d /\ k # d /\ k - 1 \in 0 .. d-1)
      /\ (\A k \in 0 .. d-1 : k \in 0 .. d /\ d - 1 \in k .. d)
  BY <1>2
<1>7. AtMostOnce(s, d) /\ MapLacks(s, d, x)
  BY DEF Remaining
<1>8. AtMostOnce(s, d - 1)'
  <2>1. \A k \in 1 .. d-1 : localsToPush'[s][k] = localsToPush[s][k] /\ k \in 1 .. d
    BY <1>1, <1>2, <1>6
  <2> QED BY <1>7, <2>1 DEF AtMostOnce
<1>9. \A v \in Variables : Held(v, s) =>
        IF \E k \in 1 .. d : q[k].address = v
          THEN local2global[s][v] = None /\ x.num[v] # None
          ELSE local2global[s][v] = x.num[v]
  <2>1. Len(localsToRemove[s]) = 0
    BY EmptySeq
  <2> QED BY <1>7, <2>1 DEF MapLacks
<1>10. ASSUME a = Null
       PROVE  Remaining(s, d - 1, x)'
  <2>1. UNCHANGED <<globalsToPush, local2global>>
    BY <1>10 DEF Remember
  <2>2. Matched(s, d - 1, x, f)'
    <3>1. f[d - 1] = Len(r)
      BY <1>3, <1>5, <1>6, <1>10
    <3>2. \A k \in 0 .. d-1 : f[k] \in Nat /\ \A l \in k .. d-1 : f[k] <= f[l]
      BY <1>2, <1>5
    <3>3. \A k \in 1 .. d-1 :
            IF Pop(q)[k].address = Null THEN f[k] = f[k-1]
            ELSE f[k] = f[k-1] + 1 /\ r[f[k]] = x.num[Pop(q)[k].address]
      BY <1>2, <1>5, <1>6
    <3> QED BY <1>1, <2>1, <3>1, <3>2, <3>3 DEF Matched
  <2>3. MapLacks(s, d - 1, x)'
    <3>1. \A v \in Variables :
            (\E k \in 1 .. d-1 : Pop(q)[k].address = v) <=> \E k \in 1 .. d : q[k].address = v
      <4>1. \A k \in 1 .. d : k = d \/ k \in 1 .. d-1
        BY <1>2
      <4> QED BY <1>2, <1>3, <1>6, <1>10, <4>1, NullAssumption
    <3> QED BY <1>1, <1>9, <2>1, <3>1 DEF MapLacks
  <2> QED BY <1>8, <2>2, <2>3 DEF Remaining
<1>11. ASSUME a # Null
       PROVE  Remaining(s, d - 1, x)'
  <2>1. /\ r # <<>> /\ globalsToPush'[s] = Pop(r)
        /\ local2global' = IF local2global[s][a] # None THEN local2global
                           ELSE [local2global EXCEPT ![s][a] = Top(r)]
    BY <1>t, <1>11 DEF Remember
  <2>2. /\ Len(r) \in Nat /\ Len(r) > 0 /\ Top(r) = r[Len(r)] /\ Len(Pop(r)) = Len(r) - 1
        /\ \A j \in 1 .. Len(r) - 1 : Pop(r)[j] = r[j]
    <3>1. r \in Seq(Numbers) /\ r # <<>>
      BY <1>t, <2>1
    <3> HIDE DEF r
    <3> QED BY ONLY <3>1, PopFromStack, PopElements
  <2>3. f[d] = f[d - 1] + 1 /\ r[f[d]] = x.num[a]
    BY <1>3, <1>5, <1>6, <1>11
  <2>4. f[d - 1] = Len(r) - 1
    <3>1. f[d] = Len(r) /\ f[d - 1] \in Nat
      BY <1>5, <1>6
    <3> QED BY ONLY <2>2, <2>3, <3>1
  <2>5. Matched(s, d - 1, x, f)'
    <3>0. \A k \in 0 .. d-1 : k \in 0 .. d /\ \A l \in k .. d-1 : l \in k .. d
      BY <1>2
    <3>1. \A k \in 0 .. d-1 : f[k] \in Nat /\ \A l \in k .. d-1 : f[k] <= f[l]
      BY <1>5, <3>0
    <3>2. ASSUME NEW k \in 1 .. d-1, q[k].address # Null
          PROVE  f[k] = f[k-1] + 1 /\ Pop(r)[f[k]] = x.num[q[k].address]
      <4>1. f[k] = f[k-1] + 1 /\ r[f[k]] = x.num[q[k].address]
        BY <1>5, <1>6, <3>2
      <4>2. f[k-1] \in Nat /\ f[k] <= f[d - 1]
        <5>1. k - 1 \in 0 .. d-1 /\ k \in 0 .. d-1 /\ d - 1 \in k .. d-1
          BY <1>2, <3>2
        <5> QED BY ONLY <3>1, <5>1
      <4>3. f[k] \in 1 .. Len(r) - 1
        BY <2>2, <2>4, <4>1, <4>2
      <4> QED BY <2>2, <4>1, <4>3
    <3>3. \A k \in 1 .. d-1 : q[k].address = Null => f[k] = f[k-1]
      BY <1>5, <1>6
    <3>4. \A k \in 1 .. d-1 :
            IF Pop(q)[k].address = Null THEN f[k] = f[k-1]
            ELSE f[k] = f[k-1] + 1 /\ Pop(r)[f[k]] = x.num[Pop(q)[k].address]
      BY <1>2, <3>2, <3>3
    <3> QED BY <1>1, <2>1, <2>2, <2>4, <3>1, <3>4 DEF Matched
  <2>6. MapLacks(s, d - 1, x)'
    <3>1. ASSUME NEW v \in Variables, Held(v, s)
          PROVE  IF \E k \in 1 .. d-1 : Pop(q)[k].address = v
                   THEN local2global'[s][v] = None /\ x.num[v] # None
                   ELSE local2global'[s][v] = x.num[v]
      <4>1. CASE v = a
        <5>1. ~ \E k \in 1 .. d-1 : Pop(q)[k].address = v
          BY <1>2, <1>3, <1>6, <1>7, <1>11, <4>1 DEF AtMostOnce
        <5>2. local2global[s][v] = None
          BY <1>3, <1>6, <1>9, <3>1, <4>1
        <5>3. local2global'[s][v] = Top(r)
          BY <1>t, <1>3, <2>1, <4>1, <5>2
        <5> QED BY <1>5, <2>2, <2>3, <4>1, <5>1, <5>3
      <4>2. CASE v # a
        <5>1. (\E k \in 1 .. d-1 : Pop(q)[k].address = v) <=> \E k \in 1 .. d : q[k].address = v
          <6>1. \A k \in 1 .. d : k = d \/ k \in 1 .. d-1
            BY <1>2
          <6> QED BY <1>2, <1>3, <1>6, <4>2, <6>1
        <5>2. local2global'[s][v] = local2global[s][v]
          BY <1>t, <1>3, <2>1, <4>2
        <5> QED BY <1>9, <3>1, <5>1, <5>2
      <4> QED BY <4>1, <4>2
    <3> QED BY <1>1, <3>1 DEF MapLacks
  <2> QED BY <1>8, <2>5, <2>6 DEF Remaining
<1> QED BY <1>1, <1>2, <1>10, <1>11

(* Entering a number in the map keeps the processes in step. *)
LEMMA RememberInStep ==
  ASSUME RequestsInv, NEW h, InStep(h), NEW s \in Procs, Remember(s)
  PROVE  InStep(h)'
<1>1. PICK d : Last(h, s, d)
  BY Where DEF Remember
<1>2. /\ localsToRemove[s] = <<>> /\ d = Len(localsToPush[s]) /\ Remaining(s, d, h.dereg[0])
      /\ h.n = 0
  BY <1>1 DEF Last
<1>3. h.dereg[0].num \in [Variables -> Numbers \cup {None}]
  BY <1>2 DEF InStep, History, Releasing, AfterPops, Sensible, Numbering
<1>4. Remaining(s, d - 1, h.dereg[0])' /\ Len(localsToPush'[s]) = d - 1
  BY <1>2, <1>3, RememberRemaining DEF RequestsInv
<1>5. UNCHANGED <<localsToRemove, removedGlobals, localC, new_addresses, table, i, other, found,
                  calls, entered, crossed, history>>
  BY DEF Remember, barrier
<1>6. Holds(s, h.dereg[0], registered)'
  BY <1>1, <1>5 DEF Last, Holds, Lists, history
<1>7. Last(h, s, d - 1)'
  BY <1>1, <1>4, <1>5, <1>6 DEF Last, Idle
<1>8. Somewhere(h, s)'
  BY <1>7, Zenon DEF Somewhere
<1> QED BY <1>5, <1>8, StepKeeps

(* The p-th deregistration and the p-th registration. *)
LEMMA RemovalRun ==
  ASSUME NEW h, InStep(h), NEW p \in 1 .. h.n
  PROVE  /\ h.pops[p] \in Variables
         /\ h.popped[p] = IF registered[h.pops[p]] = <<>> THEN h.popped[p-1]
                          ELSE [h.popped[p-1] EXCEPT ![h.pops[p]] = @ + 1]
         /\ h.dereg[p] = AfterPop(h.dereg[p-1], h.pops[p],
                                  Len(registered[h.pops[p]]) - h.popped[p][h.pops[p]])
         /\ AfterPops(h, p) /\ AfterPops(h, p-1) /\ AfterPops(h, 0)
         /\ h.popped[p] \in [Variables -> Nat] /\ h.popped[p-1] \in [Variables -> Nat]
<1>1. h.n \in Nat /\ Dropping(h) /\ Releasing(h)
  BY DEF InStep, History, Dropping
<1>2. p - 1 \in 0 .. h.n-1 /\ p - 1 \in 0 .. h.n /\ p \in 0 .. h.n /\ (p - 1) + 1 = p /\ 0 \in 0 .. h.n
  BY <1>1
<1>3. h.pops[p] \in Variables
  BY <1>1 DEF Dropping
<1>4. h.popped[(p-1)+1] = IF registered[h.pops[(p-1)+1]] = <<>> THEN h.popped[p-1]
                          ELSE [h.popped[p-1] EXCEPT ![h.pops[(p-1)+1]] = @ + 1]
  BY <1>1, <1>2 DEF Dropping
<1>5. h.dereg[(p-1)+1] = AfterPop(h.dereg[p-1], h.pops[(p-1)+1],
                               Len(registered[h.pops[(p-1)+1]]) - h.popped[(p-1)+1][h.pops[(p-1)+1]])
  BY <1>1, <1>2 DEF Releasing
<1>6. AfterPops(h, p) /\ AfterPops(h, p-1) /\ AfterPops(h, 0)
  BY <1>1, <1>2 DEF Releasing
<1>7. h.popped[p] \in [Variables -> Nat] /\ h.popped[p-1] \in [Variables -> Nat]
  BY <1>1, <1>2 DEF Dropping
<1> QED BY <1>2, <1>3, <1>4, <1>5, <1>6, <1>7

(* The same for the p-th registration. *)
LEMMA RegistrationRun ==
  ASSUME NEW h, InStep(h), NEW p \in 1 .. h.m
  PROVE  /\ h.pushes[p] \in [of : Variables, size : Sizes] /\ h.pushes[p].of \in Variables
         /\ h.pushed[p] = [h.pushed[p-1] EXCEPT ![h.pushes[p].of] = Append(@, h.pushes[p].size)]
         /\ h.reg[p] = AfterPush(h.reg[p-1], h.pushes[p].of)
         /\ h.reg[0] = h.dereg[h.n]
         /\ AfterPushes(h.reg, h.reg[0], p, h.pushed) /\ AfterPushes(h.reg, h.reg[0], p-1, h.pushed)
         /\ AfterPops(h, h.n) /\ AfterPops(h, 0)
         /\ h.pushed[p] \in [Variables -> Seq(Sizes)] /\ h.pushed[p-1] \in [Variables -> Seq(Sizes)]
<1>1. /\ h.m \in Nat /\ h.n \in Nat /\ Counting(h.m, h.pushes, h.pushed) /\ Releasing(h)
      /\ RunIs(h.reg, h.dereg[h.n], h.m, h.pushes, h.pushed)
  BY DEF InStep, History, Dropping, Counting
<1>2. p - 1 \in 0 .. h.m-1 /\ p - 1 \in 0 .. h.m /\ p \in 0 .. h.m /\ (p - 1) + 1 = p
  BY <1>1
<1>3. h.pushes[p] \in [of : Variables, size : Sizes]
  BY <1>1 DEF Counting
<1>4. h.pushed[(p-1)+1] = [h.pushed[p-1] EXCEPT ![h.pushes[(p-1)+1].of] = Append(@, h.pushes[(p-1)+1].size)]
  BY <1>1, <1>2 DEF Counting
<1>5. h.reg[(p-1)+1] = AfterPush(h.reg[p-1], h.pushes[(p-1)+1].of) /\ h.reg[0] = h.dereg[h.n]
  BY <1>1, <1>2 DEF RunIs
<1>6. AfterPushes(h.reg, h.reg[0], p, h.pushed) /\ AfterPushes(h.reg, h.reg[0], p-1, h.pushed)
  BY <1>1, <1>2 DEF RunIs
<1>7. h.pushed[p] \in [Variables -> Seq(Sizes)] /\ h.pushed[p-1] \in [Variables -> Seq(Sizes)]
  BY <1>1, <1>2 DEF Counting
<1>8. AfterPops(h, h.n) /\ AfterPops(h, 0)
  BY <1>1 DEF Releasing
<1> QED BY <1>2, <1>3, <1>4, <1>5, <1>6, <1>7, <1>8

(* What remains to be shown of a process that is done with a request. *)
LEMMA NextRemoval ==
  ASSUME RequestsInv, NEW h, InStep(h), NEW s \in Procs, NEW p \in 1 .. h.n, p = i[s],
         First(h, s, p), crossed[s] = 3 * h.sync + 1, NextRequest(s),
         UNCHANGED <<localsToPush, local2global, new_addresses, calls, entered, crossed>>,
         Holds(s, h.dereg[p], ListsAfterPops(h, p))', ToDrop(h, s, p+1)', Exhausted(h, s, p+1)'
  PROVE  Somewhere(h, s)'
<1>1. /\ i \in [Procs -> Nat] /\ other \in [Procs -> 0 .. P] /\ found \in [Procs -> BOOLEAN]
      /\ h.n \in Nat /\ h.sync \in Nat
  BY TypesOfState, PlacesInBarriers DEF RequestsInv
<1>2. i'[s] = p + 1 /\ other'[s] = 0 /\ found'[s] = FALSE
  BY <1>1 DEF NextRequest
<1>3. p + 1 \in 1 .. h.n+1 /\ (p + 1) - 1 = p /\ crossed'[s] # 3 * h.sync
  BY <1>1
<1>4. Asked(h, s, 0)' /\ MapIs(h, s)'
  BY DEF First, Asked, MapIs
<1>5. Idle(s)' /\ \A v : Seeking(s, v)'
  BY <1>2, ConstantFacts DEF Idle, Seeking
<1>6. First(h, s, p + 1)'
  BY <1>2, <1>3, <1>4, <1>5 DEF First
<1> QED BY <1>6, Zenon DEF Somewhere

(* The same of a process that is done with a registration. *)
LEMMA NextRegistration ==
  ASSUME RequestsInv, NEW h, InStep(h), NEW s \in Procs, NEW p \in 1 .. h.m, p = i[s],
         Second(h, s, p), crossed[s] = 3 * h.sync + 2, localsToRemove[s] = <<>>, NextRequest(s),
         UNCHANGED <<localsToRemove, local2global, calls, entered, crossed>>,
         Holds(s, h.reg[p], ListsAfterPushes(h, p))', Asked(h, s, p)',
         Remaining(s, p, h.reg[p])', NewNumbers(h, s, p+1)'
  PROVE  Somewhere(h, s)'
<1>1. /\ i \in [Procs -> Nat] /\ other \in [Procs -> 0 .. P] /\ found \in [Procs -> BOOLEAN]
      /\ h.m \in Nat /\ h.sync \in Nat
  BY TypesOfState, PlacesInBarriers DEF RequestsInv
<1>2. i'[s] = p + 1 /\ other'[s] = 0 /\ found'[s] = FALSE
  BY <1>1 DEF NextRequest
<1>3. /\ p + 1 \in 1 .. h.m+1 /\ (p + 1) - 1 = p /\ p + 1 # 1
      /\ crossed'[s] # 3 * h.sync + 1 /\ localsToRemove'[s] = <<>>
  <2>1. h.sync \in Nat /\ crossed'[s] = 3 * h.sync + 2
    BY <1>1
  <2>2. crossed'[s] # 3 * h.sync + 1
    BY <2>1
  <2> QED BY <1>1, <2>2
<1>4. Unnumbered(h, s)' /\ Unnamed(h, s)'
  BY DEF Second, Unnumbered, Unnamed
<1>5. Idle(s)' /\ \A v : Seeking(s, v)'
  BY <1>2, ConstantFacts DEF Idle, Seeking
<1>6. Second(h, s, p + 1)'
  BY <1>2, <1>3, <1>4, <1>5 DEF Second
<1> QED BY <1>6, Zenon DEF Somewhere

(* A deregistration that is NULL everywhere changes no number. *)
LEMMA IgnoreRemovalInStep ==
  ASSUME RequestsInv, NEW h, InStep(h), NEW s \in Procs, IgnoreRemoval(s)
  PROVE  InStep(h)'
<1>i. PICK p : p = i[s]
  OBVIOUS
<1> DEFINE v == h.pops[p]
<1>1. /\ First(h, s, p) /\ p \in 1 .. h.n /\ v \in Variables
      /\ crossed[s] = 3 * h.sync + 1
      /\ localsToRemove[s][p] = Address(v, s)
  BY <1>i, RemovalAt DEF IgnoreRemoval, ToRemove
<1>2. UNCHANGED <<stacks, table, history, calls, entered, crossed>> /\ NextRequest(s) /\ other[s] = P
  BY DEF IgnoreRemoval, barrier
<1>3. h.n \in Nat /\ p <= h.n
  BY <1>1, PlacesInBarriers
<1>4. \A t \in Procs : ~ Held(v, t)
  BY <1>1, <1>2, <1>3, ConstantFacts DEF First, Seeking
<1>5. AllNull(v)
  BY <1>4 DEF AllNull, Held
<1>6. /\ AfterPops(h, p) /\ AfterPops(h, p-1)
      /\ h.dereg[p] = AfterPop(h.dereg[p-1], v, Len(registered[v]) - h.popped[p][v])
      /\ h.popped[p] = IF registered[v] = <<>> THEN h.popped[p-1] ELSE [h.popped[p-1] EXCEPT ![v] = @ + 1]
      /\ h.popped[p-1] \in [Variables -> Nat]
  BY <1>1, RemovalRun
<1> HIDE DEF v
<1>7. h.dereg[p-1].num[v] = None
  BY <1>1, <1>5, <1>6 DEF AfterPops
<1>8. h.dereg[p] = h.dereg[p-1]
  BY <1>6, <1>7 DEF AfterPop
<1>9. \A w \in Variables \ {v} : ListsAfterPops(h, p)[w] = ListsAfterPops(h, p-1)[w]
  BY <1>1, <1>6 DEF ListsAfterPops
<1>10. Holds(s, h.dereg[p], ListsAfterPops(h, p))
  BY <1>1, <1>7, <1>8, <1>9, NoneAssumption DEF First, Holds
<1>11. ToDrop(h, s, p+1)
  BY <1>1, <1>3 DEF First, ToDrop
<1>12. Exhausted(h, s, p+1)
  <2>1. localsToRemove[s][p] = Null
    BY <1>1, <1>4, Addressing
  <2>2. (p + 1) - 1 = p /\ \A k : k \in 1 .. p <=> k = p \/ k \in 1 .. p-1
    BY <1>1, <1>3
  <2>3. Exhausted(h, s, p)
    BY <1>1 DEF First
  <2> QED BY <1>8, <2>1, <2>2, <2>3, NullAssumption DEF Exhausted
<1>13. Somewhere(h, s)'
  <2>1. Holds(s, h.dereg[p], ListsAfterPops(h, p))' /\ ToDrop(h, s, p+1)' /\ Exhausted(h, s, p+1)'
    BY <1>2, <1>10, <1>11, <1>12, StacksRest
  <2>2. UNCHANGED <<localsToPush, local2global, new_addresses>>
    BY <1>2 DEF stacks
  <2> QED BY <1>i, <1>1, <1>2, <2>1, <2>2, NextRemoval
<1> QED BY <1>2, <1>13, StepKeeps

(* A registration that is NULL, or made NULL, has no number on the stack. *)
LEMMA RemainingIfNull ==
  ASSUME NEW s \in Procs, NEW p \in Nat \ {0}, NEW x, Remaining(s, p-1, x),
         \A k \in 1 .. p-1 : localsToPush'[s][k] = localsToPush[s][k],
         localsToPush'[s][p].address = Null,
         UNCHANGED <<globalsToPush, localsToRemove, local2global>>
  PROVE  Remaining(s, p, x)'
<1> DEFINE q == localsToPush[s]
<1>1. PICK f : Matched(s, p-1, x, f)
  BY DEF Remaining
<1>2. /\ f[p-1] = Len(globalsToPush[s])
      /\ \A k \in 0 .. p-1 : f[k] \in Nat /\ \A l \in k .. p-1 : f[k] <= f[l]
      /\ \A k \in 1 .. p-1 :
           IF q[k].address = Null THEN f[k] = f[k-1]
           ELSE f[k] = f[k-1] + 1 /\ globalsToPush[s][f[k]] = x.num[q[k].address]
  BY <1>1 DEF Matched
<1>3. \A k : k \in 1 .. p <=> k = p \/ k \in 1 .. p-1
  OBVIOUS
<1> DEFINE e == [k \in 0 .. p |-> IF k = p THEN f[p-1] ELSE f[k]]
<1>4. e[p] = f[p-1] /\ \A k \in 0 .. p-1 : e[k] = f[k]
  OBVIOUS
<1> HIDE DEF e
<1>5. Matched(s, p, x, e)'
  <2>1. \A k \in 0 .. p : e[k] \in Nat /\ \A l \in k .. p : e[k] <= e[l]
    <3>1. \A k \in 0 .. p : k = p \/ (k \in 0 .. p-1 /\ p - 1 \in k .. p-1)
      OBVIOUS
    <3>2. p - 1 \in 0 .. p-1
      OBVIOUS
    <3>3. \A k \in 0 .. p-1 : \A l \in k .. p : l = p \/ (l \in k .. p-1 /\ l \in 0 .. p-1)
      OBVIOUS
    <3>4. \A l \in p .. p : l = p
      OBVIOUS
    <3> QED BY <1>2, <1>4, <3>1, <3>2, <3>3, <3>4
  <2>2. \A k \in 1 .. p :
          IF localsToPush'[s][k].address = Null THEN e[k] = e[k-1]
          ELSE e[k] = e[k-1] + 1 /\ globalsToPush[s][e[k]] = x.num[localsToPush'[s][k].address]
    <3>1. \A k \in 1 .. p : k - 1 \in 0 .. p-1 /\ (k = p \/ (k \in 1 .. p-1 /\ k \in 0 .. p-1))
      OBVIOUS
    <3>2. e[p] = e[p-1]
      BY <1>4
    <3>3. ASSUME NEW k \in 1 .. p-1
          PROVE  IF q[k].address = Null THEN e[k] = e[k-1]
                 ELSE e[k] = e[k-1] + 1 /\ globalsToPush[s][e[k]] = x.num[q[k].address]
      <4>1. e[k] = f[k] /\ e[k-1] = f[k-1]
        BY <1>4
      <4> QED BY <1>2, <4>1
    <3> QED BY <3>1, <3>2, <3>3
  <2> QED BY <1>2, <1>4, <2>1, <2>2 DEF Matched
<1>6. AtMostOnce(s, p)'
  BY <1>3 DEF Remaining, AtMostOnce
<1>7. MapLacks(s, p, x)'
  BY <1>3, NullAssumption DEF Remaining, MapLacks
<1> QED BY <1>5, <1>6, <1>7 DEF Remaining

(* Nor does a registration that is NULL everywhere. *)
LEMMA IgnoreRegistrationInStep ==
  ASSUME RequestsInv, NEW h, InStep(h), NEW s \in Procs, IgnoreRegistration(s)
  PROVE  InStep(h)'
<1>i. PICK p : p = i[s]
  OBVIOUS
<1> DEFINE v == h.pushes[p].of
<1>1. /\ Second(h, s, p) /\ p \in 1 .. h.m /\ v \in Variables
      /\ crossed[s] = 3 * h.sync + 2 /\ localsToRemove[s] = <<>>
      /\ localsToPush[s][p].address = Address(v, s)
  BY <1>i, RegistrationAt DEF IgnoreRegistration, ToPush
<1>2. UNCHANGED <<stacks, table, history, calls, entered, crossed>> /\ NextRequest(s) /\ other[s] = P
  BY DEF IgnoreRegistration, barrier
<1>3. h.m \in Nat /\ p <= h.m
  BY <1>1, PlacesInBarriers
<1>4. \A t \in Procs : ~ Held(v, t)
  BY <1>1, <1>2, <1>3, ConstantFacts DEF Second, Seeking
<1>5. AllNull(v)
  BY <1>4 DEF AllNull, Held
<1>6. /\ AfterPushes(h.reg, h.reg[0], p-1, h.pushed)
      /\ h.reg[p] = AfterPush(h.reg[p-1], v)
      /\ h.pushed[p] = [h.pushed[p-1] EXCEPT ![v] = Append(@, h.pushes[p].size)]
      /\ h.pushed[p-1] \in [Variables -> Seq(Sizes)]
  BY <1>1, RegistrationRun
<1> HIDE DEF v
<1>7. h.reg[p-1].num[v] = None
  BY <1>1, <1>5, <1>6 DEF AfterPushes
<1>8. h.reg[p] = h.reg[p-1]
  BY <1>5, <1>6 DEF AfterPush
<1>9. \A w \in Variables \ {v} : ListsAfterPushes(h, p)[w] = ListsAfterPushes(h, p-1)[w]
  BY <1>1, <1>6 DEF ListsAfterPushes
<1>10. Holds(s, h.reg[p], ListsAfterPushes(h, p))
  BY <1>1, <1>7, <1>8, <1>9, NoneAssumption DEF Second, Holds
<1>k. (p + 1) - 1 = p /\ (\A k : k \in 1 .. p <=> k = p \/ k \in 1 .. p-1) /\ p \in Nat
  BY <1>1, <1>3
<1>n. localsToPush[s][p].address = Null
  BY <1>1, <1>4, Addressing
<1>11. Asked(h, s, p)
  BY <1>1, <1>3 DEF Second, Asked
<1>12. Remaining(s, p, h.reg[p])'
  <2>1. Remaining(s, p-1, h.reg[p])
    BY <1>1, <1>8 DEF Second
  <2>2. UNCHANGED <<localsToPush, globalsToPush, localsToRemove, local2global>>
    BY <1>2 DEF stacks
  <2>3. p \in Nat \ {0}
    BY <1>1
  <2> QED BY <1>n, <2>1, <2>2, <2>3, RemainingIfNull
<1>13. NewNumbers(h, s, p+1)
  BY <1>1, <1>k, <1>n, <1>8, NullAssumption DEF Second, NewNumbers
<1>14. Somewhere(h, s)'
  <2>1. /\ Holds(s, h.reg[p], ListsAfterPushes(h, p))' /\ Asked(h, s, p)'
        /\ NewNumbers(h, s, p+1)'
    BY <1>2, <1>10, <1>11, <1>13, StacksRest
  <2>2. UNCHANGED <<localsToRemove, local2global>>
    BY <1>2 DEF stacks
  <2> QED BY <1>i, <1>1, <1>2, <1>12, <2>1, <2>2, NextRegistration
<1> QED BY <1>2, <1>14, StepKeeps

(* Taking an address out of the map: its variable has lost its number. *)
LEMMA ForgetInStep ==
  ASSUME RequestsInv, NEW h, InStep(h), NEW s \in Procs, Forget(s)
  PROVE  InStep(h)'
<1> DEFINE q == localsToRemove[s]
           a == Top(q)
<1>1. crossed[s] = 3 * h.sync + 2 /\ Second(h, s, 1) /\ q # <<>>
  BY Where DEF Forget
<1>2. /\ localsToRemove \in [Procs -> Seq(Addresses)] /\ q \in Seq(Addresses)
      /\ local2global \in [Procs -> [Addresses -> Numbers \cup {None}]]
  BY TypesOfState DEF RequestsInv
<1>3. /\ localsToRemove'[s] = Pop(q) /\ Len(q) \in Nat /\ Len(q) > 0
      /\ a = q[Len(q)] /\ a \in Addresses
      /\ Len(Pop(q)) = Len(q) - 1 /\ \A k \in 1 .. Len(q) - 1 : Pop(q)[k] = q[k]
  BY <1>1, <1>2, PopFromStack, PopElements DEF Forget
<1>4. UNCHANGED <<localsToPush, globalsToPush, removedGlobals, localC, new_addresses, table,
                  i, other, found, calls, entered, crossed, history>>
  BY DEF Forget, barrier
<1>5. \A v \in Variables : local2global'[s][v] = IF v = a THEN None ELSE local2global[s][v]
  <2>1. CASE a = Null
    BY <2>1, NullAssumption DEF Forget
  <2>2. CASE a # Null
    <3>1. local2global' = [local2global EXCEPT ![s][a] = None]
      BY <2>2 DEF Forget
    <3> HIDE DEF a
    <3>2. \A v \in Variables : v \in Addresses
      BY DEF Addresses
    <3> QED BY <1>2, <1>3, <3>1, <3>2
  <2> QED BY <2>1, <2>2
<1> HIDE DEF a
<1>6. \A k \in 1 .. Len(q) : k = Len(q) \/ k \in 1 .. Len(q) - 1
  BY <1>3
<1>7. Len(q) \in 1 .. Len(q)
  BY <1>3
<1>8. Unnumbered(h, s)'
  <2>1. \A k \in 1 .. Len(localsToRemove'[s]) : k \in 1 .. Len(q) /\ localsToRemove'[s][k] = q[k]
    BY <1>3
  <2>2. Unnumbered(h, s)
    BY <1>1 DEF Second
  <2> QED BY <2>1, <2>2 DEF Unnumbered
<1>9. ASSUME NEW v \in Variables, Held(v, s), a = v
      PROVE  h.reg[0].num[v] = None
  BY <1>1, <1>3, <1>7, <1>9 DEF Second, Unnumbered
<1>10. MapLacks(s, 0, h.reg[0])'
  <2> SUFFICES ASSUME NEW v \in Variables, Held(v, s),
                      \A k \in 1 .. Len(q) - 1 : q[k] # v
               PROVE  local2global'[s][v] = h.reg[0].num[v]
    BY <1>3 DEF MapLacks
  <2>1. CASE v = a
    BY <1>5, <1>9, <2>1
  <2>2. CASE v # a
    <3>1. \A k \in 1 .. Len(q) : q[k] # v
      BY <1>3, <1>6, <2>2
    <3> QED BY <1>1, <1>5, <2>2, <3>1 DEF Second, Remaining, MapLacks
  <2> QED BY <2>1, <2>2
<1>11. Remaining(s, 0, h.reg[0])'
  <2>1. Remaining(s, 0, h.reg[0])
    BY <1>1 DEF Second
  <2>2. PICK f : Matched(s, 0, h.reg[0], f)
    BY <2>1 DEF Remaining
  <2>3. Matched(s, 0, h.reg[0], f)'
    BY <1>4, <2>2 DEF Matched
  <2>4. AtMostOnce(s, 0)'
    BY DEF AtMostOnce
  <2> QED BY <1>10, <2>3, <2>4 DEF Remaining
<1>12. Unnamed(h, s)'
  BY <1>1, <1>5 DEF Second, Unnamed
<1>13. Holds(s, h.reg[0], ListsAfterPushes(h, 0))'
  <2>1. ListsAfterPushes(h, 0)' = ListsAfterPushes(h, 0)
    BY <1>4, ListsRest
  <2>2. Holds(s, h.reg[0], ListsAfterPushes(h, 0))
    BY <1>1 DEF Second
  <2> QED BY <1>4, <2>1, <2>2 DEF Holds, Lists
<1>14. Asked(h, s, 0)' /\ NewNumbers(h, s, 1)'
  BY <1>1, <1>4 DEF Second, Asked, NewNumbers
<1>15. IF 1 <= h.m THEN Seeking(s, h.pushes[1].of)' ELSE Idle(s)'
  BY <1>1, <1>4 DEF Second, Seeking, Idle
<1>16. crossed'[s] # 3 * h.sync + 1
  <2>1. h.sync \in Nat /\ crossed'[s] = 3 * h.sync + 2
    BY <1>1, <1>4, PlacesInBarriers
  <2> QED BY <2>1
<1>17. Second(h, s, 1)'
  BY <1>1, <1>4, <1>8, <1>11, <1>12, <1>13, <1>14, <1>15, <1>16 DEF Second
<1>18. Somewhere(h, s)'
  BY <1>17, Zenon DEF Somewhere
<1> QED BY <1>4, <1>18, StepKeeps

(* Before the first registration the lists are those that the
   deregistrations left. *)
LEMMA NothingAddedYet ==
  ASSUME RequestsInv, NEW h, InStep(h)
  PROVE  \A v \in Variables : ListsAfterPushes(h, 0)[v] = ListsAfterPops(h, h.n)[v]
<1>1. /\ h.pushed[0] = [v \in Variables |-> <<>>] /\ h.popped[h.n] = dropped
      /\ h.n \in Nat /\ h.popped[h.n] \in [Variables -> Nat]
      /\ \A v \in Variables : h.popped[h.n][v] <= Len(registered[v])
  <2>1. Dropping(h) /\ Counting(h.m, h.pushes, h.pushed) /\ h.popped[h.n] = dropped
    BY DEF InStep, History
  <2>2. h.pushed[0] = [v \in Variables |-> <<>>]
    BY <2>1 DEF Counting
  <2>3. h.n \in Nat /\ h.n \in 0 .. h.n
    BY <2>1 DEF Dropping
  <2>4. h.popped[h.n] \in [Variables -> Nat] /\ \A v \in Variables : h.popped[h.n][v] <= Len(registered[v])
    BY <2>1, <2>3 DEF Dropping
  <2> QED BY <2>1, <2>2, <2>3, <2>4
<1>2. registered \in [Variables -> Seq(Sizes)]
  BY TypesOfState DEF RequestsInv
<1>3. ASSUME NEW v \in Variables
      PROVE  SubSeq(registered[v], 1, Len(registered[v]) - dropped[v]) \o <<>>
               = SubSeq(registered[v], 1, Len(registered[v]) - dropped[v])
  <2>1. Len(registered[v]) \in Nat /\ dropped[v] \in Nat /\ dropped[v] <= Len(registered[v])
    BY <1>1, <1>2, LenProperties
  <2>2. \A j \in 1 .. Len(registered[v]) - dropped[v] : registered[v][j] \in Sizes
    BY <1>2, <2>1, ElementOfSeq
  <2>3. SubSeq(registered[v], 1, Len(registered[v]) - dropped[v]) \in Seq(Sizes)
    BY <1>2, <2>1, <2>2, SubSeqProperties
  <2> QED BY <2>3, ConcatEmptySeq
<1> QED BY <1>1, <1>3 DEF ListsAfterPushes, ListsAfterPops

(* Arriving at the second barrier, when all deregistrations are carried
   out. *)
LEMMA ArriveMidInStep ==
  ASSUME RequestsInv, NEW h, InStep(h), NEW s \in Procs, ArriveMid(s)
  PROVE  InStep(h)'
<1>1. PICK p : First(h, s, p)
  BY Where DEF ArriveMid
<1>2. crossed[s] = 3 * h.sync + 1 /\ entered[s] = 3 * h.sync + 1
  BY Where DEF ArriveMid
<1>3. /\ h.n \in Nat /\ h.m \in Nat /\ h.sync \in Nat /\ entered \in [Procs -> Nat]
      /\ i \in [Procs -> Nat]
  BY PlacesInBarriers, TypesOfBarrier, TypesOfState DEF RequestsInv
<1>4. p = h.n + 1 /\ p - 1 = h.n
  <2>1. i[s] = p /\ p \in 1 .. h.n+1 /\ Len(localsToRemove[s]) = h.n
    BY <1>1 DEF First, ToDrop
  <2> QED BY <1>3, <2>1 DEF ArriveMid
<1>5. /\ UNCHANGED <<stacks, table, other, found, calls, crossed, history>>
      /\ i'[s] = 1 /\ entered'[s] = 3 * h.sync + 2
  <2>1. /\ UNCHANGED <<stacks, table, other, found, calls, crossed, history>>
        /\ i' = [i EXCEPT ![s] = 1] /\ entered' = [entered EXCEPT ![s] = @ + 1]
    BY DEF ArriveMid, Restart, Bar!Arrive
  <2>2. i'[s] = 1 /\ entered'[s] = entered[s] + 1
    BY <1>3, <2>1
  <2> QED BY <1>2, <1>3, <2>1, <2>2
<1>6. /\ Holds(s, h.dereg[h.n], ListsAfterPops(h, h.n)) /\ Asked(h, s, 0) /\ ToDrop(h, s, h.n+1)
      /\ Exhausted(h, s, h.n+1) /\ MapIs(h, s) /\ new_addresses[s] = Empty /\ Idle(s)
  <2>1. ~ (p <= h.n)
    BY <1>3, <1>4
  <2> QED BY <1>1, <1>4, <2>1 DEF First
<1>7. h.reg[0] = h.dereg[h.n]
  BY DEF InStep, History, RunIs
<1>8. Holds(s, h.reg[1-1], ListsAfterPushes(h, 1-1))
  BY <1>6, <1>7, NothingAddedYet, SameLists
<1>9. Unnumbered(h, s)
  BY <1>3, <1>6, <1>7 DEF Exhausted, ToDrop, Unnumbered
<1>10. Remaining(s, 1-1, h.reg[1-1])
  <2> DEFINE f == [k \in {0} |-> Len(globalsToPush[s])]
  <2>1. f[0] = Len(globalsToPush[s]) /\ f[0] \in Nat
    <3>1. globalsToPush[s] \in Seq(Numbers)
      BY TypesOfState DEF RequestsInv
    <3> QED BY <3>1, LenProperties
  <2> HIDE DEF f
  <2>2. Matched(s, 0, h.reg[0], f)
    <3>1. \A k \in 0 .. 0 : k = 0
      OBVIOUS
    <3> QED BY <2>1, <3>1 DEF Matched
  <2>3. AtMostOnce(s, 0)
    BY DEF AtMostOnce
  <2>4. MapLacks(s, 0, h.reg[0])
    <3> SUFFICES ASSUME NEW v \in Variables, Held(v, s),
                        \A k \in 1 .. Len(localsToRemove[s]) : localsToRemove[s][k] # v
                 PROVE  local2global[s][v] = h.reg[0].num[v]
      BY DEF MapLacks
    <3>1. local2global[s][v] = h.dereg[0].num[v]
      BY <1>6 DEF MapIs
    <3>2. h.dereg[h.n].num[v] \in {None, h.dereg[0].num[v]}
      <4>1. h.n \in 0 .. h.n
        BY <1>3
      <4>2. AfterPops(h, h.n)
        BY <4>1 DEF InStep, History, Releasing
      <4> QED BY <4>2 DEF AfterPops
    <3>3. h.dereg[0].num[v] # None => h.dereg[h.n].num[v] # None
      BY <1>3, <1>6 DEF Exhausted, ToDrop
    <3> QED BY <1>7, <3>1, <3>2, <3>3
  <2> QED BY <2>2, <2>3, <2>4 DEF Remaining
<1>11. Unnamed(h, s)
  BY <1>6 DEF MapIs, Unnamed
<1>12. NewNumbers(h, s, 1)
  BY <1>6 DEF NewNumbers, Empty
<1>13. Idle(s)' /\ \A v : Seeking(s, v)'
  BY <1>5, <1>6, ConstantFacts DEF Idle, Seeking
<1>14. /\ Holds(s, h.reg[1-1], ListsAfterPushes(h, 1-1))' /\ Asked(h, s, 0)' /\ ToDrop(h, s, h.n+1)'
       /\ MapIs(h, s)' /\ Unnumbered(h, s)' /\ Remaining(s, 1-1, h.reg[1-1])' /\ Unnamed(h, s)'
       /\ NewNumbers(h, s, 1)'
  BY <1>5, <1>6, <1>8, <1>9, <1>10, <1>11, <1>12, StacksRest
<1>15. new_addresses'[s] = Empty /\ calls'[s] = h.sync
  BY <1>1, <1>5, <1>6 DEF First, stacks
<1>16. Second(h, s, 1)'
  BY <1>3, <1>5, <1>13, <1>14, <1>15 DEF Second
<1>17. Somewhere(h, s)'
  BY <1>16, Zenon DEF Somewhere
<1>18. \A t \in Procs \ {s} : Unmoved(t)
  BY OthersUnmoved
<1>19. entered'[s] < 3 * h.sync + 3
  BY <1>3, <1>5
<1> QED BY <1>5, <1>17, <1>18, <1>19, OneMoves

(* The number found for a deregistration. *)
LEMMA RemovedNumber ==
  ASSUME RequestsInv, NEW h, InStep(h), NEW s \in Procs, Deregister(s)
  PROVE  LET t == IF ToRemove(s) # Null THEN s ELSE other[s]
         IN /\ local2global[t][localsToRemove[t][i[s]]] = h.dereg[0].num[h.pops[i[s]]]
            /\ ~ AllNull(h.pops[i[s]])
            /\ localsToRemove[s][i[s]] \in {Null, h.pops[i[s]]}
            /\ localsToRemove[s][i[s]] = h.pops[i[s]] <=> Held(h.pops[i[s]], s)
<1> DEFINE p == i[s]
           v == h.pops[p]
<1>0. Removing(s) /\ (ToRemove(s) # Null \/ found[s])
  BY DEF Deregister
<1>1. /\ First(h, s, p) /\ p \in 1 .. h.n /\ v \in Variables
      /\ ToRemove(s) = Address(v, s)
      /\ \A u \in Procs : ~ Held(v, s) => localsToRemove[u][p] = Address(v, u)
  BY <1>0, RemovalAt
<1>2. p <= h.n
  BY <1>1, PlacesInBarriers
<1>3. Seeking(s, v)
  BY <1>1, <1>2 DEF First
<1>4. ToRemove(s) = localsToRemove[s][p] /\ (ToRemove(s) # Null \/ found[s]) /\ v # Null
  BY <1>0, <1>1, Addressing DEF ToRemove
<1>5. Phase(s) = "deregister"
  BY <1>0 DEF Removing
<1> HIDE DEF v
<1>6. CASE ToRemove(s) # Null
  <2>1. Held(v, s) /\ ToRemove(s) = v /\ ~ AllNull(v)
    BY <1>1, <1>6, Addressing
  <2>2. local2global[s][v] = h.dereg[0].num[v]
    BY <1>1, <2>1 DEF First, MapIs
  <2> QED BY <1>4, <1>6, <2>1, <2>2 DEF v
<1>7. CASE ToRemove(s) = Null
  <2>1. ~ Held(v, s)
    BY <1>1, <1>7, Addressing
  <2>2. other[s] \in Procs /\ Held(v, other[s])
    BY <1>3, <1>4, <1>7 DEF Seeking
  <2>3. localsToRemove[other[s]][p] = v /\ ~ AllNull(v)
    BY <1>1, <2>1, <2>2, Addressing
  <2>4. local2global[other[s]][v] = h.dereg[0].num[v]
    BY <1>1, <1>5, <2>2, BesidesRemoval DEF MapIs
  <2> QED BY <1>4, <1>7, <2>1, <2>3, <2>4 DEF v
<1> QED BY <1>6, <1>7

(* Taking the last registration off a stack. *)
LEMMA OneListShorter ==
  ASSUME NEW v \in Variables, NEW s \in Procs, NEW q \in Seq(Request), NEW l \in Seq(Sizes),
         Lists(q, v, s, l), q # <<>>
  PROVE  Lists(Pop(q), v, s, Pop(l))
<1>1. Len(q) = Len(l) /\ \A j \in 1 .. Len(l) : q[j] = [address |-> Address(v, s), size |-> l[j]]
  BY DEF Lists
<1>2. Len(q) \in Nat /\ Len(q) > 0 /\ l # <<>>
  BY <1>1, LengthOfStack, EmptySeq
<1>3. Len(Pop(q)) = Len(q) - 1 /\ \A j \in 1 .. Len(q) - 1 : Pop(q)[j] = q[j]
  BY <1>2, PopFromStack, PopElements
<1>4. Len(Pop(l)) = Len(l) - 1 /\ \A j \in 1 .. Len(l) - 1 : Pop(l)[j] = l[j]
  BY <1>2, PopFromStack, PopElements
<1> QED BY <1>1, <1>2, <1>3, <1>4 DEF Lists

(* Cutting k elements off a stack and one more is cutting off k + 1. *)
LEMMA PopOfSubSeq ==
  ASSUME NEW S, NEW q \in Seq(S), NEW k \in Nat, k < Len(q)
  PROVE  /\ SubSeq(q, 1, Len(q) - k) \in Seq(S)
         /\ Len(SubSeq(q, 1, Len(q) - k)) = Len(q) - k
         /\ Pop(SubSeq(q, 1, Len(q) - k)) = SubSeq(q, 1, Len(q) - (k + 1))
<1>1. Len(q) \in Nat
  BY LenProperties
<1>2. \A j \in 1 .. Len(q) : q[j] \in S
  BY ElementOfSeq
<1>3. \A n \in 0 .. Len(q) :
        /\ SubSeq(q, 1, n) \in Seq(S) /\ Len(SubSeq(q, 1, n)) = n
        /\ \A j \in 1 .. n : SubSeq(q, 1, n)[j] = q[j]
  <2> SUFFICES ASSUME NEW n \in 0 .. Len(q)
               PROVE  /\ SubSeq(q, 1, n) \in Seq(S) /\ Len(SubSeq(q, 1, n)) = n
                      /\ \A j \in 1 .. n : SubSeq(q, 1, n)[j] = q[j]
    OBVIOUS
  <2>1. \A j \in 1 .. n : q[j] \in S
    BY <1>1, <1>2
  <2>2. /\ SubSeq(q, 1, n) \in Seq(S)
        /\ Len(SubSeq(q, 1, n)) = IF 1 <= n THEN n - 1 + 1 ELSE 0
        /\ \A j \in 1 .. n - 1 + 1 : SubSeq(q, 1, n)[j] = q[1 + j - 1]
    BY <1>1, <2>1, SubSeqProperties
  <2>3. Len(SubSeq(q, 1, n)) = n
    BY <1>1, <2>2
  <2>4. \A j \in 1 .. n : j \in 1 .. n - 1 + 1 /\ 1 + j - 1 = j
    BY <1>1
  <2> QED BY <2>2, <2>3, <2>4
<1>4. Len(q) - k \in 0 .. Len(q) /\ Len(q) - (k + 1) \in 0 .. Len(q) /\ Len(q) - k > 0
      /\ (Len(q) - k) - 1 = Len(q) - (k + 1)
  BY <1>1
<1> DEFINE u == SubSeq(q, 1, Len(q) - k)
           w == SubSeq(q, 1, Len(q) - (k + 1))
<1>a. u \in Seq(S) /\ Len(u) = Len(q) - k
  BY <1>3, <1>4
<1>7. w \in Seq(S) /\ Len(w) = Len(q) - (k + 1)
  BY <1>3, <1>4
<1>b. /\ \A j \in 1 .. Len(q) - (k + 1) : w[j] = q[j]
      /\ \A j \in 1 .. Len(q) - k : u[j] = q[j]
  BY <1>3, <1>4
<1> HIDE DEF u, w
<1>5. u \in Seq(S) /\ Len(u) = Len(q) - k /\ u # <<>>
  BY <1>4, <1>a, EmptySeq
<1>6. /\ Pop(u) \in Seq(S) /\ Len(Pop(u)) = Len(q) - (k + 1)
      /\ \A j \in 1 .. Len(u) - 1 : Pop(u)[j] = u[j]
  BY <1>4, <1>5, PopFromStack, PopElements
<1>8. \A j \in 1 .. Len(q) - (k + 1) : Pop(u)[j] = w[j]
  <2>1. \A j \in 1 .. Len(q) - (k + 1) : j \in 1 .. Len(u) - 1 /\ j \in 1 .. Len(q) - k
    BY <1>1, <1>5
  <2> QED BY <1>6, <1>b, <2>1
<1>9. Pop(u) = w
  BY <1>6, <1>7, <1>8, SeqEqual
<1> QED BY <1>5, <1>7, <1>9 DEF u, w

(* What a deregistration does, in terms of the number that its variable
   had. *)
LEMMA DeregisterCases ==
  ASSUME RequestsInv, NEW h, InStep(h), NEW s \in Procs, Deregister(s),
         NEW p, p = i[s], NEW v, v = h.pops[p], NEW g, g = h.dereg[0].num[v]
  PROVE  /\ g = None => UNCHANGED <<localsToRemove, removedGlobals, localC, table>>
         /\ g # None =>
              /\ table[g][s] # <<>>
              /\ table' = [table EXCEPT ![g][s] = Pop(@)]
              /\ IF table'[g][s] = <<>>
                   THEN FreeNumber(s, g) /\ UNCHANGED localsToRemove
                   ELSE KeepInMap(s) /\ UNCHANGED <<removedGlobals, localC>>
<1> DEFINE t == IF ToRemove(s) # Null THEN s ELSE other[s]
           k == local2global[t][localsToRemove[t][i[s]]]
<1>1. IF k = None
        THEN UNCHANGED <<localsToRemove, removedGlobals, localC, table>>
        ELSE /\ table[k][s] # <<>>
             /\ table' = [table EXCEPT ![k][s] = Pop(@)]
             /\ IF table'[k][s] = <<>>
                  THEN FreeNumber(s, k) /\ UNCHANGED localsToRemove
                  ELSE KeepInMap(s) /\ UNCHANGED <<removedGlobals, localC>>
  BY DEF Deregister
<1>2. k = g
  BY RemovedNumber
<1> HIDE DEF k
<1> QED BY <1>1, <1>2

(* A deregistration keeps the processes in step: its variable may lose its
   number, and then the number is free. *)
LEMMA DeregisterInStep ==
  ASSUME RequestsInv, NEW h, InStep(h), NEW s \in Procs, Deregister(s)
  PROVE  InStep(h)'
<1>i. PICK p : p = i[s]
  OBVIOUS
<1> DEFINE v == h.pops[p]
           g == h.dereg[0].num[v]
           x == h.dereg[p-1]
           y == h.dereg[p]
           q == table[g][s]
<1>0. Removing(s)
  BY DEF Deregister
<1>1. /\ First(h, s, p) /\ p \in 1 .. h.n /\ v \in Variables
      /\ crossed[s] = 3 * h.sync + 1
  BY <1>0, <1>i, RemovalAt
<1>2. /\ localsToRemove[s][p] \in {Null, v} /\ (localsToRemove[s][p] = v <=> Held(v, s))
      /\ ~ AllNull(v)
  BY <1>i, RemovedNumber
<1>3. /\ g = None => UNCHANGED <<localsToRemove, removedGlobals, localC, table>>
      /\ g # None =>
           /\ q # <<>>
           /\ table' = [table EXCEPT ![g][s] = Pop(@)]
           /\ IF table'[g][s] = <<>>
                THEN FreeNumber(s, g) /\ UNCHANGED localsToRemove
                ELSE KeepInMap(s) /\ UNCHANGED <<removedGlobals, localC>>
  BY <1>i, DeregisterCases
<1>4. /\ UNCHANGED <<localsToPush, globalsToPush, local2global, new_addresses, calls, entered, crossed, history>>
      /\ NextRequest(s)
  BY DEF Deregister, barrier
<1>5. /\ h.popped[p] = IF registered[v] = <<>> THEN h.popped[p-1]
                       ELSE [h.popped[p-1] EXCEPT ![v] = @ + 1]
      /\ y = AfterPop(x, v, Len(registered[v]) - h.popped[p][v])
      /\ AfterPops(h, p) /\ AfterPops(h, p-1) /\ AfterPops(h, 0)
      /\ h.popped[p] \in [Variables -> Nat] /\ h.popped[p-1] \in [Variables -> Nat]
  BY <1>1, RemovalRun
<1>6. h.n \in Nat /\ p \in Nat /\ (p + 1) - 1 = p /\ (\A k : k \in 1 .. p <=> k = p \/ k \in 1 .. p-1)
  BY <1>1, PlacesInBarriers
<1>t. /\ registered \in [Variables -> Seq(Sizes)] /\ localsToRemove \in [Procs -> Seq(Addresses)]
      /\ removedGlobals \in [Procs -> Seq(Numbers)] /\ localC \in [Procs -> Nat]
      /\ table \in [Numbers -> [Procs -> Seq(Request)]]
  BY TypesOfState DEF RequestsInv
<1>7. /\ Holds(s, x, ListsAfterPops(h, p-1)) /\ ToDrop(h, s, p) /\ Exhausted(h, s, p)
  BY <1>1 DEF First
<1>8. Sensible(h.dereg[0]) /\ Sensible(x) /\ x.num[v] \in {None, g}
      /\ (\A w \in Variables : x.num[w] \in {None, h.dereg[0].num[w]})
      /\ h.dereg[0].num \in [Variables -> Numbers \cup {None}]
      /\ x.num \in [Variables -> Numbers \cup {None}]
  BY <1>1, <1>5 DEF AfterPops, Sensible, Numbering
<1>9. ListsAfterPops(h, p)' = ListsAfterPops(h, p)
  BY <1>4, ListsRest
<1>10. \A w \in Variables \ {v} : ListsAfterPops(h, p)[w] = ListsAfterPops(h, p-1)[w]
  BY <1>1, <1>5 DEF ListsAfterPops
<1> HIDE DEF v, g, x, y, q
<1>11. CASE g = None
  <2>1. UNCHANGED <<localsToRemove, removedGlobals, localC, table>>
    BY <1>3, <1>11
  <2>2. registered[v] = <<>>
    <3>1. h.popped[0][v] = 0
      BY <1>1 DEF InStep, History, Dropping
    <3>2. ~ (0 < Len(registered[v]))
      BY <1>1, <1>2, <1>5, <1>11, <3>1 DEF AfterPops, g
    <3>3. registered[v] \in Seq(Sizes) /\ Len(registered[v]) \in Nat
      BY <1>1, <1>t, LenProperties
    <3> QED BY <3>2, <3>3, EmptySeq
  <2>3. x.num[v] = None
    BY <1>8, <1>11
  <2>4. y = x
    BY <1>5, <2>3 DEF AfterPop
  <2>5. h.popped[p] = h.popped[p-1]
    BY <1>5, <2>2
  <2>6. ListsAfterPops(h, p) = ListsAfterPops(h, p-1)
    BY <2>5 DEF ListsAfterPops
  <2>7. Holds(s, y, ListsAfterPops(h, p))'
    BY <1>7, <1>9, <2>1, <2>4, <2>6 DEF Holds, Lists
  <2>8. ToDrop(h, s, p+1)'
    BY <1>6, <1>7, <2>1 DEF ToDrop
  <2>9. Exhausted(h, s, p+1)'
    <3>1. \A w \in Variables : localsToRemove[s][p] = w => w = v
      BY <1>2, NullAssumption
    <3> QED BY <1>6, <1>7, <2>1, <2>3, <2>4, <3>1 DEF Exhausted, x, y
  <2>10. Somewhere(h, s)'
    BY <1>i, <1>1, <1>4, <2>7, <2>8, <2>9, NextRemoval DEF y
  <2> QED BY <1>4, <2>10, StepKeeps
<1>12. CASE g # None
  <2>1. /\ q # <<>> /\ table' = [table EXCEPT ![g][s] = Pop(q)]
        /\ IF table'[g][s] = <<>>
             THEN FreeNumber(s, g) /\ UNCHANGED localsToRemove
             ELSE KeepInMap(s) /\ UNCHANGED <<removedGlobals, localC>>
    BY <1>3, <1>12 DEF q
  <2>2. g \in Numbers
    BY <1>1, <1>8, <1>12 DEF g
  <2>3. \A w \in Variables \ {v} : x.num[w] # g
    <3>1. \A w \in Variables \ {v} : h.dereg[0].num[w] # g
      BY <1>1, <1>8, <1>12 DEF Sensible, NumbersDiffer, g
    <3> QED BY <1>8, <1>12, <3>1
  <2>4. x.num[v] = g
    <3>1. x.num[v] = None => \A w \in Variables : x.num[w] # g
      BY <1>12, <2>3
    <3> QED BY <1>7, <1>8, <2>1, <2>2, <3>1 DEF Holds, q
  <2> DEFINE r == registered[v]
             k == h.popped[p-1][v]
  <2>5. Lists(q, v, s, SubSeq(r, 1, Len(r) - k))
    <3>1. ListsAfterPops(h, p-1)[v] = SubSeq(r, 1, Len(r) - k)
      BY <1>1 DEF ListsAfterPops
    <3> QED BY <1>1, <1>7, <2>2, <2>4, <3>1 DEF Holds, q
  <2>6. k \in Nat /\ k < Len(r) /\ r \in Seq(Sizes) /\ Len(r) \in Nat
    <3>1. r \in Seq(Sizes)
      BY <1>1, <1>t
    <3> QED BY <1>1, <1>5, <1>12, <2>4, <3>1, LenProperties DEF AfterPops, x
  <2>7. h.popped[p][v] = k + 1
    <3>1. r # <<>>
      BY <2>6, LengthOfStack
    <3> QED BY <1>1, <1>5, <3>1
  <2>8. ListsAfterPops(h, p)[v] = SubSeq(r, 1, Len(r) - (k + 1))
    BY <1>1, <2>7 DEF ListsAfterPops
  <2> HIDE DEF r, k
  <2>9. /\ q \in Seq(Request) /\ Lists(Pop(q), v, s, ListsAfterPops(h, p)[v])
        /\ Len(Pop(q)) = Len(r) - (k + 1)
    <3>1. /\ SubSeq(r, 1, Len(r) - k) \in Seq(Sizes) /\ Len(SubSeq(r, 1, Len(r) - k)) = Len(r) - k
          /\ Pop(SubSeq(r, 1, Len(r) - k)) = SubSeq(r, 1, Len(r) - (k + 1))
      BY <2>6, PopOfSubSeq
    <3>2. q \in Seq(Request)
      BY <1>t, <2>2 DEF q
    <3>3. Lists(Pop(q), v, s, SubSeq(r, 1, Len(r) - (k + 1)))
      BY <1>1, <2>1, <2>5, <3>1, <3>2, OneListShorter
    <3>4. Len(Pop(q)) = Len(q) - 1 /\ Len(q) = Len(r) - k /\ Len(q) \in Nat
      BY <2>1, <2>5, <3>1, <3>2, PopFromStack DEF Lists
    <3> QED BY <2>6, <2>8, <3>2, <3>3, <3>4
  <2>10. \A j \in Numbers : table'[j][s] = IF j = g THEN Pop(q) ELSE table[j][s]
    BY <1>t, <2>1, <2>2
  <2>11. Pop(q) = <<>> <=> Len(r) - (k + 1) = 0
    <3>1. Pop(q) \in Seq(Request)
      BY <2>1, <2>9, PopFromStack
    <3> QED BY <2>9, <3>1, LengthOfStack
  <2>12. CASE Pop(q) = <<>>
    <3>1. FreeNumber(s, g) /\ UNCHANGED localsToRemove
      BY <2>1, <2>2, <2>10, <2>12
    <3>2. y = Released(x, v)
      BY <1>5, <1>12, <2>4, <2>6, <2>7, <2>11, <2>12 DEF AfterPop, r
    <3>3. y.num[v] = None /\ \A w \in Variables \ {v} : y.num[w] = x.num[w]
      BY <1>1, <1>8, <1>12, <2>4, <3>2, ReleasedIs
    <3>4. localC'[s] = y.next /\ removedGlobals'[s] = y.freed
      <4>1. localC[s] = x.next /\ removedGlobals[s] = x.freed
        BY <1>7 DEF Holds
      <4>2. /\ y.freed = IF x.next = g + 1 THEN x.freed ELSE Append(x.freed, g)
            /\ y.next = IF x.next = g + 1 THEN x.next - 1 ELSE x.next
        BY <2>4, <3>2 DEF Released
      <4>3. CASE localC[s] = g + 1
        <5>1. localC' = [localC EXCEPT ![s] = @ - 1] /\ removedGlobals' = removedGlobals
          BY <3>1, <4>3 DEF FreeNumber
        <5>2. localC'[s] = localC[s] - 1
          BY <1>t, <5>1
        <5> QED BY <4>1, <4>2, <4>3, <5>1, <5>2
      <4>4. CASE localC[s] # g + 1
        <5>1. localC' = localC /\ removedGlobals' = [removedGlobals EXCEPT ![s] = Append(@, g)]
          BY <3>1, <4>4 DEF FreeNumber
        <5>2. removedGlobals'[s] = Append(removedGlobals[s], g)
          BY <1>t, <5>1
        <5> QED BY <4>1, <4>2, <4>4, <5>1, <5>2
      <4> QED BY <4>3, <4>4
    <3>5. Holds(s, y, ListsAfterPops(h, p))'
      <4> SUFFICES /\ \A j \in Numbers : (\A w \in Variables : y.num[w] # j) => table'[j][s] = <<>>
                   /\ \A j \in Numbers : \A w \in Variables : y.num[w] = j =>
                        Lists(table'[j][s], w, s, ListsAfterPops(h, p)[w])
        BY <1>9, <3>4 DEF Holds, Lists
      <4>1. ASSUME NEW j \in Numbers, \A w \in Variables : y.num[w] # j
            PROVE  table'[j][s] = <<>>
        <5>1. CASE j = g
          BY <2>10, <2>12, <5>1
        <5>2. CASE j # g
          <6>1. \A w \in Variables : x.num[w] # j
            BY <2>4, <3>3, <4>1, <5>2
          <6> QED BY <1>7, <2>10, <5>2, <6>1 DEF Holds
        <5> QED BY <5>1, <5>2
      <4>2. ASSUME NEW j \in Numbers, NEW w \in Variables, y.num[w] = j
            PROVE  Lists(table'[j][s], w, s, ListsAfterPops(h, p)[w])
        <5>1. w # v /\ x.num[w] = j
          BY <3>3, <4>2, NoneAssumption
        <5>2. j # g
          BY <2>3, <5>1
        <5> QED BY <1>7, <1>10, <2>10, <5>1, <5>2 DEF Holds
      <4> QED BY <4>1, <4>2
    <3>6. ToDrop(h, s, p+1)'
      BY <1>6, <1>7, <3>1 DEF ToDrop
    <3>7. Exhausted(h, s, p+1)'
      <4> SUFFICES ASSUME NEW w \in Variables, Held(w, s)
                   PROVE  /\ \A l \in 1 .. p : localsToRemove[s][l] = w => y.num[w] = None
                          /\ h.dereg[0].num[w] # None /\ y.num[w] = None =>
                               \E l \in 1 .. p : localsToRemove[s][l] = w
        BY <1>6, <3>1 DEF Exhausted, y
      <4>1. CASE w = v
        BY <1>2, <1>6, <3>3, <4>1
      <4>2. CASE w # v
        BY <1>2, <1>6, <1>7, <3>3, <4>2, NullAssumption DEF Exhausted, x
      <4> QED BY <4>1, <4>2
    <3>8. Somewhere(h, s)'
      BY <1>i, <1>1, <1>4, <3>5, <3>6, <3>7, NextRemoval DEF y
    <3> QED BY <1>4, <3>8, StepKeeps
  <2>13. CASE Pop(q) # <<>>
    <3>1. KeepInMap(s) /\ UNCHANGED <<removedGlobals, localC>>
      BY <2>1, <2>2, <2>10, <2>13
    <3>2. Len(r) - (k + 1) > 0
      BY <2>6, <2>11, <2>13
    <3>3. y = x
      BY <1>5, <2>7, <3>2 DEF AfterPop, r
    <3>4. Holds(s, y, ListsAfterPops(h, p))'
      <4> SUFFICES /\ \A j \in Numbers : (\A w \in Variables : x.num[w] # j) => table'[j][s] = <<>>
                   /\ \A j \in Numbers : \A w \in Variables : x.num[w] = j =>
                        Lists(table'[j][s], w, s, ListsAfterPops(h, p)[w])
        <5>1. localC'[s] = y.next /\ removedGlobals'[s] = y.freed
          BY <1>7, <3>1, <3>3 DEF Holds
        <5> QED BY <1>9, <3>3, <5>1 DEF Holds, Lists
      <4>1. ASSUME NEW j \in Numbers, \A w \in Variables : x.num[w] # j
            PROVE  table'[j][s] = <<>>
        BY <1>1, <1>7, <2>4, <2>10, <4>1 DEF Holds
      <4>2. ASSUME NEW j \in Numbers, NEW w \in Variables, x.num[w] = j
            PROVE  Lists(table'[j][s], w, s, ListsAfterPops(h, p)[w])
        <5>1. CASE w = v
          BY <2>4, <2>9, <2>10, <4>2, <5>1
        <5>2. CASE w # v
          BY <1>7, <1>10, <2>3, <2>10, <4>2, <5>2 DEF Holds
        <5> QED BY <5>1, <5>2
      <4> QED BY <4>1, <4>2
    <3>5. /\ Len(localsToRemove'[s]) = Len(localsToRemove[s]) /\ localsToRemove'[s][p] = Null
          /\ \A l \in 1 .. h.n : l # p => localsToRemove'[s][l] = localsToRemove[s][l]
      <4>1. localsToRemove' = [localsToRemove EXCEPT ![s] = [localsToRemove[s] EXCEPT ![p] = Null]]
        BY <1>i, <3>1 DEF KeepInMap
      <4>2. localsToRemove'[s] = [localsToRemove[s] EXCEPT ![p] = Null]
        BY <1>t, <4>1
      <4>3. localsToRemove[s] \in Seq(Addresses) /\ Len(localsToRemove[s]) = h.n
        BY <1>t, <1>7 DEF ToDrop
      <4>4. p \in 1 .. Len(localsToRemove[s]) /\ Null \in Addresses
        BY <1>1, <4>3 DEF Addresses
      <4> QED BY <4>2, <4>3, <4>4, UpdateInStack
    <3>6. ~ HasNulls(v)
      <4> SUFFICES ASSUME HasNulls(v)
                   PROVE  FALSE
        OBVIOUS
      <4>1. CareTaken(h)
        BY DEF InStep, History
      <4>2. Len(registered[v]) + Len(added[v]) <= 1
        BY <1>1, <4>1 DEF CareTaken
      <4>3. Len(added[v]) \in Nat
        BY <1>1, TypesOfState, LenProperties DEF RequestsInv
      <4>4. Len(registered[v]) > 1 /\ Len(registered[v]) \in Nat
        BY <2>6, <3>2 DEF r
      <4>5. \A a, b \in Nat : a > 1 => ~ (a + b <= 1)
        OBVIOUS
      <4> QED BY <4>2, <4>3, <4>4, <4>5, Zenon
    <3>7. ToDrop(h, s, p+1)'
      <4>1. \A l \in 1 .. h.n : l < p => l < p + 1
        BY <1>6
      <4> QED BY <1>6, <1>7, <3>5, <3>6, <4>1 DEF ToDrop, v
    <3>8. Exhausted(h, s, p+1)'
      <4>1. \A l \in 1 .. p-1 : localsToRemove'[s][l] = localsToRemove[s][l]
        BY <1>1, <1>6, <3>5
      <4>2. \A w \in Variables : Held(w, s) =>
              /\ \A l \in 1 .. p-1 : localsToRemove'[s][l] = w => y.num[w] = None
              /\ h.dereg[0].num[w] # None /\ y.num[w] = None =>
                   \E l \in 1 .. p-1 : localsToRemove'[s][l] = w
        BY <1>7, <3>3, <4>1 DEF Exhausted, x
      <4>3. \A w \in Variables : localsToRemove'[s][p] # w
        BY <3>5, NullAssumption
      <4>4. \A l \in 1 .. p : l = p \/ l \in 1 .. p-1
        BY <1>6
      <4>5. \A l \in 1 .. p-1 : l \in 1 .. p
        BY <1>6
      <4>6. (p + 1) - 1 = p
        BY <1>6
      <4> HIDE DEF y
      <4> QED BY <4>2, <4>3, <4>4, <4>5, <4>6 DEF Exhausted, y
    <3>9. Somewhere(h, s)'
      BY <1>i, <1>1, <1>4, <3>4, <3>7, <3>8, NextRemoval DEF y
    <3> QED BY <1>4, <3>9, StepKeeps
  <2> QED BY <2>12, <2>13
<1> QED BY <1>11, <1>12

(* The numbers suffice for one more registration. *)
LEMMA NumbersLast ==
  ASSUME RequestsInv, NEW h, InStep(h), NEW p \in 1 .. h.m
  PROVE  h.reg[p-1].next \in Numbers
<1>1. /\ AfterPushes(h.reg, h.reg[0], p-1, h.pushed) /\ AfterPops(h, h.n) /\ AfterPops(h, 0)
      /\ h.reg[0] = h.dereg[h.n]
  BY RegistrationRun
<1>2. /\ h.reg[p-1].next \in Nat /\ h.dereg[h.n].next \in Nat /\ h.dereg[0].next \in Nat
      /\ h.reg[p-1].next <= h.dereg[h.n].next + (p - 1)
      /\ h.dereg[h.n].next <= h.dereg[0].next
  BY <1>1 DEF AfterPushes, AfterPops, Sensible, Numbering
<1>3. h.dereg[0].next + h.m <= actions /\ actions \in 0 .. MaxActions /\ h.m \in Nat
  BY TypesOfState, PlacesInBarriers, ConstantFacts DEF InStep, History, RequestsInv
<1> QED BY <1>2, <1>3, ConstantFacts DEF Numbers

(* The number found for a registration. *)
LEMMA KnownNumber ==
  ASSUME RequestsInv, NEW h, InStep(h), NEW s \in Procs, Register(s),
         NEW p, p = i[s], NEW v, v = h.pushes[p].of
  PROVE  /\ NumberKnown(s) = h.reg[p-1].num[v]
         /\ ~ AllNull(v)
         /\ HasNulls(v) => p = 1 /\ h.reg[p-1].num[v] = None
         /\ Held(v, s) /\ h.reg[p-1].num[v] = None =>
              /\ local2global[s][v] = None /\ h.reg[0].num[v] = None
              /\ \A k \in 1 .. p-1 : localsToPush[s][k].address # v
<1> DEFINE x == h.reg[p-1]
           a == ToPush(s).address
<1>0. Registering(s) /\ (a # Null \/ new_addresses[s][Null] # None \/ found[s])
  BY DEF Register
<1>1. /\ Second(h, s, p) /\ p \in 1 .. h.m /\ v \in Variables
      /\ localsToRemove[s] = <<>>
      /\ a = Address(v, s)
      /\ \A t \in Procs : ~ Held(v, s) => localsToPush[t][p].address = Address(v, t)
  BY <1>0, RegistrationAt
<1>2. p \in Nat /\ p <= h.m /\ p > 0 /\ h.m \in Nat
  BY <1>1, PlacesInBarriers
<1>3. Seeking(s, v) /\ NewNumbers(h, s, p) /\ MapLacks(s, p-1, x)
  BY <1>1, <1>2 DEF Second, Remaining
<1>4. /\ AfterPushes(h.reg, h.reg[0], p-1, h.pushed) /\ AfterPops(h, 0) /\ AfterPops(h, h.n)
      /\ h.reg[0] = h.dereg[h.n]
  BY <1>1, RegistrationRun
<1>5. h.reg[0].num[v] # None => x.num[v] = h.reg[0].num[v]
  BY <1>1, <1>4 DEF AfterPushes
<1>6. HasNulls(v) => p = 1 /\ h.dereg[0].num[v] = None /\ x.num[v] = None
  <2> SUFFICES ASSUME HasNulls(v)
               PROVE  p = 1 /\ h.dereg[0].num[v] = None /\ x.num[v] = None
    OBVIOUS
  <2>1. CareTaken(h)
    BY DEF InStep, History
  <2>2. p = 1 /\ registered[v] = <<>>
    BY <1>1, <2>1 DEF CareTaken
  <2>3. h.popped[0][v] = 0 /\ Len(registered[v]) = 0
    BY <1>1, <2>2, EmptySeq DEF InStep, History, Dropping
  <2>4. h.dereg[0].num[v] = None
    BY <1>1, <1>4, <2>3 DEF AfterPops
  <2>5. h.dereg[h.n].num[v] = None
    BY <1>1, <1>4, <2>4 DEF AfterPops
  <2> QED BY <1>4, <2>2, <2>4, <2>5
<1>7. CASE Held(v, s)
  <2>1. a = v /\ ~ AllNull(v) /\ v # Null
    BY <1>1, <1>7, Addressing
  <2>2. /\ new_addresses[s][v] = IF h.reg[0].num[v] = None THEN x.num[v] ELSE None
        /\ \A k \in 1 .. p-1 : localsToPush[s][k].address = v => h.reg[0].num[v] = None
    BY <1>1, <1>3, <1>7 DEF NewNumbers
  <2>3. IF \E k \in 1 .. p-1 : localsToPush[s][k].address = v
          THEN local2global[s][v] = None /\ x.num[v] # None
          ELSE local2global[s][v] = x.num[v]
    <3>1. Len(localsToRemove[s]) = 0
      BY <1>1, EmptySeq
    <3> QED BY <1>1, <1>3, <1>7, <3>1 DEF MapLacks
  <2>4. NumberKnown(s) = IF new_addresses[s][v] # None THEN new_addresses[s][v]
                         ELSE local2global[s][v]
    BY <2>1 DEF NumberKnown
  <2>5. NumberKnown(s) = x.num[v]
    BY <1>5, <2>2, <2>3, <2>4
  <2> QED BY <1>5, <1>6, <2>1, <2>3, <2>5
<1>8. CASE ~ Held(v, s)
  <2>1. a = Null /\ HasNulls(v)
    BY <1>1, <1>8, Addressing
  <2>2. p = 1 /\ h.dereg[0].num[v] = None /\ x.num[v] = None
    BY <1>6, <2>1
  <2>3. new_addresses[s][Null] = None
    BY <1>1, <2>2 DEF Second, Empty
  <2>4. other[s] \in Procs /\ Held(v, other[s])
    BY <1>0, <1>3, <2>1, <2>3 DEF Seeking
  <2>5. localsToPush[other[s]][p].address = v /\ ~ AllNull(v)
    BY <1>1, <1>8, <2>4, Addressing
  <2>6. local2global[other[s]][v] = None
    <3>1. Unnamed(h, other[s])
      BY <1>0, <2>4, BesidesRegistration DEF Registering
    <3> QED BY <1>1, <2>2, <2>4, <3>1 DEF Unnamed
  <2>7. NumberKnown(s) = local2global[other[s]][localsToPush[other[s]][i[s]].address]
    BY <2>1, <2>3 DEF NumberKnown
  <2> QED BY <1>8, <2>1, <2>2, <2>5, <2>6, <2>7
<1> QED BY <1>7, <1>8

(* Pushing a registration on a stack of the table appends its size to the
   list. *)
LEMMA OneListLonger ==
  ASSUME NEW v \in Variables, NEW s \in Procs, NEW q \in Seq(Request), NEW l \in Seq(Sizes),
         Lists(q, v, s, l), NEW e \in Request, e.address = Address(v, s), e.size \in Sizes
  PROVE  Lists(Append(q, e), v, s, Append(l, e.size))
<1>1. Len(q) = Len(l) /\ \A j \in 1 .. Len(l) : q[j] = [address |-> Address(v, s), size |-> l[j]]
  BY DEF Lists
<1>2. Len(q) \in Nat /\ Len(Append(q, e)) = Len(q) + 1 /\ Len(Append(l, e.size)) = Len(l) + 1
  BY PushOnStack
<1>3. /\ \A j \in 1 .. Len(q) : Append(q, e)[j] = q[j]
      /\ Append(q, e)[Len(q) + 1] = e
  BY AppendElements
<1>4. /\ \A j \in 1 .. Len(l) : Append(l, e.size)[j] = l[j]
      /\ Append(l, e.size)[Len(l) + 1] = e.size
  BY AppendElements
<1>5. e = [address |-> Address(v, s), size |-> e.size]
  BY DEF Request
<1>6. \A j \in 1 .. Len(q) + 1 : j = Len(q) + 1 \/ j \in 1 .. Len(q)
  BY <1>2
<1> QED BY <1>1, <1>2, <1>3, <1>4, <1>5, <1>6 DEF Lists

(* Appending to the second of two lists is appending to both. *)
LEMMA ConcatAppend ==
  ASSUME NEW S, NEW q \in Seq(S), NEW l \in Seq(S), NEW e \in S
  PROVE  q \o Append(l, e) = Append(q \o l, e)
<1>1. <<e>> \in Seq(S) /\ Append(l, e) = l \o <<e>> /\ q \o l \in Seq(S)
  BY AppendIsConcat, ConcatProperties
<1>2. Append(q \o l, e) = (q \o l) \o <<e>>
  BY <1>1, AppendIsConcat
<1>3. q \o (l \o <<e>>) = (q \o l) \o <<e>>
  BY <1>1, ConcatAssociative
<1> QED BY <1>1, <1>2, <1>3

(* One more registration in the list of a variable. *)
LEMMA ListsGrow ==
  ASSUME RequestsInv, NEW h, InStep(h), NEW p \in 1 .. h.m, NEW v, v = h.pushes[p].of
  PROVE  /\ \A w \in Variables : ListsAfterPushes(h, p-1)[w] \in Seq(Sizes)
         /\ ListsAfterPushes(h, p)[v] = Append(ListsAfterPushes(h, p-1)[v], h.pushes[p].size)
         /\ \A w \in Variables \ {v} : ListsAfterPushes(h, p)[w] = ListsAfterPushes(h, p-1)[w]
<1>1. /\ h.pushes[p].size \in Sizes /\ v \in Variables
      /\ h.pushed[p] = [h.pushed[p-1] EXCEPT ![v] = Append(@, h.pushes[p].size)]
      /\ h.pushed[p-1] \in [Variables -> Seq(Sizes)]
  BY RegistrationRun
<1>2. registered \in [Variables -> Seq(Sizes)] /\ dropped \in [Variables -> Nat]
  BY TypesOfState DEF RequestsInv
<1>3. ASSUME NEW w \in Variables
      PROVE  SubSeq(registered[w], 1, Len(registered[w]) - dropped[w]) \in Seq(Sizes)
  <2>1. registered[w] \in Seq(Sizes) /\ Len(registered[w]) \in Nat /\ dropped[w] \in Nat
    BY <1>2, LenProperties
  <2>2. \A j \in 1 .. Len(registered[w]) - dropped[w] : registered[w][j] \in Sizes
    BY <2>1, ElementOfSeq
  <2> QED BY <2>1, <2>2, SubSeqProperties
<1>4. \A w \in Variables :
        ListsAfterPushes(h, p-1)[w] = SubSeq(registered[w], 1, Len(registered[w]) - dropped[w]) \o h.pushed[p-1][w]
  BY DEF ListsAfterPushes
<1>5. \A w \in Variables : ListsAfterPushes(h, p-1)[w] \in Seq(Sizes)
  <2> SUFFICES ASSUME NEW w \in Variables
               PROVE  ListsAfterPushes(h, p-1)[w] \in Seq(Sizes)
    OBVIOUS
  <2> DEFINE A == SubSeq(registered[w], 1, Len(registered[w]) - dropped[w])
  <2>1. A \in Seq(Sizes) /\ h.pushed[p-1][w] \in Seq(Sizes)
    BY <1>1, <1>3
  <2>2. ListsAfterPushes(h, p-1)[w] = A \o h.pushed[p-1][w]
    BY <1>4
  <2> HIDE DEF A
  <2>3. A \o h.pushed[p-1][w] \in Seq(Sizes)
    BY <2>1, ConcatProperties
  <2> QED BY <2>2, <2>3
<1>6. ListsAfterPushes(h, p)[v] =
        SubSeq(registered[v], 1, Len(registered[v]) - dropped[v]) \o Append(h.pushed[p-1][v], h.pushes[p].size)
  BY <1>1 DEF ListsAfterPushes
<1>7. ListsAfterPushes(h, p)[v] = Append(ListsAfterPushes(h, p-1)[v], h.pushes[p].size)
  <2>1. h.pushed[p-1][v] \in Seq(Sizes)
    BY <1>1
  <2> DEFINE A == SubSeq(registered[v], 1, Len(registered[v]) - dropped[v])
  <2>2. /\ A \in Seq(Sizes)
        /\ ListsAfterPushes(h, p-1)[v] = A \o h.pushed[p-1][v]
        /\ ListsAfterPushes(h, p)[v] = A \o Append(h.pushed[p-1][v], h.pushes[p].size)
    BY <1>1, <1>3, <1>4, <1>6
  <2> HIDE DEF A
  <2>3. A \o Append(h.pushed[p-1][v], h.pushes[p].size) = Append(A \o h.pushed[p-1][v], h.pushes[p].size)
    <3> DEFINE B == h.pushed[p-1][v]
               e == h.pushes[p].size
    <3>1. B \in Seq(Sizes) /\ e \in Sizes
      BY <1>1, <2>1
    <3> HIDE DEF B, e
    <3>2. A \in Seq(Sizes)
      BY <2>2
    <3>3. A \o Append(B, e) = Append(A \o B, e)
      BY ONLY <3>1, <3>2, ConcatAppend
    <3> QED BY <3>3 DEF B, e
  <2> QED BY <2>2, <2>3
<1>8. \A w \in Variables \ {v} : ListsAfterPushes(h, p)[w] = ListsAfterPushes(h, p-1)[w]
  BY <1>1 DEF ListsAfterPushes
<1> QED BY <1>5, <1>7, <1>8

(* A variable without a number has no registrations. *)
LEMMA NothingUnnumbered ==
  ASSUME RequestsInv, NEW h, InStep(h), NEW p \in 1 .. h.m, NEW v \in Variables, ~ AllNull(v),
         h.reg[p-1].num[v] = None
  PROVE  ListsAfterPushes(h, p-1)[v] = <<>>
<1>1. /\ AfterPushes(h.reg, h.reg[0], p-1, h.pushed) /\ AfterPops(h, h.n)
      /\ h.reg[0] = h.dereg[h.n]
  BY RegistrationRun
<1>2. h.reg[0].num[v] = None /\ h.pushed[p-1][v] = <<>>
  BY <1>1 DEF AfterPushes
<1>3. ~ (h.popped[h.n][v] < Len(registered[v]))
  BY <1>1, <1>2 DEF AfterPops
<1>4. h.popped[h.n] = dropped
  BY DEF InStep, History
<1>5. registered[v] \in Seq(Sizes) /\ dropped[v] \in Nat /\ Len(registered[v]) \in Nat
  BY TypesOfState, LenProperties DEF RequestsInv
<1>6. Len(registered[v]) - dropped[v] < 1 /\ Len(registered[v]) - dropped[v] \in Int
  BY <1>3, <1>4, <1>5
<1>7. SubSeq(registered[v], 1, Len(registered[v]) - dropped[v]) = <<>>
  BY <1>5, <1>6, SubSeqEmpty
<1>8. ListsAfterPushes(h, p-1)[v] = <<>> \o <<>>
  BY <1>2, <1>7 DEF ListsAfterPushes
<1> QED BY <1>8, EmptySeq, ConcatEmptySeq

(* Numbering y has one number that x does not have. *)
OneMore(x, y, v, g) == y.num[v] = g /\ \A w \in Variables \ {v} : y.num[w] = x.num[w]

(* The first p - 1 registrations have addresses, and the p-th is the first
   of variable v; or p is 1 and v is NULL. *)
FirstOf(s, p, v) ==
  /\ \A k \in 1 .. p-1 : localsToPush[s][k].address \in Addresses
  /\ \/ localsToPush[s][p].address = Null /\ p = 1 /\ ~ Held(v, s)
     \/ /\ localsToPush[s][p].address = v /\ local2global[s][v] = None
        /\ \A k \in 1 .. p-1 : localsToPush[s][k].address # v

(* A registration that takes a number puts it on the stack, and has it to
   itself unless it is the first. *)
LEMMA RemainingIfTaken ==
  ASSUME NEW s \in Procs, NEW p \in Nat \ {0}, NEW x, NEW y, NEW v \in Variables, NEW g,
         Remaining(s, p-1, x),
         globalsToPush[s] \in Seq(Numbers), g \in Numbers, g # None,
         globalsToPush'[s] = Append(globalsToPush[s], g),
         UNCHANGED localsToPush, UNCHANGED localsToRemove, UNCHANGED local2global,
         OneMore(x, y, v, g), FirstOf(s, p, v)
  PROVE  Remaining(s, p, y)'
<1>o. y.num[v] = g /\ \A w \in Variables \ {v} : y.num[w] = x.num[w]
  BY DEF OneMore
<1>f. /\ \A k \in 1 .. p-1 : localsToPush[s][k].address \in Addresses
      /\ \/ localsToPush[s][p].address = Null /\ p = 1 /\ ~ Held(v, s)
         \/ /\ localsToPush[s][p].address = v /\ local2global[s][v] = None
            /\ \A k \in 1 .. p-1 : localsToPush[s][k].address # v
  BY DEF FirstOf
<1> USE <1>o, <1>f
<1> DEFINE q == localsToPush[s]
           r == globalsToPush[s]
<1>1. PICK f : Matched(s, p-1, x, f)
  BY DEF Remaining
<1>2. /\ f[p-1] = Len(r)
      /\ \A k \in 0 .. p-1 : f[k] \in Nat /\ \A l \in k .. p-1 : f[k] <= f[l]
      /\ \A k \in 1 .. p-1 :
           IF q[k].address = Null THEN f[k] = f[k-1]
           ELSE f[k] = f[k-1] + 1 /\ r[f[k]] = x.num[q[k].address]
  BY <1>1 DEF Matched
<1> DEFINE z == globalsToPush'[s]
<1>3. /\ Len(r) \in Nat /\ Len(z) = Len(r) + 1
      /\ \A j \in 1 .. Len(r) : z[j] = r[j]
      /\ z[Len(r) + 1] = g
  BY PushOnStack, AppendElements
<1>4. \A k : k \in 1 .. p <=> k = p \/ k \in 1 .. p-1
  OBVIOUS
<1>5. CASE q[p].address = Null
  <2>1. p = 1 /\ ~ Held(v, s)
    BY <1>5, NullAssumption
  <2>e. PICK e : e = [k \in 0 .. 1 |-> Len(r) + 1]
    OBVIOUS
  <2>2. e[0] = Len(r) + 1 /\ e[1] = Len(r) + 1 /\ \A k \in 0 .. 1 : e[k] = Len(r) + 1
    BY <2>e
  <2>3. Matched(s, p, y, e)'
    <3>1. \A k \in 0 .. 1 : e[k] \in Nat /\ \A l \in k .. 1 : e[k] <= e[l]
      <4>1. \A k \in 0 .. 1 : \A l \in k .. 1 : l \in 0 .. 1
        OBVIOUS
      <4> QED BY <1>3, <2>2, <4>1
    <3>2. \A k \in 1 .. 1 : k = 1
      OBVIOUS
    <3>3. e[1] = e[1-1]
      BY <2>2
    <3>4. e[1] = Len(z)
      BY <1>3, <2>2
    <3>5. \A k \in 1 .. 1 :
            IF localsToPush'[s][k].address = Null THEN e[k] = e[k-1]
            ELSE e[k] = e[k-1] + 1 /\ globalsToPush'[s][e[k]] = y.num[localsToPush'[s][k].address]
      BY <1>5, <2>1, <3>2, <3>3
    <3>6. Matched(s, 1, y, e)'
      BY <3>1, <3>4, <3>5, Zenon DEF Matched
    <3> QED BY <2>1, <3>6
  <2>4. AtMostOnce(s, p)'
    <3>1. \A k, l \in 1 .. 1 : k = l
      OBVIOUS
    <3> QED BY <2>1, <3>1 DEF AtMostOnce
  <2>5. MapLacks(s, p, y)'
    <3>1. MapLacks(s, 0, x)
      BY <2>1 DEF Remaining
    <3>2. \A k \in 1 .. 1 : k = 1
      OBVIOUS
    <3> QED BY <1>5, <2>1, <3>1, <3>2, NullAssumption DEF MapLacks
  <2> QED BY <2>3, <2>4, <2>5 DEF Remaining
<1>6. CASE q[p].address # Null
  <2>1. /\ q[p].address = v /\ local2global[s][v] = None
        /\ \A k \in 1 .. p-1 : q[k].address # v
    BY <1>6
  <2>e. PICK e : e = [k \in 0 .. p |-> IF k = p THEN Len(r) + 1 ELSE f[k]]
    OBVIOUS
  <2>2. e[p] = Len(r) + 1 /\ \A k \in 0 .. p-1 : e[k] = f[k]
    BY <2>e
  <2>3. Matched(s, p, y, e)'
    <3>0. /\ \A k \in 0 .. p : k = p \/ (k \in 0 .. p-1 /\ p - 1 \in k .. p-1)
          /\ \A k \in 0 .. p-1 : \A l \in k .. p : l = p \/ (l \in k .. p-1 /\ l \in 0 .. p-1)
          /\ p - 1 \in 0 .. p-1 /\ \A l \in p .. p : l = p
          /\ \A k \in 1 .. p-1 : k - 1 \in 0 .. p-1 /\ k \in 0 .. p-1
          /\ \A k \in 0 .. p-1 : p - 1 \in k .. p-1
      OBVIOUS
    <3>1. \A k \in 0 .. p : e[k] \in Nat /\ \A l \in k .. p : e[k] <= e[l]
      <4>1. e[p] \in Nat /\ \A l \in p .. p : e[p] <= e[l]
        BY <1>3, <2>2, <3>0
      <4>2. ASSUME NEW k \in 0 .. p-1
            PROVE  e[k] \in Nat /\ \A l \in k .. p : e[k] <= e[l]
        <5>1. e[k] = f[k] /\ f[k] \in Nat /\ f[k] <= Len(r)
          BY <1>2, <2>2, <3>0
        <5>2. e[k] <= e[p]
          BY <1>3, <2>2, <5>1
        <5>3. \A l \in k .. p-1 : e[k] <= e[l]
          BY <1>2, <2>2, <3>0
        <5> QED BY <3>0, <5>1, <5>2, <5>3
      <4> QED BY <3>0, <4>1, <4>2
    <3>2. e[p] = e[p-1] + 1 /\ z[e[p]] = y.num[q[p].address]
      BY <1>2, <1>3, <2>1, <2>2, <3>0
    <3>3. ASSUME NEW k \in 1 .. p-1
          PROVE  IF q[k].address = Null THEN e[k] = e[k-1]
                 ELSE e[k] = e[k-1] + 1 /\ z[e[k]] = y.num[q[k].address]
      <4>1. e[k] = f[k] /\ e[k-1] = f[k-1]
        BY <2>2, <3>0
      <4>2. CASE q[k].address = Null
        BY <1>2, <4>1, <4>2
      <4>3. CASE q[k].address # Null
        <5>1. f[k] = f[k-1] + 1 /\ r[f[k]] = x.num[q[k].address]
          BY <1>2, <4>3
        <5>2. f[k-1] \in Nat /\ f[k] <= f[p-1]
          BY <1>2, <3>0
        <5>3. f[k] \in 1 .. Len(r)
          BY <1>2, <1>3, <5>1, <5>2
        <5>4. q[k].address \in Variables \ {v}
          BY <2>1, <4>3 DEF Addresses
        <5> QED BY <1>3, <4>1, <4>3, <5>1, <5>3, <5>4
      <4> QED BY <4>2, <4>3
    <3>4. \A k \in 1 .. p :
            IF q[k].address = Null THEN e[k] = e[k-1]
            ELSE e[k] = e[k-1] + 1 /\ z[e[k]] = y.num[q[k].address]
      BY <1>4, <1>6, <3>2, <3>3
    <3>5. e[p] = Len(z)
      BY <1>3, <2>2
    <3>6. \A k \in 1 .. p :
            IF localsToPush'[s][k].address = Null THEN e[k] = e[k-1]
            ELSE e[k] = e[k-1] + 1 /\ globalsToPush'[s][e[k]] = y.num[localsToPush'[s][k].address]
      BY <3>4
    <3> QED BY <3>1, <3>5, <3>6, Zenon DEF Matched
  <2>4. AtMostOnce(s, p)'
    BY <1>4, <2>1 DEF Remaining, AtMostOnce
  <2>5. MapLacks(s, p, y)'
    <3>1. p \in 1 .. p
      OBVIOUS
    <3> QED BY <1>4, <2>1, <3>1 DEF Remaining, MapLacks
  <2> QED BY <2>3, <2>4, <2>5 DEF Remaining
<1> QED BY <1>5, <1>6

(* What a registration does, with a number and without. *)
LEMMA RegisterCases ==
  ASSUME NEW s \in Procs, Register(s)
  PROVE  /\ NumberKnown(s) = None =>
              /\ table' = [table EXCEPT ![NewNumber(s)][s] = Append(@, ToPush(s))]
              /\ TakeNumber(s, NewNumber(s))
         /\ NumberKnown(s) # None =>
              /\ table' = [table EXCEPT ![NumberKnown(s)][s] = Append(@, ToPush(s))]
              /\ localsToPush' = [localsToPush EXCEPT ![s][i[s]].address = Null]
              /\ UNCHANGED <<localC, removedGlobals, new_addresses, globalsToPush>>
<1>1. LET new == NumberKnown(s) = None
          g == IF new THEN NewNumber(s) ELSE NumberKnown(s)
      IN /\ table' = [table EXCEPT ![g][s] = Append(@, ToPush(s))]
         /\ IF new
              THEN TakeNumber(s, g)
              ELSE /\ localsToPush' = [localsToPush EXCEPT ![s][i[s]].address = Null]
                   /\ UNCHANGED <<localC, removedGlobals, new_addresses, globalsToPush>>
  BY DEF Register
<1> PICK k, n : k = NumberKnown(s) /\ n = NewNumber(s)
  OBVIOUS
<1> QED BY <1>1

(* A registration under the number that the variable has. *)
LEMMA RegisterAgain ==
  ASSUME RequestsInv, NEW h, InStep(h), NEW s \in Procs, Register(s),
         NEW p, p = i[s], h.reg[p-1].num[h.pushes[p].of] # None
  PROVE  Somewhere(h, s)'
<1>v. PICK v : v = h.pushes[p].of
  OBVIOUS
<1>x. PICK x : x = h.reg[p-1]
  OBVIOUS
<1>y. PICK y : y = h.reg[p]
  OBVIOUS
<1>g. PICK g : g = x.num[v]
  OBVIOUS
<1>q. PICK q : q = table[g][s]
  OBVIOUS
<1>l. PICK l : l = ListsAfterPushes(h, p-1)[v]
  OBVIOUS
<1>e. PICK e : e = localsToPush[s][p]
  OBVIOUS
<1> USE <1>v, <1>x, <1>y, <1>g
<1>0. Registering(s)
  BY DEF Register
<1>1. /\ Second(h, s, p) /\ p \in 1 .. h.m /\ v \in Variables
      /\ crossed[s] = 3 * h.sync + 2 /\ localsToRemove[s] = <<>>
      /\ h.pushes[p].size \in Sizes
      /\ e.address = Address(v, s) /\ e.size = h.pushes[p].size
  BY <1>0, <1>e, RegistrationAt DEF ToPush
<1>2. /\ UNCHANGED <<localsToRemove, local2global, calls, entered, crossed, history>>
      /\ NextRequest(s)
  BY DEF Register, barrier
<1>3. h.m \in Nat /\ p \in Nat \ {0} /\ (p + 1) - 1 = p /\ (\A k : k \in 1 .. p <=> k = p \/ k \in 1 .. p-1)
      /\ p <= h.m
  BY <1>1, PlacesInBarriers
<1>4. /\ table' = [table EXCEPT ![g][s] = Append(@, ToPush(s))]
      /\ localsToPush' = [localsToPush EXCEPT ![s][i[s]].address = Null]
      /\ UNCHANGED <<localC, removedGlobals, new_addresses, globalsToPush>>
  <2>1. g = NumberKnown(s)
    BY KnownNumber
  <2>2. g # None
    OBVIOUS
  <2> QED BY <2>1, <2>2, RegisterCases, Zenon
<1>5. AfterPushes(h.reg, h.reg[0], p-1, h.pushed) /\ y = AfterPush(x, v)
  <2>1. /\ AfterPushes(h.reg, h.reg[0], p-1, h.pushed)
        /\ h.reg[p] = AfterPush(h.reg[p-1], h.pushes[p].of)
    BY ONLY InStep(h), <1>1, RegistrationRun
  <2> QED BY <2>1
<1>6. y = x /\ x.num \in [Variables -> Numbers \cup {None}] /\ Sensible(x)
  BY <1>5 DEF AfterPush, AfterPushes, Sensible, Numbering
<1>7. g \in Numbers
  BY <1>1, <1>6
<1>t. /\ localsToPush \in [Procs -> Seq(Request)] /\ table \in [Numbers -> [Procs -> Seq(Request)]]
      /\ q \in Seq(Request) /\ localsToPush[s] \in Seq(Request)
  <2>1. localsToPush \in [Procs -> Seq(Request)] /\ table \in [Numbers -> [Procs -> Seq(Request)]]
    BY TypesOfState DEF RequestsInv
  <2> QED BY ONLY s \in Procs, <1>7, <1>q, <2>1
<1>8. Holds(s, x, ListsAfterPushes(h, p-1)) /\ Asked(h, s, p-1) /\ Remaining(s, p-1, x)
      /\ NewNumbers(h, s, p)
  BY <1>1 DEF Second
<1>9. Len(localsToPush[s]) = h.m /\ p \in 1 .. Len(localsToPush[s]) /\ e \in Request
  BY <1>1, <1>8, <1>e, <1>t, ElementOfSeq DEF Asked
<1>10. /\ l \in Seq(Sizes) /\ ListsAfterPushes(h, p)[v] = Append(l, e.size)
       /\ \A w \in Variables \ {v} : ListsAfterPushes(h, p)[w] = ListsAfterPushes(h, p-1)[w]
  <2>0. v = h.pushes[p].of
    OBVIOUS
  <2>1. /\ \A w \in Variables : ListsAfterPushes(h, p-1)[w] \in Seq(Sizes)
        /\ ListsAfterPushes(h, p)[v] = Append(l, h.pushes[p].size)
        /\ \A w \in Variables \ {v} : ListsAfterPushes(h, p)[w] = ListsAfterPushes(h, p-1)[w]
    <3>1. p \in 1 .. h.m
      BY <1>1
    <3>2. /\ \A w \in Variables : ListsAfterPushes(h, p-1)[w] \in Seq(Sizes)
          /\ ListsAfterPushes(h, p)[v] = Append(ListsAfterPushes(h, p-1)[v], h.pushes[p].size)
          /\ \A w \in Variables \ {v} : ListsAfterPushes(h, p)[w] = ListsAfterPushes(h, p-1)[w]
      BY ONLY RequestsInv, InStep(h), <3>1, <2>0, ListsGrow
    <3> QED BY ONLY <1>l, <3>2
  <2> QED BY <1>1, <1>l, <2>1
<1>11. ~ HasNulls(v)
  BY KnownNumber
<1>12. ListsAfterPushes(h, p)' = ListsAfterPushes(h, p)
  BY <1>2, ListsRest
<1>13. \A j \in Numbers : table'[j][s] = IF j = g THEN Append(q, e) ELSE table[j][s]
  BY <1>4, <1>7, <1>t, <1>e, <1>q DEF ToPush
<1>14. Lists(q, v, s, l)
  BY <1>1, <1>7, <1>8, <1>q, <1>l DEF Holds
<1>15. Lists(Append(q, e), v, s, ListsAfterPushes(h, p)[v])
  <2> QED BY <1>1, <1>9, <1>10, <1>14, <1>t, OneListLonger
<1>16. \A w \in Variables \ {v} : x.num[w] # g
  BY <1>1, <1>6 DEF Sensible, NumbersDiffer
<1>17. Holds(s, y, ListsAfterPushes(h, p))'
  <2> SUFFICES /\ \A j \in Numbers : (\A w \in Variables : x.num[w] # j) => table'[j][s] = <<>>
               /\ \A j \in Numbers : \A w \in Variables : x.num[w] = j =>
                    Lists(table'[j][s], w, s, ListsAfterPushes(h, p)[w])
    <3>1. localC'[s] = y.next /\ removedGlobals'[s] = y.freed
      BY <1>4, <1>6, <1>8 DEF Holds
    <3>2. localC'[s] = y.next /\ removedGlobals'[s] = y.freed /\ y.num = x.num
      BY <1>6, <3>1
    <3> QED
      BY ONLY <1>12, <3>2,
         \A j \in Numbers : (\A w \in Variables : x.num[w] # j) => table'[j][s] = <<>>,
         \A j \in Numbers : \A w \in Variables : x.num[w] = j =>
           Lists(table'[j][s], w, s, ListsAfterPushes(h, p)[w])
      DEF Holds, Lists
  <2>1. ASSUME NEW j \in Numbers, \A w \in Variables : x.num[w] # j
        PROVE  table'[j][s] = <<>>
    <3>1. table[j][s] = <<>>
      BY <1>8, <2>1 DEF Holds
    <3>2. j # g
      BY <1>1, <2>1
    <3> QED BY <1>13, <3>1, <3>2
  <2>2. ASSUME NEW j \in Numbers, NEW w \in Variables, x.num[w] = j
        PROVE  Lists(table'[j][s], w, s, ListsAfterPushes(h, p)[w])
    <3>1. CASE w = v
      BY <1>13, <1>15, <2>2, <3>1
    <3>2. CASE w # v
      <4>1. table'[j][s] = table[j][s]
        BY <1>13, <1>16, <2>2, <3>2
      <4>2. Lists(table[j][s], w, s, ListsAfterPushes(h, p-1)[w])
        BY ONLY <1>8, <2>2 DEF Holds
      <4>3. ListsAfterPushes(h, p)[w] = ListsAfterPushes(h, p-1)[w]
        BY <1>10, <3>2
      <4> QED BY ONLY <4>1, <4>2, <4>3
    <3> QED BY <3>1, <3>2
  <2> QED BY <2>1, <2>2
<1>18. /\ Len(localsToPush'[s]) = h.m
       /\ localsToPush'[s][p].address = Null /\ localsToPush'[s][p].size = e.size
       /\ \A k \in 1 .. h.m : k # p => localsToPush'[s][k] = localsToPush[s][k]
  <2> DEFINE d == [e EXCEPT !.address = Null]
  <2>1. localsToPush' = [localsToPush EXCEPT ![s] = [localsToPush[s] EXCEPT ![p] = d]]
    BY <1>4, <1>e
  <2>2. d \in Request /\ d.address = Null /\ d.size = e.size
    BY <1>9 DEF Request
  <2> HIDE DEF d
  <2>3. localsToPush'[s] = [localsToPush[s] EXCEPT ![p] = d]
    BY <1>t, <2>1
  <2>4. Len([localsToPush[s] EXCEPT ![p] = d]) = Len(localsToPush[s])
    BY <1>9, <1>t, <2>2, UpdateInStack
  <2>5. /\ [localsToPush[s] EXCEPT ![p] = d][p] = d
        /\ \A k \in 1 .. h.m : k # p => [localsToPush[s] EXCEPT ![p] = d][k] = localsToPush[s][k]
    BY <1>9, <1>t
  <2> QED BY <1>9, <2>2, <2>3, <2>4, <2>5
<1>19. Asked(h, s, p)'
  <2>1. \A k \in 1 .. h.m : k <= p - 1 => k <= p
    BY <1>3
  <2> SUFFICES ASSUME NEW k \in 1 .. h.m
               PROVE  /\ localsToPush'[s][k].size = h.pushes[k].size
                      /\ \/ localsToPush'[s][k].address = Address(h.pushes[k].of, s)
                         \/ localsToPush'[s][k].address = Null /\ ~ HasNulls(h.pushes[k].of) /\ k <= p
    BY <1>18 DEF Asked
  <2>2. CASE k = p
    BY <1>1, <1>3, <1>11, <1>18, <2>2
  <2>3. CASE k # p
    BY <1>8, <1>18, <2>1, <2>3 DEF Asked
  <2> QED BY <2>2, <2>3
<1>20. \A k \in 1 .. p-1 : localsToPush'[s][k] = localsToPush[s][k]
  <2>1. \A k \in 1 .. p-1 : k \in 1 .. h.m /\ k # p
    BY <1>1, <1>3
  <2> QED BY <1>18, <2>1
<1>21. Remaining(s, p, y)'
  BY <1>2, <1>3, <1>4, <1>6, <1>8, <1>18, <1>20, RemainingIfNull
<1>22. NewNumbers(h, s, p+1)'
  <2>2. \A w \in Variables : Held(w, s) =>
          /\ new_addresses[s][w] = IF h.reg[0].num[w] = None THEN x.num[w] ELSE None
          /\ \A k \in 1 .. p-1 : localsToPush[s][k].address = w => h.reg[0].num[w] = None
    BY <1>8 DEF NewNumbers
  <2>3. new_addresses'[s] = new_addresses[s]
    BY <1>4
  <2>4. \A w \in Variables : Held(w, s) =>
          /\ new_addresses'[s][w] = IF h.reg[0].num[w] = None THEN h.reg[p].num[w] ELSE None
          /\ \A k \in 1 .. p : localsToPush'[s][k].address = w => h.reg[0].num[w] = None
    <3>1. \A k \in 1 .. p : localsToPush'[s][k].address # Null => k \in 1 .. p-1 /\ localsToPush'[s][k] = localsToPush[s][k]
      BY <1>3, <1>18, <1>20
    <3> QED BY <1>6, <2>2, <2>3, <3>1, NullAssumption
  <2> QED BY <1>3, <2>4 DEF NewNumbers
<1> QED BY <1>1, <1>2, <1>17, <1>19, <1>21, <1>22, NextRegistration

(* A registration of a variable that has no number yet. *)
LEMMA RegisterNew ==
  ASSUME RequestsInv, NEW h, InStep(h), NEW s \in Procs, Register(s),
         NEW p, p = i[s], h.reg[p-1].num[h.pushes[p].of] = None
  PROVE  Somewhere(h, s)'
<1>v. PICK v : v = h.pushes[p].of
  OBVIOUS
<1>x. PICK x : x = h.reg[p-1]
  OBVIOUS
<1>y. PICK y : y = h.reg[p]
  OBVIOUS
<1>g. PICK g : g = NewNumber(s)
  OBVIOUS
<1>q. PICK q : q = table[g][s]
  OBVIOUS
<1>l. PICK l : l = ListsAfterPushes(h, p-1)[v]
  OBVIOUS
<1>e. PICK e : e = localsToPush[s][p]
  OBVIOUS
<1> USE <1>v, <1>x, <1>y, <1>g
<1>0. Registering(s)
  BY DEF Register
<1>1. /\ Second(h, s, p) /\ p \in 1 .. h.m /\ v \in Variables
      /\ crossed[s] = 3 * h.sync + 2 /\ localsToRemove[s] = <<>>
      /\ h.pushes[p].size \in Sizes
      /\ e.address = Address(v, s) /\ e.size = h.pushes[p].size
  BY <1>0, <1>e, RegistrationAt DEF ToPush
<1>2. /\ UNCHANGED <<localsToRemove, local2global, calls, entered, crossed, history>>
      /\ NextRequest(s)
  BY DEF Register, barrier
<1>3. h.m \in Nat /\ p \in Nat \ {0} /\ (p + 1) - 1 = p /\ (\A k : k \in 1 .. p <=> k = p \/ k \in 1 .. p-1)
      /\ p <= h.m
  BY <1>1, PlacesInBarriers
<1>4. /\ table' = [table EXCEPT ![g][s] = Append(@, ToPush(s))]
      /\ TakeNumber(s, g)
  <2>1. NumberKnown(s) = None
    BY KnownNumber
  <2> QED BY <2>1, RegisterCases, Zenon
<1>5. AfterPushes(h.reg, h.reg[0], p-1, h.pushed) /\ y = AfterPush(x, v)
  BY <1>1, RegistrationRun
<1>k. /\ ~ AllNull(v)
      /\ HasNulls(v) => p = 1
      /\ Held(v, s) =>
           /\ local2global[s][v] = None /\ h.reg[0].num[v] = None
           /\ \A k \in 1 .. p-1 : localsToPush[s][k].address # v
  BY KnownNumber
<1>8. Holds(s, x, ListsAfterPushes(h, p-1)) /\ Asked(h, s, p-1) /\ Remaining(s, p-1, x)
      /\ NewNumbers(h, s, p)
  BY <1>1 DEF Second
<1>6. y = Taken(x, v) /\ Sensible(x) /\ x.next \in Numbers /\ g = Chosen(x) /\ x.num[v] = None
  <2>1. Sensible(x)
    BY <1>5 DEF AfterPushes
  <2>2. y = Taken(x, v)
    BY <1>5, <1>k DEF AfterPush
  <2>3. x.next \in Numbers
    BY <1>1, NumbersLast
  <2>4. g = Chosen(x)
    BY <1>8 DEF Holds, NewNumber, Chosen
  <2> QED BY <2>1, <2>2, <2>3, <2>4
<1>7. /\ g \in Numbers /\ g # None
      /\ \A w \in Variables : x.num[w] # g
      /\ y.num[v] = g
      /\ \A w \in Variables \ {v} : y.num[w] = x.num[w]
  <2>1. v \in Variables
    BY <1>1
  <2> QED BY ONLY <1>6, <2>1, TakenIs
<1>t. /\ localsToPush \in [Procs -> Seq(Request)] /\ table \in [Numbers -> [Procs -> Seq(Request)]]
      /\ q \in Seq(Request) /\ localsToPush[s] \in Seq(Request)
      /\ localC \in [Procs -> Nat] /\ removedGlobals \in [Procs -> Seq(Numbers)]
      /\ new_addresses \in [Procs -> [Addresses -> Numbers \cup {None}]]
      /\ globalsToPush \in [Procs -> Seq(Numbers)]
  <2>1. /\ localsToPush \in [Procs -> Seq(Request)] /\ table \in [Numbers -> [Procs -> Seq(Request)]]
        /\ localC \in [Procs -> Nat] /\ removedGlobals \in [Procs -> Seq(Numbers)]
        /\ new_addresses \in [Procs -> [Addresses -> Numbers \cup {None}]]
        /\ globalsToPush \in [Procs -> Seq(Numbers)]
    BY TypesOfState DEF RequestsInv
  <2> QED BY ONLY s \in Procs, <1>7, <1>q, <2>1
<1>9. Len(localsToPush[s]) = h.m /\ p \in 1 .. Len(localsToPush[s]) /\ e \in Request
  BY <1>1, <1>8, <1>e, <1>t, ElementOfSeq DEF Asked
<1>10. /\ l \in Seq(Sizes) /\ ListsAfterPushes(h, p)[v] = Append(l, e.size)
       /\ \A w \in Variables \ {v} : ListsAfterPushes(h, p)[w] = ListsAfterPushes(h, p-1)[w]
  <2>0. v = h.pushes[p].of
    OBVIOUS
  <2>1. /\ \A w \in Variables : ListsAfterPushes(h, p-1)[w] \in Seq(Sizes)
        /\ ListsAfterPushes(h, p)[v] = Append(l, h.pushes[p].size)
        /\ \A w \in Variables \ {v} : ListsAfterPushes(h, p)[w] = ListsAfterPushes(h, p-1)[w]
    <3>1. p \in 1 .. h.m
      BY <1>1
    <3>2. /\ \A w \in Variables : ListsAfterPushes(h, p-1)[w] \in Seq(Sizes)
          /\ ListsAfterPushes(h, p)[v] = Append(ListsAfterPushes(h, p-1)[v], h.pushes[p].size)
          /\ \A w \in Variables \ {v} : ListsAfterPushes(h, p)[w] = ListsAfterPushes(h, p-1)[w]
      BY ONLY RequestsInv, InStep(h), <3>1, <2>0, ListsGrow
    <3> QED BY ONLY <1>l, <3>2
  <2> QED BY <1>1, <1>l, <2>1
<1>11. l = <<>> /\ q = <<>>
  <2>1. v = h.pushes[p].of
    OBVIOUS
  <2>2. l = <<>>
    BY ONLY RequestsInv, InStep(h), <1>1, <1>6, <1>k, <1>l, <1>x, NothingUnnumbered
  <2>3. q = <<>>
    BY <1>7, <1>8, <1>q DEF Holds
  <2> QED BY <2>2, <2>3
<1>12. ListsAfterPushes(h, p)' = ListsAfterPushes(h, p)
  BY <1>2, ListsRest
<1>13. \A j \in Numbers : table'[j][s] = IF j = g THEN Append(q, e) ELSE table[j][s]
  BY <1>4, <1>7, <1>t, <1>e, <1>q DEF ToPush
<1>14. Lists(q, v, s, l)
  BY <1>11, <1>10, EmptySeq DEF Lists
<1>15. Lists(Append(q, e), v, s, ListsAfterPushes(h, p)[v])
  BY <1>1, <1>9, <1>10, <1>14, <1>t, OneListLonger
<1>16. localC'[s] = y.next /\ removedGlobals'[s] = y.freed
  <2>1. y.freed = (IF x.freed = <<>> THEN x.freed ELSE Pop(x.freed)) /\ y.next = (IF x.freed = <<>> THEN x.next + 1 ELSE x.next)
    BY <1>6 DEF Taken
  <2>2. localC[s] = x.next /\ removedGlobals[s] = x.freed
    BY <1>8 DEF Holds
  <2>3. IF removedGlobals[s] = <<>>
       THEN localC' = [localC EXCEPT ![s] = @ + 1] /\ UNCHANGED removedGlobals
       ELSE removedGlobals' = [removedGlobals EXCEPT ![s] = Pop(@)] /\ UNCHANGED localC
    BY <1>4 DEF TakeNumber
  <2> QED BY ONLY <1>t, <2>1, <2>2, <2>3, s \in Procs
<1>17. Holds(s, y, ListsAfterPushes(h, p))'
  <2>1. ASSUME NEW j \in Numbers, \A w \in Variables : y.num[w] # j
        PROVE  table'[j][s] = <<>>
    <3>1. j # g
      BY <1>1, <1>7, <2>1
    <3>2. \A w \in Variables : x.num[w] # j
      BY <1>6, <1>7, <2>1, NoneAssumption
    <3> QED BY <1>8, <1>13, <3>1, <3>2 DEF Holds
  <2>2. ASSUME NEW j \in Numbers, NEW w \in Variables, y.num[w] = j
        PROVE  Lists(table'[j][s], w, s, ListsAfterPushes(h, p)[w])
    <3>1. CASE w = v
      BY <1>7, <1>13, <1>15, <2>2, <3>1
    <3>2. CASE w # v
      <4>1. x.num[w] = j /\ j # g
        BY <1>7, <2>2, <3>2
      <4> QED BY <1>8, <1>10, <1>13, <4>1, <3>2 DEF Holds
    <3> QED BY <3>1, <3>2
  <2> QED BY ONLY <1>12, <1>16, <2>1, <2>2 DEF Holds, Lists
<1>18. /\ UNCHANGED localsToPush
       /\ new_addresses' = [new_addresses EXCEPT ![s][e.address] = g]
       /\ globalsToPush'[s] = Append(globalsToPush[s], g)
  <2>1. /\ UNCHANGED localsToPush
        /\ new_addresses' = [new_addresses EXCEPT ![s][ToPush(s).address] = g]
        /\ globalsToPush' = [globalsToPush EXCEPT ![s] = Append(@, g)]
    BY <1>4, Zenon DEF TakeNumber
  <2> QED BY <1>e, <1>t, <2>1 DEF ToPush
<1>19. Asked(h, s, p)'
  <2>1. \A k \in 1 .. h.m : k <= p - 1 => k <= p
    BY <1>3
  <2> QED BY <1>8, <1>18, <2>1 DEF Asked
<1>20. e.address \in Addresses /\ e.address \in {v, Null} /\ (e.address = v <=> Held(v, s))
       /\ (~ Held(v, s) => e.address = Null /\ p = 1) /\ v # Null
  BY <1>1, <1>9, <1>k, Addressing DEF Addresses
<1>21. Remaining(s, p, y)'
  <2>1. \A k \in 1 .. p-1 : localsToPush[s][k].address \in Addresses
    <3>1. \A k \in 1 .. p-1 : k \in 1 .. Len(localsToPush[s])
      BY <1>3, <1>9
    <3>2. \A k \in 1 .. p-1 : localsToPush[s][k] \in Request
      BY <1>t, <3>1, ElementOfSeq
    <3> QED BY <3>2 DEF Request, Addresses
  <2>2. \/ localsToPush[s][p].address = Null /\ p = 1 /\ ~ Held(v, s)
        \/ /\ localsToPush[s][p].address = v /\ local2global[s][v] = None
           /\ \A k \in 1 .. p-1 : localsToPush[s][k].address # v
    BY <1>k, <1>e, <1>20
  <2>3. UNCHANGED <<localsToPush, localsToRemove, local2global>> /\ globalsToPush[s] \in Seq(Numbers)
    BY <1>2, <1>18, <1>t
  <2>4. p \in Nat \ {0} /\ v \in Variables
    BY <1>1, <1>3
  <2> QED
    <3>1. Remaining(s, p-1, x) /\ globalsToPush'[s] = Append(globalsToPush[s], g)
      BY <1>8, <1>18
    <3>2. g \in Numbers /\ g # None /\ OneMore(x, y, v, g)
      BY <1>7 DEF OneMore
    <3>3. UNCHANGED localsToPush /\ UNCHANGED localsToRemove /\ UNCHANGED local2global
      BY <2>3
    <3>4. FirstOf(s, p, v)
      BY <2>1, <2>2 DEF FirstOf
    <3> QED BY ONLY s \in Procs, <2>3, <2>4, <3>1, <3>2, <3>3, <3>4, RemainingIfTaken, Zenon
<1>22. NewNumbers(h, s, p+1)'
  <2>2. \A w \in Variables : Held(w, s) =>
          /\ new_addresses[s][w] = IF h.reg[0].num[w] = None THEN x.num[w] ELSE None
          /\ \A k \in 1 .. p-1 : localsToPush[s][k].address = w => h.reg[0].num[w] = None
    BY <1>8 DEF NewNumbers
  <2>3. ASSUME NEW w \in Variables, Held(w, s)
        PROVE  new_addresses'[s][w] = IF h.reg[0].num[w] = None THEN y.num[w] ELSE None
    <3>0. w \in Addresses
      BY DEF Addresses
    <3>1. CASE w = v
      <4>1. new_addresses'[s][v] = g
        BY <1>18, <1>20, <1>t, <2>3, <3>1
      <4> QED BY <1>7, <1>k, <2>3, <3>1, <4>1
    <3>2. CASE w # v
      <4>0. w # Null
        BY NullAssumption
      <4>1. new_addresses'[s][w] = new_addresses[s][w]
        BY <1>18, <1>20, <1>t, <3>0, <3>2, <4>0
      <4> QED BY <1>7, <2>2, <2>3, <3>2, <4>1
    <3> QED BY <3>1, <3>2
  <2>4. ASSUME NEW w \in Variables, Held(w, s), NEW k \in 1 .. p, localsToPush'[s][k].address = w
        PROVE  h.reg[0].num[w] = None
    <3>1. CASE k = p
      <4>1. e.address = w /\ w # Null
        BY <1>18, <1>e, <2>4, <3>1, NullAssumption
      <4>2. w = v /\ Held(v, s)
        BY <1>20, <2>4, <4>1
      <4> QED BY <1>k, <4>2
    <3>2. CASE k # p
      BY <1>3, <1>18, <2>2, <2>4, <3>2
    <3> QED BY <3>1, <3>2
  <2> QED BY <1>3, <2>3, <2>4 DEF NewNumbers
<1> QED BY <1>1, <1>2, <1>17, <1>19, <1>21, <1>22, NextRegistration

(* A registration keeps the processes in step. *)
LEMMA RegisterInStep ==
  ASSUME RequestsInv, NEW h, InStep(h), NEW s \in Procs, Register(s)
  PROVE  InStep(h)'
<1>1. UNCHANGED entered /\ UNCHANGED history
  BY DEF Register, barrier
<1>2. Somewhere(h, s)'
  BY RegisterNew, RegisterAgain
<1> QED BY <1>1, <1>2, StepKeeps

(* The process that arrives at the third barrier. *)
LEMMA ArriveEndAt ==
  ASSUME RequestsInv, NEW h, InStep(h), NEW s \in Procs, ArriveEnd(s)
  PROVE  /\ Second(h, s, h.m + 1) /\ Idle(s) /\ localsToRemove[s] = <<>>
         /\ crossed[s] = 3 * h.sync + 2 /\ entered[s] = 3 * h.sync + 2
         /\ entered' = [entered EXCEPT ![s] = 3 * h.sync + 3]
         /\ i'[s] = 1 /\ new_addresses'[s] = Empty
         /\ UNCHANGED <<localsToPush, localsToRemove, globalsToPush, removedGlobals,
                        localC, local2global, table, calls, crossed, other, found, actions>>
         /\ h.m \in Nat /\ h.sync \in Nat /\ entered \in [Procs -> Nat]
<1>0. /\ Phase(s) = "register" /\ i[s] > Len(localsToPush[s]) /\ Bar!Arrive(s) /\ Restart(s)
      /\ new_addresses' = [new_addresses EXCEPT ![s] = Empty]
      /\ UNCHANGED <<localsToPush, localsToRemove, globalsToPush, removedGlobals,
                     localC, local2global, table, calls, actions>>
  BY DEF ArriveEnd
<1>1. /\ crossed[s] = 3 * h.sync + 2 /\ localsToRemove[s] = <<>>
      /\ \E p : Second(h, s, p)
  BY <1>0, Where
<1>2. PICK p : Second(h, s, p)
  BY <1>1
<1>3. h.m \in Nat /\ h.sync \in Nat
  BY PlacesInBarriers
<1>t. /\ entered \in [Procs -> Nat] /\ i \in [Procs -> Nat]
      /\ new_addresses \in [Procs -> [Addresses -> Numbers \cup {None}]]
  BY TypesOfState DEF RequestsInv
<1>4. p = i[s] /\ p \in 1 .. h.m+1 /\ Len(localsToPush[s]) = h.m /\ entered[s] = 3 * h.sync + 2
      /\ (p <= h.m \/ Idle(s))
  BY <1>2 DEF Second, Asked
<1>5. p = h.m + 1 /\ ~ (p <= h.m)
  BY <1>0, <1>3, <1>4
<1>6. entered' = [entered EXCEPT ![s] = 3 * h.sync + 3] /\ UNCHANGED crossed
  <2>1. (3 * h.sync + 2) + 1 = 3 * h.sync + 3
    BY <1>3
  <2>2. entered' = [entered EXCEPT ![s] = entered[s] + 1] /\ UNCHANGED crossed
    BY <1>0 DEF Bar!Arrive
  <2> QED BY <1>4, <2>1, <2>2
<1>7. i'[s] = 1 /\ UNCHANGED <<other, found>>
  BY <1>0, <1>t DEF Restart
<1>8. new_addresses'[s] = Empty
  BY <1>0, <1>t
<1>9. Second(h, s, h.m + 1) /\ Idle(s)
  BY <1>2, <1>4, <1>5
<1> QED BY <1>0, <1>1, <1>3, <1>4, <1>6, <1>7, <1>8, <1>9, <1>t

(* Unless it is the last one, the superstep goes on. *)
LEMMA ArriveEndBefore ==
  ASSUME RequestsInv, NEW h, InStep(h), NEW s \in Procs, ArriveEnd(s),
         NEW t \in Procs \ {s}, ~ (entered[t] >= entered'[s])
  PROVE  InStep(h)'
<1>1. /\ Second(h, s, h.m + 1) /\ Idle(s) /\ localsToRemove[s] = <<>>
      /\ crossed[s] = 3 * h.sync + 2 /\ entered[s] = 3 * h.sync + 2
      /\ entered' = [entered EXCEPT ![s] = 3 * h.sync + 3]
      /\ i'[s] = 1 /\ new_addresses'[s] = Empty
      /\ UNCHANGED <<localsToPush, localsToRemove, globalsToPush, removedGlobals,
                     localC, local2global, table, calls, crossed, other, found, actions>>
      /\ h.m \in Nat /\ h.sync \in Nat /\ entered \in [Procs -> Nat]
  BY ArriveEndAt
<1>2. UNCHANGED history
  <2>1. UNCHANGED <<registered, added, dropped>>
    BY Zenon DEF ArriveEnd
  <2> QED BY <1>1, <2>1 DEF history
<1>3. entered'[s] = 3 * h.sync + 3 /\ entered'[t] = entered[t]
  BY <1>1
<1>4. entered'[t] < 3 * h.sync + 3
  BY <1>1, <1>3
<1>5. (h.m + 1) - 1 = h.m
  BY <1>1
<1>6. /\ calls[s] = h.sync
      /\ Holds(s, h.reg[h.m], ListsAfterPushes(h, h.m))
      /\ Asked(h, s, h.m) /\ Remaining(s, h.m, h.reg[h.m]) /\ Unnamed(h, s)
  BY <1>1, <1>5 DEF Second
<1>7. Holds(s, h.reg[h.m], ListsAfterPushes(h, h.m))'
  <2>1. ListsAfterPushes(h, h.m)' = ListsAfterPushes(h, h.m)
    BY <1>2, ListsRest
  <2> QED BY <1>1, <1>6, <2>1 DEF Holds, Lists
<1>8. Asked(h, s, h.m)' /\ Unnamed(h, s)'
  BY <1>1, <1>6 DEF Asked, Unnamed
<1>9. Remaining(s, h.m, h.reg[h.m])'
  BY <1>1, <1>6 DEF Remaining, Matched, AtMostOnce, MapLacks
<1>10. Idle(s)'
  BY <1>1 DEF Idle
<1>11. Third(h, s)'
  BY <1>1, <1>3, <1>6, <1>7, <1>8, <1>9, <1>10 DEF Third
<1>12. \A u \in Procs \ {s} : Unmoved(u)
  BY OthersUnmoved
<1>13. Somewhere(h, s)'
  BY <1>11, Zenon DEF Somewhere
<1>14. \E u \in Procs : entered'[u] < 3 * h.sync + 3
  BY <1>4
<1> QED BY <1>2, <1>12, <1>13, <1>14, OneMoves

(* How many registrations are left at the end. *)
LEMMA LengthLeft ==
  ASSUME RequestsInv, NEW h, InStep(h), NEW v \in Variables
  PROVE  /\ Len(registered[v]) \in Nat /\ Len(added[v]) \in Nat /\ dropped[v] \in Nat
         /\ dropped[v] <= Len(registered[v])
         /\ ListsAfterPushes(h, h.m)[v] \in Seq(Sizes)
         /\ Len(ListsAfterPushes(h, h.m)[v]) = (Len(registered[v]) - dropped[v]) + Len(added[v])
         /\ added[v] = <<>> <=> Len(added[v]) = 0
<1>1. registered[v] \in Seq(Sizes) /\ added[v] \in Seq(Sizes) /\ dropped[v] \in Nat
  BY TypesOfState DEF RequestsInv
<1>2. Len(registered[v]) \in Nat /\ Len(added[v]) \in Nat
      /\ (added[v] = <<>> <=> Len(added[v]) = 0)
  BY <1>1, LengthOfStack
<1>3. h.popped[h.n] = dropped /\ h.pushed[h.m] = added
  BY DEF InStep, History
<1>4. dropped[v] <= Len(registered[v])
  <2>1. h.n \in Nat /\ \A j \in 0 .. h.n : h.popped[j][v] <= Len(registered[v])
    BY DEF InStep, History, Dropping
  <2> QED BY <1>3, <2>1
<1>5. PICK q : q = SubSeq(registered[v], 1, Len(registered[v]) - dropped[v])
  OBVIOUS
<1>6. q \in Seq(Sizes) /\ Len(q) = Len(registered[v]) - dropped[v]
  <2>1. CASE dropped[v] < Len(registered[v])
    BY <1>1, <1>5, <2>1, PopOfSubSeq
  <2>2. CASE dropped[v] = Len(registered[v])
    <3>1. Len(registered[v]) - dropped[v] = 0
      BY <1>2, <2>2
    <3>2. q = SubSeq(registered[v], 1, 0)
      BY <1>5, <3>1
    <3>3. q \in Seq(Sizes) /\ Len(q) = 0
      BY <1>1, <1>2, <3>2
    <3> QED BY <3>1, <3>3
  <2> QED BY <1>1, <1>2, <1>4, <2>1, <2>2
<1>7. ListsAfterPushes(h, h.m)[v] = q \o added[v]
  BY <1>3, <1>5 DEF ListsAfterPushes
<1>8. q \o added[v] \in Seq(Sizes) /\ Len(q \o added[v]) = Len(q) + Len(added[v])
  BY <1>1, <1>6, ConcatProperties
<1> QED BY <1>1, <1>2, <1>4, <1>6, <1>7, <1>8

(* The next superstep, before anything is asked for in it. *)
NextSuperstep(sync, x) ==
  [sync |-> sync, n |-> 0, m |-> 0, pops |-> <<>>, pushes |-> <<>>,
   popped |-> [j \in {0} |-> [v \in Variables |-> 0]],
   pushed |-> [j \in {0} |-> [v \in Variables |-> <<>>]],
   dereg |-> [j \in {0} |-> x], reg |-> [j \in {0} |-> x]]

(* It is a history of the registrations that are left. *)
LEMMA NewHistory ==
  ASSUME TypeOK', NEW sync \in Nat, NEW x, Sensible(x),
         \A v \in Variables : x.num[v] # None <=> ~ AllNull(v) /\ 0 < Len(registered'[v]),
         x.next <= actions',
         \A v \in Variables : HasNulls(v) => Len(registered'[v]) <= 1,
         added' = [v \in Variables |-> <<>>], dropped' = [v \in Variables |-> 0],
         NEW h, h = NextSuperstep(sync, x)
  PROVE  History(h)'
<1>1. /\ h.sync = sync /\ h.n = 0 /\ h.m = 0
      /\ h.popped[0] = [v \in Variables |-> 0] /\ h.pushed[0] = [v \in Variables |-> <<>>]
      /\ h.dereg[0] = x /\ h.reg[0] = x
  BY DEF NextSuperstep
<1>2. \A v \in Variables : registered'[v] \in Seq(Sizes) /\ Len(registered'[v]) \in Nat
  <2>1. \A v \in Variables : registered'[v] \in Seq(Sizes)
    BY TypesOfStateNext
  <2> QED BY <2>1, LengthOfStack
<1>3. x.next \in Nat /\ x \in Numbering
  BY DEF Sensible, Numbering
<1> HIDE DEF NextSuperstep
<1>4. Dropping(h)'
  BY <1>1, <1>2 DEF Dropping
<1>5. AfterPops(h, 0)'
  <2>1. \A v \in Variables : h.popped[0][v] = 0
    BY <1>1
  <2> QED BY <1>1, <1>3, <2>1 DEF AfterPops
<1>6. Releasing(h)'
  BY <1>1, <1>5 DEF Releasing
<1>7. Counting(h.m, h.pushes, h.pushed)
  <2>1. [v \in Variables |-> <<>>] \in [Variables -> Seq(Sizes)]
    <3>1. <<>> \in Seq(Sizes)
      OBVIOUS
    <3> QED BY <3>1
  <2>2. \A j \in 0 .. 0-1 : FALSE
    OBVIOUS
  <2>3. \A j \in 1 .. 0 : FALSE
    OBVIOUS
  <2>4. \A j \in 0 .. 0 : h.pushed[j] \in [Variables -> Seq(Sizes)]
    <3>1. h.pushed[0] \in [Variables -> Seq(Sizes)]
      BY <1>1, <2>1, Zenon
    <3> QED BY <3>1
  <2> QED BY <1>1, <2>2, <2>3, <2>4 DEF Counting
<1>8. RunIs(h.reg, h.dereg[h.n], h.m, h.pushes, h.pushed)
  <2>1. AfterPushes(h.reg, x, 0, h.pushed)
    BY <1>1, <1>3 DEF AfterPushes
  <2> QED BY <1>1, <2>1 DEF RunIs
<1>9. CareTaken(h)'
  <2>1. \A v \in Variables : Len(added'[v]) = 0
    BY EmptySeq
  <2>2. \A v \in Variables : HasNulls(v) => Len(registered'[v]) + Len(added'[v]) <= 1
    BY <1>2, <2>1
  <2> QED BY <1>1, <2>2 DEF CareTaken
<1>10. h.dereg[0].next + h.m <= actions'
  BY <1>1, <1>3
<1> QED BY <1>1, <1>4, <1>6, <1>7, <1>8, <1>9, <1>10 DEF History

(* Whoever waits at the third barrier is then at the end of a superstep. *)
LEMMA ThirdToLast ==
  ASSUME NEW h, NEW t \in Procs, NEW L, L = ListsAfterPushes(h, h.m), NEW x, x = h.reg[h.m],
         h.sync \in Nat,
         calls[t] = h.sync, Holds(t, x, L), Asked(h, t, h.m), Remaining(t, h.m, x),
         Idle(t), localsToRemove[t] = <<>>,
         entered'[t] = 3 * h.sync + 3, i'[t] = 1, new_addresses'[t] = Empty,
         UNCHANGED <<localsToPush, localsToRemove, globalsToPush, removedGlobals,
                     localC, local2global, table, calls, other, found>>,
         registered' = L,
         NEW k, k = NextSuperstep(h.sync + 1, x)
  PROVE  Last(k, t, h.m)'
<1>1. k.sync = h.sync + 1 /\ k.n = 0 /\ k.m = 0 /\ k.dereg[0] = x
  BY DEF NextSuperstep
<1>2. 3 * (h.sync + 1) = 3 * h.sync + 3
  OBVIOUS
<1>3. Holds(t, x, registered)'
  BY DEF Holds, Lists
<1>4. Remaining(t, h.m, x)'
  BY DEF Remaining, Matched, AtMostOnce, MapLacks
<1>5. Len(localsToPush'[t]) = h.m /\ Idle(t)'
  BY DEF Asked, Idle
<1> QED BY <1>1, <1>2, <1>3, <1>4, <1>5 DEF Last

(* The last one to arrive at the third barrier ends the superstep:
   everybody is then at the end of it, and the next one begins. *)
LEMMA ArriveEndLast ==
  ASSUME RequestsInv, [Next]_vars, NEW h, InStep(h), NEW s \in Procs, ArriveEnd(s),
         \A t \in Procs \ {s} : entered[t] >= entered'[s]
  PROVE  InStep(NextSuperstep(h.sync + 1, h.reg[h.m]))'
<1>x. PICK x : x = h.reg[h.m]
  OBVIOUS
<1>L. PICK L : L = ListsAfterPushes(h, h.m)
  OBVIOUS
<1>k. PICK k : k = NextSuperstep(h.sync + 1, x)
  OBVIOUS
<1>1. /\ Second(h, s, h.m + 1) /\ Idle(s) /\ localsToRemove[s] = <<>>
      /\ crossed[s] = 3 * h.sync + 2 /\ entered[s] = 3 * h.sync + 2
      /\ entered' = [entered EXCEPT ![s] = 3 * h.sync + 3]
      /\ i'[s] = 1 /\ new_addresses'[s] = Empty
      /\ UNCHANGED <<localsToPush, localsToRemove, globalsToPush, removedGlobals,
                     localC, local2global, table, calls, crossed, other, found, actions>>
      /\ h.m \in Nat /\ h.sync \in Nat /\ entered \in [Procs -> Nat]
  BY ArriveEndAt
<1>2. /\ added' = [v \in Variables |-> <<>>] /\ dropped' = [v \in Variables |-> 0]
      /\ registered' = [v \in Variables |->
           SubSeq(registered[v], 1, Len(registered[v]) - dropped[v]) \o added[v]]
  BY Zenon DEF ArriveEnd
<1>3. registered' = L
  <2>1. h.pushed[h.m] = added
    BY DEF InStep, History
  <2> QED BY <1>2, <1>L, <2>1 DEF ListsAfterPushes
<1>4. (h.m + 1) - 1 = h.m /\ h.m \in 0 .. h.m /\ h.sync + 1 \in Nat /\ entered'[s] = 3 * h.sync + 3
  BY <1>1
<1>5. Last(k, s, h.m)'
  <2>1. /\ calls[s] = h.sync /\ Holds(s, x, L) /\ Asked(h, s, h.m) /\ Remaining(s, h.m, x)
    BY <1>1, <1>4, <1>x, <1>L DEF Second
  <2> QED BY <1>1, <1>3, <1>4, <1>x, <1>L, <1>k, <2>1, ThirdToLast
<1>6. ASSUME NEW t \in Procs, t # s
      PROVE  Last(k, t, h.m)'
  <2>1. entered[t] >= 3 * h.sync + 3 /\ entered[t] \in Nat /\ entered'[t] = entered[t]
    BY <1>1, <1>4, <1>6
  <2>2. Somewhere(h, t)
    BY DEF InStep
  <2>3. (\A d : ~ Last(h, t, d)) /\ (\A p : ~ First(h, t, p)) /\ (\A p : ~ Second(h, t, p))
    <3>1. \A d : ~ Last(h, t, d)
      BY <1>1, <2>1 DEF Last
    <3>2. \A p : ~ First(h, t, p)
      BY <1>1, <2>1 DEF First
    <3>3. \A p : ~ Second(h, t, p)
      BY <1>1, <2>1 DEF Second
    <3> QED BY <3>1, <3>2, <3>3
  <2>4. Third(h, t)
    BY <2>2, <2>3, Zenon DEF Somewhere
  <2>5. /\ calls[t] = h.sync /\ Holds(t, x, L) /\ Asked(h, t, h.m) /\ Remaining(t, h.m, x)
        /\ Idle(t) /\ localsToRemove[t] = <<>>
        /\ entered[t] = 3 * h.sync + 3 /\ i[t] = 1 /\ new_addresses[t] = Empty
    BY <2>4, <1>x, <1>L DEF Third
  <2>6. Unmoved(t)
    BY <1>6, OthersUnmoved
  <2>7. entered'[t] = 3 * h.sync + 3 /\ i'[t] = 1 /\ new_addresses'[t] = Empty
    BY <2>5, <2>6 DEF Unmoved
  <2> QED BY <1>1, <1>3, <1>x, <1>L, <1>k, <2>5, <2>7, ThirdToLast
<1>7. \A v \in Variables :
        /\ Len(registered[v]) \in Nat /\ Len(added[v]) \in Nat /\ dropped[v] \in Nat
        /\ dropped[v] <= Len(registered[v])
        /\ Len(registered'[v]) = (Len(registered[v]) - dropped[v]) + Len(added[v])
        /\ added[v] = <<>> <=> Len(added[v]) = 0
  BY <1>3, <1>L, LengthLeft
<1>8. AfterPushes(h.reg, h.reg[0], h.m, h.pushed) /\ h.reg[0] = h.dereg[h.n] /\ h.pushed[h.m] = added
      /\ h.popped[h.n] = dropped /\ h.dereg[0].next + h.m <= actions
      /\ AfterPops(h, h.n) /\ AfterPops(h, 0) /\ CareTaken(h)
  <2>1. h.n \in Nat /\ h.n \in 0 .. h.n /\ 0 \in 0 .. h.n
    BY PlacesInBarriers
  <2>2. RunIs(h.reg, h.dereg[h.n], h.m, h.pushes, h.pushed) /\ Releasing(h)
    BY DEF InStep, History
  <2>3. h.reg[0] = h.dereg[h.n] /\ AfterPushes(h.reg, h.reg[0], h.m, h.pushed)
    BY <1>4, <2>2 DEF RunIs
  <2>4. AfterPops(h, h.n) /\ AfterPops(h, 0)
    <3>1. h.n \in 0 .. h.n /\ 0 \in 0 .. h.n
      BY <2>1
    <3> QED BY ONLY <2>2, <3>1 DEF Releasing
  <2> QED BY <2>3, <2>4 DEF InStep, History
<1>9. Sensible(x) /\ x.next <= actions'
  <2>1. Sensible(x) /\ x.next <= h.reg[0].next + h.m
    BY <1>8, <1>x DEF AfterPushes
  <2>2. h.reg[0].next <= h.dereg[0].next /\ h.reg[0].next \in Nat /\ h.dereg[0].next \in Nat
    BY <1>8 DEF AfterPops, Sensible, Numbering
  <2>3. x.next \in Nat /\ actions \in Nat
    BY <2>1, TypesOfState DEF Sensible, Numbering, RequestsInv
  <2>4. x.next <= actions
    BY <1>1, <1>8, <2>1, <2>2, <2>3
  <2> QED BY <1>1, <2>1, <2>4
<1>10. \A v \in Variables : x.num[v] # None <=> ~ AllNull(v) /\ 0 < Len(registered'[v])
  <2> SUFFICES ASSUME NEW v \in Variables
               PROVE  x.num[v] # None <=> ~ AllNull(v) /\ 0 < Len(registered'[v])
    OBVIOUS
  <2>1. x.num[v] # None <=> ~ AllNull(v) /\ (h.reg[0].num[v] # None \/ added[v] # <<>>)
    BY <1>8, <1>x DEF AfterPushes
  <2>2. h.reg[0].num[v] # None <=> ~ AllNull(v) /\ dropped[v] < Len(registered[v])
    BY <1>8 DEF AfterPops
  <2>3. 0 < Len(registered'[v]) <=> (dropped[v] < Len(registered[v]) \/ added[v] # <<>>)
    BY <1>7
  <2> QED BY <2>1, <2>2, <2>3
<1>11. \A v \in Variables : HasNulls(v) => Len(registered'[v]) <= 1
  <2>1. \A v \in Variables : HasNulls(v) => Len(registered[v]) + Len(added[v]) <= 1
    BY <1>8 DEF CareTaken
  <2> SUFFICES ASSUME NEW v \in Variables, HasNulls(v)
               PROVE  Len(registered'[v]) <= 1
    OBVIOUS
  <2>2. Len(registered[v]) + Len(added[v]) <= 1
    BY <2>1
  <2>3. \A a, b, c \in Nat : a + b <= 1 /\ c <= a => (a - c) + b <= 1
    OBVIOUS
  <2>4. /\ Len(registered[v]) \in Nat /\ Len(added[v]) \in Nat /\ dropped[v] \in Nat
        /\ dropped[v] <= Len(registered[v])
        /\ Len(registered'[v]) = (Len(registered[v]) - dropped[v]) + Len(added[v])
    BY <1>7
  <2>5. (Len(registered[v]) - dropped[v]) + Len(added[v]) <= 1
    BY <2>2, <2>3, <2>4, Zenon
  <2> QED BY <2>4, <2>5
<1>12. TypeOK'
  BY TypeStep
<1>13. History(k)'
  BY <1>2, <1>4, <1>9, <1>10, <1>11, <1>12, <1>k, NewHistory
<1>14. k.sync = h.sync + 1
  BY <1>k DEF NextSuperstep
<1>15. entered'[s] < 3 * k.sync + 3
  BY <1>1, <1>4, <1>14
<1>16. \A t \in Procs : Somewhere(k, t)'
  <2>1. \A t \in Procs : Last(k, t, h.m)'
    BY <1>5, <1>6
  <2> QED BY <2>1, Zenon DEF Somewhere
<1>17. InStep(k)'
  BY <1>13, <1>15, <1>16 DEF InStep
<1> QED BY <1>17, <1>k, <1>x

(* Arriving at the third barrier, first or last. *)
LEMMA ArriveEndInStep ==
  ASSUME RequestsInv, [Next]_vars, NEW h, InStep(h), NEW s \in Procs, ArriveEnd(s)
  PROVE  \E k : InStep(k)'
<1>1. CASE \A t \in Procs \ {s} : entered[t] >= entered'[s]
  BY <1>1, ArriveEndLast
<1>2. CASE ~ \A t \in Procs \ {s} : entered[t] >= entered'[s]
  <2>1. PICK t \in Procs \ {s} : ~ (entered[t] >= entered'[s])
    BY <1>2
  <2> QED BY <2>1, ArriveEndBefore
<1> QED BY <1>1, <1>2

(* While a call is made everybody is at the beginning of the superstep. *)
LEMMA CallFrom ==
  ASSUME RequestsInv, NEW h, InStep(h), Calling, NEW s \in Procs
  PROVE  /\ First(h, s, 1) /\ entered[s] = 3 * h.sync
         /\ calls[s] = h.sync /\ i[s] = 1 /\ new_addresses[s] = Empty
         /\ Holds(s, h.dereg[0], ListsAfterPops(h, 0))
         /\ Asked(h, s, 0) /\ ToDrop(h, s, 1) /\ MapIs(h, s)
         /\ IF 1 <= h.n THEN Seeking(s, h.pops[1]) ELSE Idle(s)
<1>1. First(h, s, 1) /\ entered[s] = 3 * h.sync
  BY Where DEF Calling
<1>2. 1 - 1 = 0
  OBVIOUS
<1> QED BY <1>1, <1>2 DEF First

(* The numbers suffice for what is asked for. *)
LEMMA CallCounts ==
  ASSUME RequestsInv, NEW h, InStep(h), Calling
  PROVE  /\ h.n \in Nat /\ h.m \in Nat /\ actions \in Nat /\ actions' = actions + 1
         /\ h.dereg[0].next \in Nat
         /\ h.dereg[0].next + h.m <= actions
         /\ h.dereg[0].next + (h.m + 1) <= MaxActions
         /\ AfterPops(h, 0) /\ AfterPops(h, h.n)
         /\ Sensible(h.dereg[h.n]) /\ h.dereg[h.n].next \in Nat
         /\ h.dereg[h.n].next <= h.dereg[0].next
         /\ h.popped[h.n] = dropped /\ h.pushed[h.m] = added
<1>1. /\ h.n \in Nat /\ h.m \in Nat /\ h.dereg[0].next + h.m <= actions /\ Releasing(h)
      /\ h.popped[h.n] = dropped /\ h.pushed[h.m] = added
  BY DEF InStep, History, Dropping, Counting
<1>2. 0 \in 0 .. h.n /\ h.n \in 0 .. h.n
  BY <1>1
<1>3. AfterPops(h, 0) /\ AfterPops(h, h.n)
  BY <1>1, <1>2 DEF Releasing
<1>4. h.dereg[0].next \in Nat /\ h.dereg[h.n].next \in Nat
  BY <1>3 DEF AfterPops, Sensible, Numbering
<1>5. actions \in Nat /\ MaxActions \in Nat /\ actions < MaxActions /\ actions' = actions + 1
  BY ConstantFacts, TypesOfState DEF Calling, RequestsInv
<1>6. h.dereg[0].next + (h.m + 1) <= MaxActions
  BY <1>1, <1>4, <1>5
<1>7. Sensible(h.dereg[h.n]) /\ h.dereg[h.n].next <= h.dereg[0].next
  BY <1>3 DEF AfterPops
<1> QED BY <1>1, <1>3, <1>4, <1>5, <1>6, <1>7

(* What a call of bsp_pop_reg adds to the history... *)
WithPop(h, v, R) ==
  [sync |-> h.sync, n |-> h.n + 1, m |-> h.m,
   pops |-> [j \in 1 .. h.n + 1 |-> IF j = h.n + 1 THEN v ELSE h.pops[j]],
   pushes |-> h.pushes,
   popped |-> [j \in 0 .. h.n + 1 |->
     IF j = h.n + 1
       THEN IF registered[v] = <<>> THEN dropped ELSE [dropped EXCEPT ![v] = @ + 1]
       ELSE h.popped[j]],
   pushed |-> h.pushed,
   dereg |-> [j \in 0 .. h.n + 1 |->
     IF j = h.n + 1
       THEN AfterPop(h.dereg[h.n], v, Len(registered[v]) -
              (IF registered[v] = <<>> THEN dropped[v] ELSE dropped[v] + 1))
       ELSE h.dereg[j]],
   reg |-> R]

(* ... is a numbering of what is then left. *)
LEMMA PopNumbering ==
  ASSUME RequestsInv, NEW h, InStep(h), NEW v \in Variables, PopReg(v),
         NEW left, left = Len(registered[v]) - dropped'[v],
         NEW y, y = AfterPop(h.dereg[h.n], v, left)
  PROVE  /\ Sensible(y) /\ y.next <= h.dereg[0].next
         /\ \A w \in Variables :
              /\ y.num[w] # None <=> ~ AllNull(w) /\ dropped'[w] < Len(registered[w])
              /\ y.num[w] \in {None, h.dereg[0].num[w]}
         /\ \A w \in Variables : dropped'[w] \in Nat /\ dropped'[w] <= Len(registered[w])
         /\ dropped' \in [Variables -> Nat]
         /\ dropped'[v] = IF registered[v] = <<>> THEN dropped[v] ELSE dropped[v] + 1
<1>x. PICK x : x = h.dereg[h.n]
  OBVIOUS
<1>1. /\ Sensible(x) /\ x.next \in Nat /\ x.next <= h.dereg[0].next /\ h.dereg[0].next \in Nat
      /\ AfterPops(h, h.n) /\ h.popped[h.n] = dropped
  BY <1>x, CallCounts DEF PopReg
<1>2. \A w \in Variables :
        /\ x.num[w] # None <=> ~ AllNull(w) /\ dropped[w] < Len(registered[w])
        /\ x.num[w] \in {None, h.dereg[0].num[w]}
  BY <1>1, <1>x DEF AfterPops
<1>3. \A w \in Variables : /\ Len(registered[w]) \in Nat /\ dropped[w] \in Nat
                           /\ dropped[w] <= Len(registered[w])
  BY LengthLeft
<1>4. dropped \in [Variables -> Nat] /\ registered[v] \in Seq(Sizes)
  BY TypesOfState DEF RequestsInv
<1>5. dropped' = IF registered[v] = <<>> THEN dropped ELSE [dropped EXCEPT ![v] = @ + 1]
  BY DEF PopReg
<1>6. /\ dropped'[v] = IF registered[v] = <<>> THEN dropped[v] ELSE dropped[v] + 1
      /\ dropped' \in [Variables -> Nat]
      /\ \A w \in Variables : w # v => dropped'[w] = dropped[w]
  BY <1>4, <1>5
<1>7. dropped'[v] \in Nat /\ dropped'[v] <= Len(registered[v]) /\ dropped[v] <= dropped'[v]
  <2>1. CASE registered[v] = <<>>
    BY <1>3, <1>6, <2>1
  <2>2. CASE registered[v] # <<>>
    <3>1. dropped[v] < Len(registered[v])
      BY <2>2 DEF PopReg
    <3> QED BY <1>3, <1>6, <2>2, <3>1
  <2> QED BY <2>1, <2>2
<1>8. CASE x.num[v] = None \/ left > 0
  <2>1. y = x
    BY <1>8, <1>x DEF AfterPop
  <2>2. y.num[v] # None <=> ~ AllNull(v) /\ dropped'[v] < Len(registered[v])
    <3>1. CASE x.num[v] = None
      BY <1>2, <1>3, <1>7, <2>1, <3>1
    <3>2. CASE x.num[v] # None /\ left > 0
      BY <1>2, <1>3, <1>7, <2>1, <3>2
    <3> QED BY <1>8, <3>1, <3>2
  <2>3. \A w \in Variables : w # v =>
          (y.num[w] # None <=> ~ AllNull(w) /\ dropped'[w] < Len(registered[w]))
    BY <1>2, <1>6, <2>1
  <2>4. Sensible(y) /\ y.next <= h.dereg[0].next /\ \A w \in Variables : y.num[w] \in {None, h.dereg[0].num[w]}
    BY <1>1, <1>2, <2>1
  <2> QED BY <1>3, <1>6, <1>7, <2>2, <2>3, <2>4
<1>9. CASE x.num[v] # None /\ ~ (left > 0)
  <2>1. y = Released(x, v)
    BY <1>9, <1>x DEF AfterPop
  <2>2. /\ Sensible(y) /\ y.next <= x.next /\ y.num[v] = None
        /\ \A w \in Variables \ {v} : y.num[w] = x.num[w]
    BY <1>1, <1>9, <2>1, ReleasedIs
  <2>3. y.next \in Nat
    BY <2>2 DEF Sensible, Numbering
  <2>4. y.next <= h.dereg[0].next
    BY <1>1, <2>2, <2>3
  <2>5. ~ (dropped'[v] < Len(registered[v]))
    BY <1>3, <1>7, <1>9
  <2>6. \A w \in Variables : /\ y.num[w] # None <=> ~ AllNull(w) /\ dropped'[w] < Len(registered[w])
                             /\ y.num[w] \in {None, h.dereg[0].num[w]}
    BY <1>2, <1>6, <2>2, <2>5
  <2> QED BY <1>3, <1>6, <1>7, <2>2, <2>4, <2>6
<1> QED BY <1>8, <1>9

(* A call of bsp_pop_reg extends the history. *)
LEMMA PopHistory ==
  ASSUME RequestsInv, NEW h, InStep(h), NEW v \in Variables, PopReg(v),
         NEW y, y = AfterPop(h.dereg[h.n], v, Len(registered[v]) - dropped'[v]),
         NEW R, RunIs(R, y, h.m, h.pushes, h.pushed),
         NEW k, k = WithPop(h, v, R)
  PROVE  /\ History(k)'
         /\ k.sync = h.sync /\ k.n = h.n + 1 /\ k.m = h.m /\ k.pushes = h.pushes
         /\ k.pops[h.n + 1] = v /\ \A j \in 1 .. h.n : k.pops[j] = h.pops[j]
         /\ k.dereg[0] = h.dereg[0] /\ k.popped[0] = h.popped[0]
<1>0. Calling
  BY DEF PopReg
<1>1. /\ h.n \in Nat /\ h.m \in Nat /\ actions \in Nat /\ actions' = actions + 1
      /\ h.dereg[0].next \in Nat /\ h.dereg[0].next + h.m <= actions
      /\ h.popped[h.n] = dropped /\ h.pushed[h.m] = added
  BY <1>0, CallCounts
<1>2. UNCHANGED <<registered, added>>
  BY DEF PopReg
<1>3. /\ Sensible(y) /\ y.next <= h.dereg[0].next
      /\ \A w \in Variables :
           /\ y.num[w] # None <=> ~ AllNull(w) /\ dropped'[w] < Len(registered[w])
           /\ y.num[w] \in {None, h.dereg[0].num[w]}
      /\ \A w \in Variables : dropped'[w] \in Nat /\ dropped'[w] <= Len(registered[w])
      /\ dropped' \in [Variables -> Nat]
      /\ dropped'[v] = IF registered[v] = <<>> THEN dropped[v] ELSE dropped[v] + 1
  BY PopNumbering
<1>4. dropped' = IF registered[v] = <<>> THEN dropped ELSE [dropped EXCEPT ![v] = @ + 1]
  BY DEF PopReg
<1>5. /\ k.sync = h.sync /\ k.n = h.n + 1 /\ k.m = h.m /\ k.pushes = h.pushes /\ k.pushed = h.pushed
      /\ k.reg = R
      /\ k.pops = [j \in 1 .. h.n + 1 |-> IF j = h.n + 1 THEN v ELSE h.pops[j]]
      /\ k.popped = [j \in 0 .. h.n + 1 |-> IF j = h.n + 1 THEN dropped' ELSE h.popped[j]]
      /\ k.dereg = [j \in 0 .. h.n + 1 |-> IF j = h.n + 1 THEN y ELSE h.dereg[j]]
  BY <1>3, <1>4 DEF WithPop
<1>6. /\ k.pops[h.n + 1] = v /\ \A j \in 1 .. h.n : k.pops[j] = h.pops[j]
      /\ k.popped[h.n + 1] = dropped' /\ \A j \in 0 .. h.n : k.popped[j] = h.popped[j]
      /\ k.dereg[h.n + 1] = y /\ \A j \in 0 .. h.n : k.dereg[j] = h.dereg[j]
  BY <1>1, <1>5
<1>7. /\ 0 \in 0 .. h.n /\ h.n \in 0 .. h.n
      /\ \A j : j \in 0 .. h.n + 1 => j = h.n + 1 \/ j \in 0 .. h.n
      /\ \A j : j \in 1 .. h.n + 1 => j = h.n + 1 \/ j \in 1 .. h.n
      /\ \A j : j \in 0 .. (h.n + 1) - 1 => j = h.n \/ j \in 0 .. h.n - 1
      /\ \A j : j \in 0 .. h.n - 1 => j \in 0 .. h.n /\ j + 1 \in 0 .. h.n /\ j + 1 \in 1 .. h.n
  BY <1>1
<1>8. Dropping(h) /\ Releasing(h) /\ Counting(h.m, h.pushes, h.pushed) /\ CareTaken(h) /\ h.sync \in Nat
  BY DEF InStep, History
<1>9. Dropping(k)'
  <2>1. \A j \in 1 .. k.n : k.pops[j] \in Variables
    BY <1>5, <1>6, <1>7, <1>8 DEF Dropping
  <2>2. k.popped[0] = [w \in Variables |-> 0]
    BY <1>6, <1>7, <1>8 DEF Dropping
  <2>3. ASSUME NEW j \in 0 .. k.n-1
        PROVE  k.popped[j+1] = IF registered[k.pops[j+1]] = <<>> THEN k.popped[j]
                               ELSE [k.popped[j] EXCEPT ![k.pops[j+1]] = @ + 1]
    <3>1. CASE j = h.n
      BY <1>1, <1>4, <1>6, <1>7, <3>1
    <3>2. CASE j \in 0 .. h.n - 1
      <4>1. k.popped[j+1] = h.popped[j+1] /\ k.popped[j] = h.popped[j] /\ k.pops[j+1] = h.pops[j+1]
        BY <1>6, <1>7, <3>2
      <4> QED BY <1>8, <3>2, <4>1 DEF Dropping
    <3> QED BY <1>5, <1>7, <3>1, <3>2
  <2>4. \A j \in 0 .. k.n :
          k.popped[j] \in [Variables -> Nat] /\ \A w \in Variables : k.popped[j][w] <= Len(registered[w])
    BY <1>3, <1>5, <1>6, <1>7, <1>8 DEF Dropping
  <2>5. k.n \in Nat
    BY <1>1, <1>5
  <2> QED BY <1>2, <2>1, <2>2, <2>3, <2>4, <2>5 DEF Dropping
<1>10. Releasing(k)'
  <2>1. ASSUME NEW j \in 0 .. k.n-1
        PROVE  k.dereg[j+1] = AfterPop(k.dereg[j], k.pops[j+1],
                                       Len(registered[k.pops[j+1]]) - k.popped[j+1][k.pops[j+1]])
    <3>1. CASE j = h.n
      BY <1>1, <1>6, <1>7, <3>1
    <3>2. CASE j \in 0 .. h.n - 1
      <4>1. /\ k.popped[j+1] = h.popped[j+1] /\ k.dereg[j+1] = h.dereg[j+1]
            /\ k.dereg[j] = h.dereg[j] /\ k.pops[j+1] = h.pops[j+1]
        BY <1>6, <1>7, <3>2
      <4> QED BY <1>8, <3>2, <4>1 DEF Releasing
    <3> QED BY <1>5, <1>7, <3>1, <3>2
  <2>2. ASSUME NEW j \in 0 .. k.n
        PROVE  AfterPops(k, j)'
    <3>0. k.dereg[0] = h.dereg[0]
      BY <1>6, <1>7
    <3>1. CASE j = h.n + 1
      <4>1. k.dereg[j] = y /\ k.popped[j] = dropped'
        BY <1>6, <3>1
      <4> QED BY <1>2, <1>3, <3>0, <4>1 DEF AfterPops
    <3>2. CASE j \in 0 .. h.n
      <4>1. k.dereg[j] = h.dereg[j] /\ k.popped[j] = h.popped[j] /\ AfterPops(h, j)
        BY <1>6, <1>8, <3>2 DEF Releasing
      <4> QED BY <1>2, <3>0, <4>1 DEF AfterPops
    <3> QED BY <1>5, <1>7, <3>1, <3>2
  <2> QED BY <1>2, <2>1, <2>2 DEF Releasing
<1>11. CareTaken(k)'
  BY <1>2, <1>5, <1>8 DEF CareTaken
<1>12. k.dereg[0].next + k.m <= actions'
  BY <1>1, <1>5, <1>6, <1>7
<1>13. k.popped[k.n] = dropped' /\ k.pushed[k.m] = added' /\ RunIs(k.reg, k.dereg[k.n], k.m, k.pushes, k.pushed)
  BY <1>1, <1>2, <1>5, <1>6
<1>14. Counting(k.m, k.pushes, k.pushed) /\ k.sync \in Nat
  BY <1>5, <1>8
<1>15. History(k)'
  BY <1>9, <1>10, <1>11, <1>12, <1>13, <1>14 DEF History
<1> QED BY <1>5, <1>6, <1>7, <1>15

(* A call of bsp_pop_reg keeps the processes in step. *)
LEMMA PopRegInStep ==
  ASSUME RequestsInv, NEW h, InStep(h), NEW v \in Variables, PopReg(v)
  PROVE  \E k : InStep(k)'
<1>y. PICK y : y = AfterPop(h.dereg[h.n], v, Len(registered[v]) - dropped'[v])
  OBVIOUS
<1>0. Calling
  BY DEF PopReg
<1>1. /\ h.n \in Nat /\ h.m \in Nat
      /\ h.dereg[0].next \in Nat /\ h.dereg[0].next + (h.m + 1) <= MaxActions
  BY <1>0, CallCounts
<1>2. /\ Sensible(y) /\ y.next <= h.dereg[0].next
      /\ \A w \in Variables : y.num[w] # None <=> ~ AllNull(w) /\ dropped'[w] < Len(registered[w])
  BY <1>y, PopNumbering
<1>3. PICK R : RunIs(R, y, h.m, h.pushes, h.pushed)
  <2>1. Counting(h.m, h.pushes, h.pushed)
    BY DEF InStep, History
  <2>2. y.next + h.m <= MaxActions
    <3>1. y.next \in Nat /\ MaxActions \in Nat
      BY <1>2, ConstantFacts DEF Sensible, Numbering
    <3> QED BY <1>1, <1>2, <3>1
  <2> QED BY <1>2, <2>1, <2>2, RunExists
<1>k. PICK k : k = WithPop(h, v, R)
  OBVIOUS
<1>4. /\ History(k)'
      /\ k.sync = h.sync /\ k.n = h.n + 1 /\ k.m = h.m /\ k.pushes = h.pushes
      /\ k.pops[h.n + 1] = v /\ \A j \in 1 .. h.n : k.pops[j] = h.pops[j]
      /\ k.dereg[0] = h.dereg[0] /\ k.popped[0] = h.popped[0]
  BY <1>y, <1>3, <1>k, PopHistory
<1>5. /\ localsToRemove' = [s \in Procs |-> Append(localsToRemove[s], Address(v, s))]
      /\ UNCHANGED <<localsToPush, globalsToPush, removedGlobals, localC,
                     local2global, new_addresses, table, i, other, found,
                     calls, entered, crossed, registered>>
  BY DEF PopReg, barrier
<1>6. ASSUME NEW s \in Procs
      PROVE  First(k, s, 1)'
  <2>1. /\ First(h, s, 1) /\ entered[s] = 3 * h.sync
        /\ calls[s] = h.sync /\ i[s] = 1 /\ new_addresses[s] = Empty
        /\ Holds(s, h.dereg[0], ListsAfterPops(h, 0))
        /\ Asked(h, s, 0) /\ ToDrop(h, s, 1) /\ MapIs(h, s)
        /\ IF 1 <= h.n THEN Seeking(s, h.pops[1]) ELSE Idle(s)
    BY <1>0, CallFrom
  <2>2. localsToRemove[s] \in Seq(Addresses) /\ Address(v, s) \in Addresses
    BY Addressing, TypesOfState DEF RequestsInv, Addresses
  <2>3. /\ Len(localsToRemove'[s]) = Len(localsToRemove[s]) + 1
        /\ \A j \in 1 .. Len(localsToRemove[s]) : localsToRemove'[s][j] = localsToRemove[s][j]
        /\ localsToRemove'[s][Len(localsToRemove[s]) + 1] = Address(v, s)
    BY <1>5, <2>2, PushOnStack, AppendElements
  <2>4. ToDrop(k, s, 1)'
    <3>1. Len(localsToRemove[s]) = h.n
      BY <2>1 DEF ToDrop
    <3>2. \A j \in 1 .. h.n + 1 : j = h.n + 1 \/ j \in 1 .. h.n
      BY <1>1
    <3> QED BY <1>4, <2>1, <2>3, <3>1, <3>2 DEF ToDrop
  <2>5. Asked(k, s, 0)'
    BY <1>4, <1>5, <2>1 DEF Asked
  <2>6. MapIs(k, s)' /\ Exhausted(k, s, 1)'
    BY <1>4, <1>5, <2>1 DEF MapIs, Exhausted
  <2>7. Holds(s, k.dereg[0], ListsAfterPops(k, 0))'
    <3>1. ListsAfterPops(k, 0)' = ListsAfterPops(h, 0)
      BY <1>4, <1>5 DEF ListsAfterPops
    <3>2. PICK L, x : L = ListsAfterPops(h, 0) /\ x = h.dereg[0]
      OBVIOUS
    <3>3. Holds(s, x, L)'
      BY <1>5, <2>1, <3>2 DEF Holds, Lists
    <3>4. L = ListsAfterPops(k, 0)' /\ x = k.dereg[0]
      BY <1>4, <3>1, <3>2
    <3> QED BY <3>3, <3>4 DEF Holds
  <2>8. IF 1 <= k.n THEN Seeking(s, k.pops[1])' ELSE Idle(s)'
    <3>1. 1 <= k.n
      BY <1>1, <1>4
    <3>2. CASE 1 <= h.n
      <4>1. k.pops[1] = h.pops[1]
        BY <1>1, <1>4, <3>2
      <4> QED BY <1>5, <2>1, <3>1, <3>2, <4>1 DEF Seeking
    <3>3. CASE ~ (1 <= h.n)
      <4>1. other[s] = 0 /\ ~ found[s]
        BY <2>1, <3>3 DEF Idle
      <4>2. \A t \in Procs : ~ (t < 0)
        BY ConstantFacts
      <4> QED BY <1>5, <3>1, <4>1, <4>2 DEF Seeking
    <3> QED BY <3>2, <3>3
  <2>9. 1 - 1 = 0 /\ 1 \in 1 .. k.n + 1
    BY <1>1, <1>4
  <2> QED BY <1>4, <1>5, <2>1, <2>4, <2>5, <2>6, <2>7, <2>8, <2>9 DEF First
<1>7. \E s \in Procs : entered'[s] < 3 * k.sync + 3
  BY <1>4, <1>5 DEF InStep
<1>8. \A s \in Procs : Somewhere(k, s)'
  BY <1>6, Zenon DEF Somewhere
<1>9. InStep(k)'
  BY <1>4, <1>7, <1>8 DEF InStep
<1> QED BY <1>9

(* What a call of bsp_push_reg adds to the history. *)
WithPush(h, v, size, R) ==
  [sync |-> h.sync, n |-> h.n, m |-> h.m + 1, pops |-> h.pops,
   pushes |-> [j \in 1 .. h.m + 1 |->
     IF j = h.m + 1 THEN [of |-> v, size |-> size] ELSE h.pushes[j]],
   popped |-> h.popped,
   pushed |-> [j \in 0 .. h.m + 1 |->
     IF j = h.m + 1 THEN [added EXCEPT ![v] = Append(@, size)] ELSE h.pushed[j]],
   dereg |-> h.dereg, reg |-> R]

(* A call of bsp_push_reg extends the registrations asked for. *)
LEMMA PushCounting ==
  ASSUME RequestsInv, NEW h, InStep(h), NEW v \in Variables, NEW size \in Sizes, PushReg(v, size),
         NEW R, NEW k, k = WithPush(h, v, size, R)
  PROVE  /\ Counting(k.m, k.pushes, k.pushed)
         /\ k.sync = h.sync /\ k.n = h.n /\ k.m = h.m + 1 /\ k.pops = h.pops
         /\ k.popped = h.popped /\ k.dereg = h.dereg /\ k.reg = R
         /\ k.pushes[h.m + 1] = [of |-> v, size |-> size]
         /\ \A j \in 1 .. h.m : k.pushes[j] = h.pushes[j]
         /\ k.pushed[k.m] = added'
<1>0. Calling
  BY DEF PushReg
<1>1. h.m \in Nat /\ h.pushed[h.m] = added
  BY <1>0, CallCounts
<1>2. added' = [added EXCEPT ![v] = Append(@, size)]
  BY DEF PushReg
<1>3. /\ k.sync = h.sync /\ k.n = h.n /\ k.m = h.m + 1 /\ k.pops = h.pops
      /\ k.popped = h.popped /\ k.dereg = h.dereg /\ k.reg = R
      /\ k.pushes = [j \in 1 .. h.m + 1 |-> IF j = h.m + 1 THEN [of |-> v, size |-> size] ELSE h.pushes[j]]
      /\ k.pushed = [j \in 0 .. h.m + 1 |-> IF j = h.m + 1 THEN added' ELSE h.pushed[j]]
  BY <1>2 DEF WithPush
<1>4. /\ k.pushes[h.m + 1] = [of |-> v, size |-> size]
      /\ \A j \in 1 .. h.m : k.pushes[j] = h.pushes[j]
      /\ k.pushed[h.m + 1] = added'
      /\ \A j \in 0 .. h.m : k.pushed[j] = h.pushed[j]
  BY <1>1, <1>3
<1>5. /\ 0 \in 0 .. h.m
      /\ \A j : j \in 0 .. h.m + 1 => j = h.m + 1 \/ j \in 0 .. h.m
      /\ \A j : j \in 1 .. h.m + 1 => j = h.m + 1 \/ j \in 1 .. h.m
      /\ \A j : j \in 0 .. (h.m + 1) - 1 => j = h.m \/ j \in 0 .. h.m - 1
      /\ \A j : j \in 0 .. h.m - 1 => j \in 0 .. h.m /\ j + 1 \in 0 .. h.m /\ j + 1 \in 1 .. h.m
      /\ h.m \in 0 .. h.m
  BY <1>1
<1>6. Counting(h.m, h.pushes, h.pushed)
  BY DEF InStep, History
<1>7. added \in [Variables -> Seq(Sizes)] /\ added' \in [Variables -> Seq(Sizes)]
  <2>1. added \in [Variables -> Seq(Sizes)]
    BY TypesOfState DEF RequestsInv
  <2>2. Append(added[v], size) \in Seq(Sizes)
    BY <2>1
  <2> QED BY <1>2, <2>1, <2>2
<1>8. \A j \in 1 .. k.m : k.pushes[j] \in [of : Variables, size : Sizes]
  BY <1>3, <1>4, <1>5, <1>6 DEF Counting
<1>9. k.pushed[0] = [w \in Variables |-> <<>>]
  BY <1>4, <1>5, <1>6 DEF Counting
<1>10. ASSUME NEW j \in 0 .. k.m-1
       PROVE  k.pushed[j+1] = [k.pushed[j] EXCEPT ![k.pushes[j+1].of] = Append(@, k.pushes[j+1].size)]
  <2>1. CASE j = h.m
    <3>1. k.pushed[j+1] = added' /\ k.pushed[j] = added /\ k.pushes[j+1].of = v /\ k.pushes[j+1].size = size
      BY <1>1, <1>4, <1>5, <2>1
    <3> QED BY <1>2, <3>1
  <2>2. CASE j \in 0 .. h.m - 1
    <3>1. k.pushed[j+1] = h.pushed[j+1] /\ k.pushed[j] = h.pushed[j] /\ k.pushes[j+1] = h.pushes[j+1]
      BY <1>4, <1>5, <2>2
    <3> QED BY <1>6, <2>2, <3>1 DEF Counting
  <2> QED BY <1>3, <1>5, <2>1, <2>2
<1>11. \A j \in 0 .. k.m : k.pushed[j] \in [Variables -> Seq(Sizes)]
  BY <1>3, <1>4, <1>5, <1>6, <1>7 DEF Counting
<1>12. k.m \in Nat
  BY <1>1, <1>3
<1>13. Counting(k.m, k.pushes, k.pushed)
  BY <1>8, <1>9, <1>10, <1>11, <1>12 DEF Counting
<1> QED BY <1>3, <1>4, <1>13

(* A careful program, or one without NULLs, stays so. *)
LEMMA PushCare ==
  ASSUME Careful \/ NullAt = {},
         RequestsInv, NEW h, InStep(h), NEW v \in Variables, NEW size \in Sizes, PushReg(v, size),
         NEW k, k.m = h.m + 1, k.pushes[h.m + 1] = [of |-> v, size |-> size],
         \A j \in 1 .. h.m : k.pushes[j] = h.pushes[j]
  PROVE  CareTaken(k)'
<1>0. Calling /\ UNCHANGED registered /\ added' = [added EXCEPT ![v] = Append(@, size)]
  BY DEF PushReg
<1>1. h.m \in Nat /\ CareTaken(h)
  BY <1>0, CallCounts DEF InStep, History
<1>2. /\ \A w \in Variables : HasNulls(w) => Len(registered[w]) + Len(added[w]) <= 1
      /\ \A j \in 1 .. h.m : HasNulls(h.pushes[j].of) => j = 1 /\ registered[h.pushes[j].of] = <<>>
      /\ (\A w \in Variables : added[w] = <<>>) => h.m = 0
  BY <1>1 DEF CareTaken
<1>3. HasNulls(v) => registered[v] = <<>> /\ (\A w \in Variables : added[w] = <<>>) /\ h.m = 0
  <2>1. ASSUME HasNulls(v), NullAt = {}
        PROVE  FALSE
    BY <2>1 DEF HasNulls
  <2>2. ASSUME HasNulls(v), Careful
        PROVE  registered[v] = <<>> /\ \A w \in Variables : added[w] = <<>>
    BY <2>2, Zenon DEF PushReg
  <2> QED BY <1>2, <2>1, <2>2
<1>4. added \in [Variables -> Seq(Sizes)] /\ \A w \in Variables : Len(added[w]) \in Nat
  <2>1. added \in [Variables -> Seq(Sizes)]
    BY TypesOfState DEF RequestsInv
  <2> QED BY <2>1, LengthOfStack
<1>5. /\ added'[v] = Append(added[v], size) /\ added'[v] # <<>>
      /\ Len(added'[v]) = Len(added[v]) + 1
      /\ \A w \in Variables : w # v => added'[w] = added[w]
  <2>1. added'[v] = Append(added[v], size)
    BY <1>0, <1>4
  <2>2. Append(added[v], size) # <<>> /\ Len(Append(added[v], size)) = Len(added[v]) + 1
    BY <1>4, AppendIsNotEmpty, PushOnStack
  <2>3. \A w \in Variables : w # v => added'[w] = added[w]
    BY <1>0, <1>4
  <2> QED BY <2>1, <2>2, <2>3
<1>6. ASSUME NEW w \in Variables, HasNulls(w)
      PROVE  Len(registered'[w]) + Len(added'[w]) <= 1
  <2>1. CASE w = v
    <3>1. registered[v] = <<>> /\ added[v] = <<>>
      BY <1>3, <1>6, <2>1
    <3>2. Len(registered'[v]) = 0 /\ Len(added'[v]) = 1
      BY <1>0, <1>5, <3>1, EmptySeq
    <3> QED BY <2>1, <3>2
  <2>2. CASE w # v
    BY <1>0, <1>2, <1>5, <1>6, <2>2
  <2> QED BY <2>1, <2>2
<1>7. ASSUME NEW j \in 1 .. k.m, HasNulls(k.pushes[j].of)
      PROVE  j = 1 /\ registered'[k.pushes[j].of] = <<>>
  <2>1. CASE j = h.m + 1
    <3>1. k.pushes[j].of = v
      BY <2>1
    <3> QED BY <1>0, <1>1, <1>3, <1>7, <2>1, <3>1
  <2>2. CASE j # h.m + 1
    <3>1. j \in 1 .. h.m
      BY <1>1, <2>2
    <3> QED BY <1>0, <1>2, <1>7, <3>1
  <2> QED BY <2>1, <2>2
<1>8. ~ \A w \in Variables : added'[w] = <<>>
  BY <1>5
<1> QED BY <1>6, <1>7, <1>8 DEF CareTaken

(* A call of bsp_push_reg keeps the processes in step. *)
LEMMA PushRegInStep ==
  ASSUME Careful \/ NullAt = {},
         RequestsInv, NEW h, InStep(h), NEW v \in Variables, NEW size \in Sizes, PushReg(v, size)
  PROVE  \E k : InStep(k)'
<1>x. PICK x : x = h.dereg[h.n]
  OBVIOUS
<1>0. Calling
  BY DEF PushReg
<1>1. /\ h.n \in Nat /\ h.m \in Nat /\ actions \in Nat /\ actions' = actions + 1
      /\ h.dereg[0].next \in Nat /\ h.dereg[0].next + (h.m + 1) <= MaxActions
      /\ h.dereg[0].next + h.m <= actions
      /\ Sensible(x) /\ x.next \in Nat /\ x.next <= h.dereg[0].next /\ AfterPops(h, h.n)
      /\ h.popped[h.n] = dropped
  BY <1>0, <1>x, CallCounts
<1>2. PICK R : \A k : k = WithPush(h, v, size, h.reg) => RunIs(R, x, k.m, k.pushes, k.pushed)
  <2>1. PICK k : k = WithPush(h, v, size, h.reg)
    OBVIOUS
  <2>2. Counting(k.m, k.pushes, k.pushed) /\ k.m = h.m + 1
    <3>1. PICK Q : Q = h.reg
      OBVIOUS
    <3>2. k = WithPush(h, v, size, Q)
      BY <2>1, <3>1
    <3>3. /\ Counting(k.m, k.pushes, k.pushed)
          /\ k.sync = h.sync /\ k.n = h.n /\ k.m = h.m + 1 /\ k.pops = h.pops
          /\ k.popped = h.popped /\ k.dereg = h.dereg /\ k.reg = Q
          /\ k.pushes[h.m + 1] = [of |-> v, size |-> size]
          /\ \A j \in 1 .. h.m : k.pushes[j] = h.pushes[j]
          /\ k.pushed[k.m] = added'
      BY <3>2, PushCounting
    <3> QED BY <3>3
  <2>3. x.next + k.m <= MaxActions
    <3>1. MaxActions \in Nat
      BY ConstantFacts
    <3> QED BY <1>1, <2>2, <3>1
  <2>4. \A w \in Variables : x.num[w] # None => ~ AllNull(w)
    BY <1>1, <1>x DEF AfterPops
  <2>5. \E R : RunIs(R, x, k.m, k.pushes, k.pushed)
    BY <1>1, <2>2, <2>3, <2>4, RunExists
  <2> QED BY <2>1, <2>5
<1>k. PICK k : k = WithPush(h, v, size, R)
  OBVIOUS
<1>3. /\ Counting(k.m, k.pushes, k.pushed)
      /\ k.sync = h.sync /\ k.n = h.n /\ k.m = h.m + 1 /\ k.pops = h.pops
      /\ k.popped = h.popped /\ k.dereg = h.dereg /\ k.reg = R
      /\ k.pushes[h.m + 1] = [of |-> v, size |-> size]
      /\ \A j \in 1 .. h.m : k.pushes[j] = h.pushes[j]
      /\ k.pushed[k.m] = added'
  BY <1>k, PushCounting
<1>4. RunIs(k.reg, k.dereg[k.n], k.m, k.pushes, k.pushed)
  <2>1. PICK u : u = WithPush(h, v, size, h.reg)
    OBVIOUS
  <2>2. RunIs(R, x, u.m, u.pushes, u.pushed)
    BY <1>2, <2>1
  <2>3. u.m = k.m /\ u.pushes = k.pushes /\ u.pushed = k.pushed
    BY <1>k, <2>1 DEF WithPush
  <2> QED BY <1>3, <1>x, <2>2, <2>3
<1>5. /\ localsToPush' = [s \in Procs |->
           Append(localsToPush[s], [address |-> Address(v, s), size |-> size])]
      /\ UNCHANGED <<localsToRemove, globalsToPush, removedGlobals, localC,
                     local2global, new_addresses, table, i, other, found,
                     calls, entered, crossed, registered, dropped>>
  BY DEF PushReg, barrier
<1>6. History(k)'
  <2>1. CareTaken(k)'
    BY <1>3, PushCare
  <2>2. Dropping(k)' /\ Releasing(k)'
    <3>1. Dropping(h) /\ Releasing(h)
      BY DEF InStep, History
    <3>2. Dropping(k)'
      BY <1>3, <1>5, <3>1 DEF Dropping
    <3>3. Releasing(k)'
      BY <1>3, <1>5, <3>1 DEF Releasing, AfterPops
    <3> QED BY <3>2, <3>3
  <2>3. k.sync \in Nat /\ k.popped[k.n] = dropped'
    BY <1>1, <1>3, <1>5 DEF InStep, History
  <2>4. k.dereg[0].next + k.m <= actions'
    BY <1>1, <1>3
  <2> QED BY <1>3, <1>4, <2>1, <2>2, <2>3, <2>4 DEF History
<1>7. ASSUME NEW s \in Procs
      PROVE  First(k, s, 1)'
  <2>1. /\ First(h, s, 1) /\ entered[s] = 3 * h.sync
        /\ calls[s] = h.sync /\ i[s] = 1 /\ new_addresses[s] = Empty
        /\ Holds(s, h.dereg[0], ListsAfterPops(h, 0))
        /\ Asked(h, s, 0) /\ ToDrop(h, s, 1) /\ MapIs(h, s)
        /\ IF 1 <= h.n THEN Seeking(s, h.pops[1]) ELSE Idle(s)
    BY <1>0, CallFrom
  <2>e. PICK e : e = [address |-> Address(v, s), size |-> size]
    OBVIOUS
  <2>2. localsToPush[s] \in Seq(Request) /\ e \in Request
    BY <2>e, Addressing, TypesOfState DEF RequestsInv, Request
  <2>3. /\ Len(localsToPush'[s]) = Len(localsToPush[s]) + 1
        /\ \A j \in 1 .. Len(localsToPush[s]) : localsToPush'[s][j] = localsToPush[s][j]
        /\ localsToPush'[s][Len(localsToPush[s]) + 1] = e
    <3>1. localsToPush'[s] = Append(localsToPush[s], e)
      BY <1>5, <2>e
    <3> QED BY <2>2, <3>1, PushOnStack, AppendElements
  <2>4. Asked(k, s, 0)'
    <3>1. Len(localsToPush[s]) = h.m
      BY <2>1 DEF Asked
    <3>2. \A j \in 1 .. k.m : j = h.m + 1 \/ j \in 1 .. h.m
      BY <1>1, <1>3
    <3>3. Len(localsToPush'[s]) = k.m
      BY <1>3, <2>3, <3>1
    <3>4. ASSUME NEW j \in 1 .. k.m
          PROVE  /\ localsToPush'[s][j].size = k.pushes[j].size
                 /\ \/ localsToPush'[s][j].address = Address(k.pushes[j].of, s)
                    \/ localsToPush'[s][j].address = Null /\ ~ HasNulls(k.pushes[j].of) /\ j <= 0
      <4>1. CASE j = h.m + 1
        <5>1. localsToPush'[s][j] = e /\ k.pushes[j].of = v /\ k.pushes[j].size = size
          BY <1>3, <2>3, <3>1, <4>1
        <5> QED BY <2>e, <5>1
      <4>2. CASE j \in 1 .. h.m
        BY <1>3, <2>1, <2>3, <3>1, <4>2 DEF Asked
      <4> QED BY <3>2, <4>1, <4>2
    <3> QED BY <3>3, <3>4 DEF Asked
  <2>5. ToDrop(k, s, 1)' /\ MapIs(k, s)' /\ Exhausted(k, s, 1)'
    BY <1>3, <1>5, <2>1 DEF MapIs, Exhausted, ToDrop
  <2>6. Holds(s, k.dereg[0], ListsAfterPops(k, 0))'
    <3>1. ListsAfterPops(k, 0)' = ListsAfterPops(h, 0)
      BY <1>3, <1>5 DEF ListsAfterPops
    <3>2. PICK L, y : L = ListsAfterPops(h, 0) /\ y = h.dereg[0]
      OBVIOUS
    <3>3. Holds(s, y, L)'
      BY <1>5, <2>1, <3>2 DEF Holds, Lists
    <3>4. L = ListsAfterPops(k, 0)' /\ y = k.dereg[0]
      BY <1>3, <3>1, <3>2
    <3> QED BY <3>3, <3>4 DEF Holds
  <2>7. IF 1 <= k.n THEN Seeking(s, k.pops[1])' ELSE Idle(s)'
    BY <1>3, <1>5, <2>1 DEF Seeking, Idle
  <2>8. 1 - 1 = 0 /\ 1 \in 1 .. k.n + 1
    BY <1>1, <1>3
  <2> QED BY <1>3, <1>5, <2>1, <2>4, <2>5, <2>6, <2>7, <2>8 DEF First
<1>8. \E s \in Procs : entered'[s] < 3 * k.sync + 3
  BY <1>3, <1>5 DEF InStep
<1>9. \A s \in Procs : Somewhere(k, s)'
  BY <1>7, Zenon DEF Somewhere
<1>10. InStep(k)'
  BY <1>6, <1>8, <1>9 DEF InStep
<1> QED BY <1>10

(* Before the first superstep nothing has a number. *)
Nothing == [num |-> [v \in Variables |-> None], freed |-> <<>>, next |-> 0]

(* The processes start in step. *)
LEMMA NothingInStep ==
  ASSUME Init
  PROVE  \E h : InStep(h)
<1>x. PICK x : x = Nothing
  OBVIOUS
<1>h. PICK h : h = NextSuperstep(0, x)
  OBVIOUS
<1>1. /\ h.sync = 0 /\ h.n = 0 /\ h.m = 0
      /\ h.popped[0] = [v \in Variables |-> 0] /\ h.pushed[0] = [v \in Variables |-> <<>>]
      /\ h.dereg[0] = x /\ h.reg[0] = x
  BY <1>h DEF NextSuperstep
<1>2. /\ x.num = [v \in Variables |-> None] /\ x.freed = <<>> /\ x.next = 0
      /\ x \in Numbering
  <2>1. <<>> \in Seq(Numbers)
    OBVIOUS
  <2> QED BY <1>x, <2>1 DEF Nothing, Numbering
<1>3. Sensible(x)
  <2>1. Len(x.freed) = 0
    BY <1>2, EmptySeq
  <2>2. NumbersDiffer(x)
    BY <1>2, <2>1 DEF NumbersDiffer
  <2> QED BY <1>2, <2>2 DEF Sensible
<1>4. /\ actions = 0 /\ registered = [v \in Variables |-> <<>>]
      /\ added = [v \in Variables |-> <<>>] /\ dropped = [v \in Variables |-> 0]
      /\ \A v \in Variables : Len(registered[v]) = 0 /\ Len(added[v]) = 0
  BY EmptySeq DEF Init
<1>5. Dropping(h)
  BY <1>1, <1>4 DEF Dropping
<1>6. Releasing(h)
  <2>1. AfterPops(h, 0)
    <3>1. \A v \in Variables : h.popped[0][v] = 0
      BY <1>1
    <3> QED BY <1>1, <1>2, <1>3, <1>4, <3>1 DEF AfterPops
  <2> QED BY <1>1, <2>1 DEF Releasing
<1>7. Counting(h.m, h.pushes, h.pushed)
  <2>1. [v \in Variables |-> <<>>] \in [Variables -> Seq(Sizes)]
    <3>1. <<>> \in Seq(Sizes)
      OBVIOUS
    <3> QED BY <3>1
  <2>2. h.pushed[0] \in [Variables -> Seq(Sizes)]
    BY <1>1, <2>1, Zenon
  <2>3. (\A j \in 0 .. 0-1 : FALSE) /\ (\A j \in 1 .. 0 : FALSE)
    OBVIOUS
  <2>4. \A j \in 0 .. 0 : h.pushed[j] \in [Variables -> Seq(Sizes)]
    BY <2>2
  <2> QED BY <1>1, <2>3, <2>4 DEF Counting
<1>8. RunIs(h.reg, h.dereg[h.n], h.m, h.pushes, h.pushed)
  <2>1. AfterPushes(h.reg, x, 0, h.pushed)
    BY <1>1, <1>2, <1>3 DEF AfterPushes
  <2> QED BY <1>1, <2>1 DEF RunIs
<1>9. CareTaken(h)
  BY <1>1, <1>4 DEF CareTaken
<1>10. History(h)
  BY <1>1, <1>2, <1>4, <1>5, <1>6, <1>7, <1>8, <1>9 DEF History
<1>11. ASSUME NEW s \in Procs
       PROVE  First(h, s, 1) /\ entered[s] = 0
  <2>1. /\ calls[s] = 0 /\ entered[s] = 0 /\ crossed[s] = 0 /\ i[s] = 1 /\ Idle(s)
        /\ localsToPush[s] = <<>> /\ localsToRemove[s] = <<>>
        /\ localC[s] = 0 /\ removedGlobals[s] = <<>>
        /\ \A g \in Numbers : table[g][s] = <<>>
        /\ new_addresses[s] = Empty /\ local2global[s] = Empty
    BY DEF Init, Bar!Init, Bar!Procs, Procs, Idle
  <2>2. Len(localsToPush[s]) = 0 /\ Len(localsToRemove[s]) = 0
    BY <2>1, EmptySeq
  <2>3. Holds(s, x, ListsAfterPops(h, 0))
    BY <1>2, <2>1, NoneAssumption DEF Holds
  <2>4. Asked(h, s, 0) /\ ToDrop(h, s, 1)
    BY <1>1, <2>2 DEF Asked, ToDrop
  <2>5. MapIs(h, s) /\ Exhausted(h, s, 1)
    BY <1>1, <1>2, <2>1 DEF MapIs, Exhausted, Empty
  <2>6. 1 - 1 = 0 /\ 1 \in 1 .. 0 + 1 /\ ~ (1 <= 0) /\ 3 * 0 = 0
    OBVIOUS
  <2> QED BY <1>1, <2>1, <2>3, <2>4, <2>5, <2>6 DEF First
<1>12. \A s \in Procs : Somewhere(h, s)
  BY <1>11, Zenon DEF Somewhere
<1>13. \E s \in Procs : entered[s] < 3 * h.sync + 3
  BY <1>1, <1>11, ConstantFacts
<1>14. InStep(h)
  BY <1>10, <1>12, <1>13 DEF InStep
<1> QED BY <1>14

(* They stay in step when nothing happens. *)
LEMMA StutterInStep ==
  ASSUME NEW h, InStep(h), UNCHANGED vars
  PROVE  InStep(h)'
<1>1. UNCHANGED history
  BY DEF vars, history
<1>2. \A s \in Procs : Unmoved(s)
  BY DEF vars, Unmoved
<1>3. entered' = entered
  BY DEF vars
<1>4. \A s \in Procs : Somewhere(h, s)'
  BY <1>1, <1>2, StaysSomewhere DEF InStep
<1>5. History(h)'
  BY <1>1, HistoryRests DEF InStep
<1> QED BY <1>3, <1>4, <1>5 DEF InStep

(* The numberings of the superstep in progress say where everybody is. *)
SuperstepInv == \E h : InStep(h)

(* Every step of the program keeps them in step. *)
LEMMA SuperstepGoesOn ==
  ASSUME Careful \/ NullAt = {}, RequestsInv, SuperstepInv, [Next]_vars
  PROVE  SuperstepInv'
<1>h. PICK h : InStep(h)
  BY DEF SuperstepInv
<1>1. CASE \E v \in Variables : PopReg(v)
  BY <1>h, <1>1, PopRegInStep DEF SuperstepInv
<1>2. CASE \E v \in Variables, size \in Sizes : PushReg(v, size)
  BY <1>h, <1>2, PushRegInStep DEF SuperstepInv
<1>3. CASE \E s \in Procs : ArriveStart(s)
  BY <1>h, <1>3, ArriveStartInStep DEF SuperstepInv
<1>4. CASE \E s \in Procs : SeekRemoval(s)
  BY <1>h, <1>4, SeekRemovalInStep DEF SuperstepInv
<1>5. CASE \E s \in Procs : IgnoreRemoval(s)
  BY <1>h, <1>5, IgnoreRemovalInStep DEF SuperstepInv
<1>6. CASE \E s \in Procs : Deregister(s)
  BY <1>h, <1>6, DeregisterInStep DEF SuperstepInv
<1>7. CASE \E s \in Procs : ArriveMid(s)
  BY <1>h, <1>7, ArriveMidInStep DEF SuperstepInv
<1>8. CASE \E s \in Procs : Forget(s)
  BY <1>h, <1>8, ForgetInStep DEF SuperstepInv
<1>9. CASE \E s \in Procs : SeekRegistration(s)
  BY <1>h, <1>9, SeekRegistrationInStep DEF SuperstepInv
<1>10. CASE \E s \in Procs : IgnoreRegistration(s)
  BY <1>h, <1>10, IgnoreRegistrationInStep DEF SuperstepInv
<1>11. CASE \E s \in Procs : Register(s)
  BY <1>h, <1>11, RegisterInStep DEF SuperstepInv
<1>12. CASE \E s \in Procs : ArriveEnd(s)
  BY <1>h, <1>12, ArriveEndInStep DEF SuperstepInv
<1>13. CASE \E s \in Procs : Remember(s)
  BY <1>h, <1>13, RememberInStep DEF SuperstepInv
<1>14. CASE \E s \in Procs : Return(s)
  BY <1>h, <1>14, ReturnInStep DEF SuperstepInv
<1>15. CASE \E s \in Procs : Cross(s)
  BY <1>h, <1>15, CrossInStep DEF SuperstepInv
<1>16. CASE UNCHANGED vars
  BY <1>h, <1>16, StutterInStep DEF SuperstepInv
<1> QED
  BY <1>1, <1>2, <1>3, <1>4, <1>5, <1>6, <1>7, <1>8, <1>9, <1>10, <1>11, <1>12,
     <1>13, <1>14, <1>15, <1>16, Cases

(* Every state has a history, if the program registers no variable with
   NULLs or is careful with those it does. *)
LEMMA SuperstepAlways ==
  ASSUME Careful \/ NullAt = {}
  PROVE  Spec => [](RequestsInv /\ SuperstepInv)
<1>1. Init => SuperstepInv
  BY NothingInStep DEF SuperstepInv
<1>2. RequestsInv /\ SuperstepInv /\ [Next]_vars => SuperstepInv'
  BY SuperstepGoesOn
<1>3. Spec => []RequestsInv
  BY RequestsCorrect
<1> QED BY <1>1, <1>2, <1>3, PTL DEF Spec

(* Processes in step free and give the same numbers. *)
LEMMA SameNumbers == RequestsInv /\ SuperstepInv => NumbersInStep
<1> SUFFICES ASSUME RequestsInv, SuperstepInv, NEW s \in Procs, NEW t \in Procs,
                    Phase(s) = "compute", Phase(t) = "compute"
             PROVE  localC[s] = localC[t] /\ removedGlobals[s] = removedGlobals[t]
  BY DEF NumbersInStep
<1>1. PICK h : InStep(h)
  BY DEF SuperstepInv
<1>2. First(h, s, 1) /\ First(h, t, 1)
  BY <1>1, Where
<1>3. Holds(s, h.dereg[1-1], ListsAfterPops(h, 1-1)) /\ Holds(t, h.dereg[1-1], ListsAfterPops(h, 1-1))
  BY <1>2 DEF First
<1> QED BY <1>3 DEF Holds

(* A stack of the table is the sequence that the registrations make. *)
LEMMA ListsAre ==
  ASSUME NEW v \in Variables, NEW t \in Procs, NEW q \in Seq(Request), NEW l \in Seq(Sizes),
         Lists(q, v, t, l)
  PROVE  q = [j \in 1 .. Len(l) |-> [address |-> Address(v, t), size |-> l[j]]]
<1>1. Len(q) = Len(l) /\ \A j \in 1 .. Len(l) : q[j] = [address |-> Address(v, t), size |-> l[j]]
  BY DEF Lists
<1>2. q = [j \in 1 .. Len(q) |-> q[j]]
  OBVIOUS
<1> QED BY <1>1, <1>2

(* Of processes in step, everybody finds what a variable is registered
   with, for every process. *)
LEMMA Resolves == RequestsInv /\ SuperstepInv => RegistrationsResolve
<1> SUFFICES ASSUME RequestsInv, SuperstepInv, NEW s \in Procs, NEW v \in Variables,
                    Phase(s) = "compute", <<v, s>> \notin NullAt
             PROVE  IF registered[v] = <<>> THEN local2global[s][v] = None
                    ELSE /\ local2global[s][v] # None
                         /\ \A t \in Procs :
                              table[local2global[s][v]][t] = [j \in 1 .. Len(registered[v]) |->
                                [address |-> Address(v, t), size |-> registered[v][j]]]
  BY DEF RegistrationsResolve
<1>1. PICK h : InStep(h)
  BY DEF SuperstepInv
<1>x. PICK x : x = h.dereg[0]
  OBVIOUS
<1>2. First(h, s, 1) /\ crossed[s] = 3 * h.sync /\ entered[s] = 3 * h.sync
  BY <1>1, Where
<1>3. Held(v, s) /\ ~ AllNull(v)
  BY DEF Held, AllNull
<1>4. local2global[s][v] = x.num[v]
  BY <1>2, <1>3, <1>x DEF First, MapIs
<1>5. h.n \in Nat /\ h.sync \in Nat /\ Dropping(h) /\ Releasing(h)
  BY <1>1 DEF InStep, History, Dropping
<1>6. 0 \in 0 .. h.n
  BY <1>5
<1>7. AfterPops(h, 0) /\ h.popped[0] = [w \in Variables |-> 0]
  BY <1>5, <1>6 DEF Releasing, Dropping
<1>8. x.num[v] # None <=> 0 < Len(registered[v])
  BY <1>3, <1>7, <1>x DEF AfterPops
<1>9. registered[v] \in Seq(Sizes) /\ Len(registered[v]) \in Nat /\ (registered[v] = <<>> <=> Len(registered[v]) = 0)
  <2>1. registered[v] \in Seq(Sizes)
    BY TypesOfState DEF RequestsInv
  <2> QED BY <2>1, LengthOfStack
<1>10. x.num[v] \in Numbers \cup {None}
  BY <1>7, <1>x DEF AfterPops, Sensible, Numbering
<1>11. ASSUME NEW t \in Procs
       PROVE  Holds(t, x, registered)
  <2>1. /\ entered[t] \in Nat /\ crossed[t] \in Nat /\ calls[t] \in Nat
        /\ crossed[t] <= 3 * h.sync /\ entered[t] <= crossed[t] + 1 /\ 3 * calls[t] <= crossed[t]
    <3>1. TypeOK /\ BarriersInStep
      BY DEF RequestsInv
    <3> QED BY <1>2, <3>1, TypesOfBarrier DEF BarriersInStep
  <2>2. Somewhere(h, t)
    BY <1>1 DEF InStep
  <2>3. ASSUME NEW d, Last(h, t, d)
        PROVE  Holds(t, x, registered)
    BY <2>3, <1>x DEF Last
  <2>4. ASSUME NEW p, First(h, t, p)
        PROVE  Holds(t, x, registered)
    <3>1. calls[t] = h.sync
      BY <2>4 DEF First
    <3>2. crossed[t] = 3 * h.sync
      BY <1>5, <2>1, <3>1
    <3>3. p = 1 /\ Holds(t, h.dereg[p-1], ListsAfterPops(h, p-1))
      BY <2>4, <3>2 DEF First
    <3>4. Holds(t, x, ListsAfterPops(h, 0))
      BY <3>3, <1>x
    <3>5. \A w \in Variables : ListsAfterPops(h, 0)[w] = registered[w]
      BY <1>1, NothingDroppedYet
    <3> QED BY <3>4, <3>5, SameLists
  <2>5. ASSUME NEW p, Second(h, t, p)
        PROVE  FALSE
    BY <1>5, <2>1, <2>5 DEF Second
  <2>6. ~ Third(h, t)
    BY <1>5, <2>1 DEF Third
  <2> QED BY <2>2, <2>3, <2>4, <2>5, <2>6, Zenon DEF Somewhere
<1>12. CASE registered[v] = <<>>
  BY <1>4, <1>8, <1>9, <1>12
<1>13. CASE registered[v] # <<>>
  <2>g. PICK g : g = x.num[v]
    OBVIOUS
  <2>1. g # None /\ g \in Numbers
    BY <1>8, <1>9, <1>10, <1>13, <2>g
  <2>2. ASSUME NEW t \in Procs
        PROVE  table[g][t] = [j \in 1 .. Len(registered[v]) |->
                                [address |-> Address(v, t), size |-> registered[v][j]]]
    <3>1. Lists(table[g][t], v, t, registered[v])
      BY <1>11, <2>1, <2>g DEF Holds
    <3>2. table[g][t] \in Seq(Request)
      BY <2>1, TypesOfState DEF RequestsInv
    <3>3. PICK q, l : q = table[g][t] /\ l = registered[v]
      OBVIOUS
    <3>4. q \in Seq(Request) /\ l \in Seq(Sizes) /\ Lists(q, v, t, l)
      BY <1>9, <3>1, <3>2, <3>3
    <3>5. q = [j \in 1 .. Len(l) |-> [address |-> Address(v, t), size |-> l[j]]]
      BY ONLY v \in Variables, t \in Procs, <3>4, ListsAre
    <3> QED BY <3>3, <3>5
  <2> QED BY <1>4, <1>13, <2>1, <2>2, <2>g
<1> QED BY <1>12, <1>13

(* Processes that have completed equally many calls of bsp_sync (bsp.c)
   agree on which numbers are free and which one comes next, though each
   works them out by itself: by induction over the steps, from the
   numberings of the superstep in progress. *)
THEOREM NumbersAgree ==
  ASSUME Careful \/ NullAt = {}
  PROVE  Spec => []RegInv
<1>1. RequestsInv /\ SuperstepInv => RegInv
  BY SameNumbers DEF RegInv
<1>2. Spec => [](RequestsInv /\ SuperstepInv)
  BY SuperstepAlways
<1> QED BY <1>1, <1>2, PTL

(* A variable that is registered is found by its address on every process
   that has one, and stands for its registrations on all processes, latest
   on top; one that is not registered is not found. *)
THEOREM VariablesResolve ==
  ASSUME Careful \/ NullAt = {}
  PROVE  Spec => []RegistrationsResolve
<1>1. RequestsInv /\ SuperstepInv => RegistrationsResolve
  BY Resolves
<1>2. Spec => [](RequestsInv /\ SuperstepInv)
  BY SuperstepAlways
<1> QED BY <1>1, <1>2, PTL
====
