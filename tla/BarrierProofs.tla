---- MODULE BarrierProofs ----
(***************************************************************************)
(* The two barriers of MulticoreBSP for C.  For every number of processes, *)
(* every byte width of at least three values and every number of rounds:   *)
(* the spin barrier is safe, its byte test is exact, and it implements the *)
(* abstract barrier.  For every program of bsp_sync and mcbsp_checkpoint:  *)
(* the barrier with the mutex counts its waiters, whichever condition      *)
(* variable they wait on; bsp_abort, which signals one condition only,     *)
(* wakes all of them when user code calls it and none when a failed        *)
(* checkpoint does; and it implements the same abstract barrier, aborts    *)
(* included.                                                               *)
(***************************************************************************)
EXTENDS MCBarriers, FiniteSetTheorems, TLAPS

LEMMA Constants ==
  /\ P \in Nat \ {0} /\ W \in Nat /\ W >= 3
  /\ MaxRounds \in Nat /\ MaxBarriers \in Nat
BY SpinAssumption, MutexAssumption DEF Spin!ConstantsAssumption, Mutex!ConstantsAssumption
----
(* The spin barrier. *)

LEMMA ProcsFacts ==
  /\ P \in Nat /\ P > 0
  /\ \A t : t \in Spin!Procs <=> t \in 0 .. P /\ t < P
BY Constants DEF Spin!Procs

(* A byte and its two successors are three different values, which is what
   the assumption on W is for. *)
LEMMA IncFacts ==
  ASSUME NEW c \in 0 .. W-1
  PROVE  /\ Spin!Inc(c) \in 0 .. W-1
         /\ Spin!Inc(c) # c
         /\ Spin!Inc(Spin!Inc(c)) # c
         /\ Spin!Inc(Spin!Inc(c)) # Spin!Inc(c)
BY Constants DEF Spin!Inc

(* Incrementing is injective: a byte is determined by its successor. *)
LEMMA IncInjective ==
  ASSUME NEW c \in 0 .. W-1, NEW d \in 0 .. W-1, Spin!Inc(c) = Spin!Inc(d)
  PROVE  c = d
BY Constants DEF Spin!Inc

(* The window: nobody is more than one arrival ahead of a process, and a
   process outside the barrier is never ahead of anybody. *)
LEMMA Window ==
  ASSUME Spin!SpinInv, NEW s \in Spin!Procs, NEW t \in Spin!Procs
  PROVE  /\ entered[s] \in Nat /\ entered[t] \in Nat
         /\ entered[t] <= entered[s] + 1
         /\ pc[s] = "run" => entered[t] >= entered[s]
         /\ pc[t] = "run" => entered[t] <= entered[s]
         /\ entered[s] <= crossed[s] + 1
BY DEF Spin!SpinInv, Spin!TypeOK, Spin!CallCounts, Spin!NobodyLeavesEarly

(* Between them the three conjuncts name every process' byte relative to
   that of a given process. *)
LEMMA BytesInWindow ==
  ASSUME Spin!SpinInv, NEW s \in Spin!Procs, NEW t \in Spin!Procs
  PROVE  \/ entered[t] = entered[s] /\ condition[t] = condition[s]
         \/ entered[t] = entered[s] + 1 /\ condition[t] = Spin!Inc(condition[s])
         \/ entered[s] = entered[t] + 1 /\ condition[s] = Spin!Inc(condition[t])
<1>1. /\ entered[s] \in Nat /\ entered[t] \in Nat
      /\ entered[t] <= entered[s] + 1
      /\ entered[s] <= entered[t] + 1
  BY Window
<1>2. Spin!BytesFollowArrivals
  BY DEF Spin!SpinInv
<1> QED BY <1>1, <1>2 DEF Spin!BytesFollowArrivals

(* The byte test is exact: only processes that have arrived are accepted. *)
LEMMA OpenIsArrived ==
  ASSUME Spin!SpinInv, NEW s \in Spin!Procs, NEW t \in Spin!Procs, ~ abort
  PROVE  Spin!Open(s, t) <=> entered[t] >= entered[s]
<1>1. condition[s] \in 0 .. W-1 /\ condition[t] \in 0 .. W-1
  BY DEF Spin!SpinInv, Spin!TypeOK
<1>2. entered[s] \in Nat /\ entered[t] \in Nat
  BY Window
<1>3. CASE entered[t] = entered[s] /\ condition[t] = condition[s]
  BY <1>2, <1>3 DEF Spin!Open
<1>4. CASE entered[t] = entered[s] + 1 /\ condition[t] = Spin!Inc(condition[s])
  BY <1>2, <1>4 DEF Spin!Open
<1>5. CASE entered[s] = entered[t] + 1 /\ condition[s] = Spin!Inc(condition[t])
  <2>1. /\ Spin!Inc(condition[t]) # condition[t]
        /\ Spin!Inc(Spin!Inc(condition[t])) # condition[t]
    BY <1>1, IncFacts
  <2>2. ~ Spin!Open(s, t)
    BY <2>1, <1>5 DEF Spin!Open
  <2> QED BY <2>2, <1>2, <1>5
<1> QED BY <1>3, <1>4, <1>5, BytesInWindow

LEMMA SpinInit == Spin!Init => Spin!SpinInv
<1> SUFFICES ASSUME Spin!Init
             PROVE  Spin!SpinInv
  OBVIOUS
<1>1. 0 \in 0 .. W-1 /\ 0 \in 0 .. P /\ 0 \in 0 .. MaxRounds
  BY Constants
<1>2. Spin!TypeOK
  BY <1>1 DEF Spin!Init, Spin!TypeOK
<1>3. Spin!CallCounts /\ Spin!NobodyLeavesEarly /\ Spin!BytesFollowArrivals /\ Spin!ScannedHaveArrived
  BY <1>1 DEF Spin!Init, Spin!CallCounts, Spin!NobodyLeavesEarly,
              Spin!BytesFollowArrivals, Spin!ScannedHaveArrived
<1> QED BY <1>2, <1>3 DEF Spin!SpinInv

LEMMA SpinKeeps == Spin!SpinInv /\ [Spin!Next]_(Spin!vars) => Spin!SpinInv'
<1> SUFFICES ASSUME Spin!SpinInv, [Spin!Next]_(Spin!vars)
             PROVE  Spin!SpinInv'
  OBVIOUS
<1>0. Spin!TypeOK /\ Spin!CallCounts /\ Spin!NobodyLeavesEarly /\ Spin!BytesFollowArrivals /\ Spin!ScannedHaveArrived
  BY DEF Spin!SpinInv
<1>1. ASSUME NEW p \in Spin!Procs, Spin!Enter(p)
      PROVE  Spin!SpinInv'
  <2>0. /\ entered[p] \in 0 .. MaxRounds /\ entered[p] < MaxRounds
        /\ Spin!Inc(condition[p]) \in 0 .. W-1
        /\ 0 \in 0 .. P
    BY <1>0, <1>1, IncFacts, Constants DEF Spin!TypeOK, Spin!Enter
  <2>a. entered[p] + 1 \in 0 .. MaxRounds
    BY <2>0, Constants
  <2>1. Spin!TypeOK'
    BY <1>0, <1>1, <2>0, <2>a DEF Spin!TypeOK, Spin!Enter
  <2>2. Spin!CallCounts'
    BY <1>0, <1>1, <2>0, <2>a DEF Spin!TypeOK, Spin!CallCounts, Spin!Enter
  <2>3. Spin!NobodyLeavesEarly'
    BY <1>0, <1>1, <2>0, <2>a DEF Spin!TypeOK, Spin!NobodyLeavesEarly, Spin!Enter
  <2>4. Spin!BytesFollowArrivals'
    <3> SUFFICES ASSUME NEW s \in Spin!Procs, NEW t \in Spin!Procs
                 PROVE  /\ entered'[t] = entered'[s] => condition'[t] = condition'[s]
                        /\ entered'[t] = entered'[s] + 1 => condition'[t] = Spin!Inc(condition'[s])
      BY DEF Spin!BytesFollowArrivals
    <3>1. /\ entered'[p] = entered[p] + 1
          /\ condition'[p] = Spin!Inc(condition[p])
          /\ \A q \in Spin!Procs : q # p => entered'[q] = entered[q] /\ condition'[q] = condition[q]
      BY <1>0, <1>1 DEF Spin!TypeOK, Spin!Enter
    <3>2. \A q \in Spin!Procs : /\ entered[q] \in Nat
                           /\ entered[q] >= entered[p]
      BY <1>1, Window DEF Spin!Enter
    <3>3. CASE s # p /\ t # p
      BY <1>0, <3>1, <3>3 DEF Spin!BytesFollowArrivals
    <3>4. CASE s = p /\ t = p
      BY <3>1, <3>2, <3>4
    <3>5. CASE s = p /\ t # p
      <4>1. entered'[t] = entered'[s] => condition'[t] = condition'[s]
        BY <3>1, <3>2, <3>5, BytesInWindow
      <4>2. ~ (entered'[t] = entered'[s] + 1)
        BY <3>1, <3>2, <3>5, Window
      <4> QED BY <4>1, <4>2
    <3>6. CASE s # p /\ t = p
      BY <3>1, <3>2, <3>6, BytesInWindow
    <3> QED BY <3>3, <3>4, <3>5, <3>6
  <2>5. Spin!ScannedHaveArrived'
    <3>1. \A t \in Spin!Procs : ~ (t < 0)
      BY ProcsFacts
    <3> QED BY <1>0, <1>1, <2>0, <2>a, <3>1 DEF Spin!TypeOK, Spin!ScannedHaveArrived, Spin!Enter
  <2> QED BY <2>1, <2>2, <2>3, <2>4, <2>5 DEF Spin!SpinInv
<1>2. ASSUME NEW p \in Spin!Procs, Spin!LookOn(p)
      PROVE  Spin!SpinInv'
  <2>0. /\ next' = [next EXCEPT ![p] = next[p] + 1]
        /\ next[p] \in 0 .. P-1
        /\ UNCHANGED <<condition, abort, pc, entered, crossed>>
    BY <1>0, <1>2, ProcsFacts DEF Spin!TypeOK, Spin!LookOn
  <2>1. Spin!TypeOK'
    <3>1. next' \in [Spin!Procs -> 0 .. P]
      BY <1>0, <2>0, ProcsFacts DEF Spin!TypeOK
    <3> QED BY <1>0, <2>0, <3>1 DEF Spin!TypeOK
  <2>2. Spin!ScannedHaveArrived'
    <3>1. ~ abort => entered[next[p]] >= entered[p]
      BY <2>0, <1>2, OpenIsArrived, ProcsFacts DEF Spin!LookOn
    <3>2. \A t \in Spin!Procs : t < next[p] + 1 => t < next[p] \/ t = next[p]
      BY <2>0, ProcsFacts
    <3> QED BY <1>0, <1>2, <2>0, <3>1, <3>2 DEF Spin!TypeOK, Spin!ScannedHaveArrived
  <2> QED
    BY <1>0, <2>0, <2>1, <2>2
       DEF Spin!SpinInv, Spin!CallCounts, Spin!NobodyLeavesEarly, Spin!BytesFollowArrivals
<1>3. ASSUME NEW p \in Spin!Procs, Spin!LookAgain(p)
      PROVE  Spin!SpinInv'
  <2>0. /\ next' = [next EXCEPT ![p] = 0]
        /\ UNCHANGED <<condition, abort, pc, entered, crossed>>
    BY <1>3 DEF Spin!LookAgain
  <2>1. Spin!TypeOK'
    <3>1. next' \in [Spin!Procs -> 0 .. P]
      BY <1>0, <2>0, ProcsFacts DEF Spin!TypeOK
    <3> QED BY <1>0, <2>0, <3>1 DEF Spin!TypeOK
  <2>2. Spin!ScannedHaveArrived'
    <3>1. \A t \in Spin!Procs : ~ (t < 0)
      BY ProcsFacts
    <3> QED BY <1>0, <2>0, <3>1 DEF Spin!TypeOK, Spin!ScannedHaveArrived
  <2>3. Spin!CallCounts' /\ Spin!NobodyLeavesEarly' /\ Spin!BytesFollowArrivals'
    BY <1>0, <2>0 DEF Spin!CallCounts, Spin!NobodyLeavesEarly, Spin!BytesFollowArrivals
  <2> QED BY <2>1, <2>2, <2>3 DEF Spin!SpinInv
<1>4. ASSUME NEW p \in Spin!Procs, Spin!Leave(p)
      PROVE  Spin!SpinInv'
  <2>1. Spin!TypeOK' /\ Spin!CallCounts'
    BY <1>0, <1>4 DEF Spin!TypeOK, Spin!CallCounts, Spin!Leave
  <2>2. Spin!NobodyLeavesEarly'
    <3>1. \A t \in Spin!Procs : entered[t] >= entered[p]
      BY <1>0, <1>4, ProcsFacts DEF Spin!Leave, Spin!ScannedHaveArrived
    <3> QED
      BY <1>0, <1>4, <3>1 DEF Spin!TypeOK, Spin!Leave, Spin!CallCounts,
                              Spin!NobodyLeavesEarly
  <2>3. Spin!BytesFollowArrivals' /\ Spin!ScannedHaveArrived'
    BY <1>0, <1>4 DEF Spin!TypeOK, Spin!Leave, Spin!BytesFollowArrivals,
                      Spin!ScannedHaveArrived
  <2> QED BY <2>1, <2>2, <2>3 DEF Spin!SpinInv
<1>5. ASSUME NEW p \in Spin!Procs, Spin!LeaveAborted(p) \/ Spin!Abort(p) \/ Spin!ExitAborted(p)
      PROVE  Spin!SpinInv'
  BY <1>0, <1>5, ZenonT(60)
     DEF Spin!SpinInv, Spin!TypeOK, Spin!LeaveAborted, Spin!Abort, Spin!ExitAborted,
         Spin!CallCounts, Spin!NobodyLeavesEarly,
         Spin!BytesFollowArrivals, Spin!ScannedHaveArrived
<1>6. CASE UNCHANGED Spin!vars
  BY <1>0, <1>6
     DEF Spin!SpinInv, Spin!TypeOK, Spin!vars, Spin!CallCounts, Spin!NobodyLeavesEarly,
         Spin!BytesFollowArrivals,
         Spin!ScannedHaveArrived
<1> QED BY <1>1, <1>2, <1>3, <1>4, <1>5, <1>6 DEF Spin!Next, Spin!Step, Spin!Finished

(* Every step of the loop is a step of the abstract barrier or none at all. *)
LEMMA SpinRefines ==
  ASSUME Spin!SpinInv, [Spin!Next]_(Spin!vars)
  PROVE  [AbstractBarrier!Next]_(AbstractBarrier!vars)
<1>1. ASSUME NEW p \in Spin!Procs, Spin!Enter(p)
      PROVE  AbstractBarrier!Next
  <2>1. crossed[p] = entered[p]
    BY <1>1 DEF Spin!SpinInv, Spin!CallCounts, Spin!Enter
  <2> QED
    BY <1>1, <2>1 DEF Spin!Enter, AbstractBarrier!Next, AbstractBarrier!Arrive,
                      AbstractBarrier!Procs, Spin!Procs
<1>2. ASSUME NEW p \in Spin!Procs, Spin!Leave(p)
      PROVE  AbstractBarrier!Next
  <2>1. crossed[p] # entered[p]
    BY <1>2 DEF Spin!SpinInv, Spin!TypeOK, Spin!CallCounts, Spin!Leave
  <2>2. \A t \in Spin!Procs : entered[t] >= entered[p]
    BY <1>2, ProcsFacts DEF Spin!SpinInv, Spin!ScannedHaveArrived, Spin!Leave
  <2> QED
    BY <1>2, <2>1, <2>2
       DEF Spin!Leave, AbstractBarrier!Next, AbstractBarrier!Cross,
           AbstractBarrier!Procs, Spin!Procs
<1>3. ASSUME NEW p \in Spin!Procs,
             Spin!LookOn(p) \/ Spin!LookAgain(p) \/ Spin!LeaveAborted(p) \/ Spin!Abort(p) \/ Spin!ExitAborted(p)
      PROVE  UNCHANGED AbstractBarrier!vars
  BY <1>3 DEF Spin!LookOn, Spin!LookAgain, Spin!LeaveAborted, Spin!Abort,
              Spin!ExitAborted, AbstractBarrier!vars
<1>4. CASE UNCHANGED Spin!vars
  BY <1>4 DEF Spin!vars, AbstractBarrier!vars
<1> QED BY <1>1, <1>2, <1>3, <1>4 DEF Spin!Next, Spin!Step, Spin!Finished
----
(* The mutex barrier. *)

Waiters == {s \in Mutex!Procs : pc[s] = "wait"}

MayAbort == {s \in Mutex!Procs : Mutex!MayAbort(s)}

LEMMA ConstantFacts ==
  /\ P \in Nat /\ P > 0 /\ 0 \in 0 .. P-1
  /\ IsFiniteSet(Mutex!Procs) /\ Cardinality(Mutex!Procs) = P
<1>1. P \in Nat /\ P > 0 /\ 0 \in 0 .. P-1
  BY Constants
<1>2. IsFiniteSet(0 .. P-1) /\ Cardinality(0 .. P-1) = P
  BY <1>1, FS_Interval
<1> QED BY <1>1, <1>2 DEF Mutex!Procs

LEMMA BoundFacts == MaxBarriers \in Nat /\ 0 \in 0 .. MaxBarriers
BY Constants

(* After a call everybody waits on the first condition next, and after the
   barrier that comes before a checkpoint on the last. *)
LEMMA NextCondition ==
  ASSUME barriers \in Mutex!Programs, NEW c \in 0 .. MaxBarriers, c + 1 \in 0 .. MaxBarriers
  PROVE  /\ c = 0 \/ barriers[c] \in Mutex!Ends => Mutex!ConditionOf(c + 1) = "condition"
         /\ c # 0 /\ barriers[c] \in {"due", "checkpoint"}
              => Mutex!ConditionOf(c + 1) = "end_condition"
<1>1. ASSUME NEW k \in 1 .. MaxBarriers
      PROVE  /\ k = 1 => barriers[k] \in Mutex!Starts
             /\ k < MaxBarriers => barriers[k + 1] \in Mutex!Follows[barriers[k]]
  BY DEF Mutex!Programs
<1>2. ASSUME barriers[c + 1] \in Mutex!Starts
      PROVE  Mutex!ConditionOf(c + 1) = "condition"
  BY <1>2 DEF Mutex!ConditionOf, Mutex!On, Mutex!Starts
<1>3. ASSUME barriers[c + 1] \in {"end", "resume"}
      PROVE  Mutex!ConditionOf(c + 1) = "end_condition"
  BY <1>3 DEF Mutex!ConditionOf, Mutex!On
<1>4. c = 0 \/ (c \in 1 .. MaxBarriers /\ c < MaxBarriers)
  BY BoundFacts
<1>5. CASE c = 0
  <2>1. barriers[1] \in Mutex!Starts
    BY <1>1, <1>5, BoundFacts
  <2> QED BY <2>1, <1>2, <1>5
<1>6. CASE c \in 1 .. MaxBarriers /\ c < MaxBarriers
  <2>1. barriers[c + 1] \in Mutex!Follows[barriers[c]]
    BY <1>1, <1>6
  <2>2. barriers[c] \in Mutex!Ends => barriers[c + 1] \in Mutex!Starts
    BY <2>1 DEF Mutex!Follows, Mutex!Ends
  <2>3. barriers[c] \in {"due", "checkpoint"} => barriers[c + 1] \in {"end", "resume"}
    BY <2>1 DEF Mutex!Follows
  <2> QED BY <2>2, <2>3, <1>2, <1>3, <1>6
<1> QED BY <1>4, <1>5, <1>6

LEMMA WaitersAreFinite ==
  ASSUME NEW S \in SUBSET Mutex!Procs
  PROVE  /\ IsFiniteSet(S) /\ Cardinality(S) \in Nat /\ Cardinality(S) <= P
         /\ Cardinality(S) = P => S = Mutex!Procs
BY ConstantFacts, FS_Subset, FS_CardinalityType

(* If all but one are waiting, the one that is not is the only one. *)
LEMMA AllOthersWait ==
  ASSUME NEW S \in SUBSET Mutex!Procs, Cardinality(S) = P - 1, NEW s \in Mutex!Procs,
     s \notin S
  PROVE  \A t \in Mutex!Procs : t # s => t \in S
<1>1. IsFiniteSet(S) /\ Cardinality(S \cup {s}) = P
  BY WaitersAreFinite, FS_AddElement, ConstantFacts
<1>2. S \cup {s} = Mutex!Procs
  BY <1>1, WaitersAreFinite
<1> QED BY <1>2

LEMMA SameCardinality == \A S : Mutex!Cardinality(S) = Cardinality(S)
BY DEF Mutex!Cardinality, Cardinality

(* Where the waiters are says which condition they wait on. *)
LEMMA CounterBase ==
  Mutex!TypeOK /\ Mutex!CallCounts /\ Mutex!CounterCountsWaiters /\ Mutex!AbortersSeeNextBarrier
    => Mutex!CounterInv
<1> SUFFICES ASSUME Mutex!TypeOK, Mutex!CallCounts, Mutex!AbortersSeeNextBarrier
             PROVE  Mutex!UserAbortsWakeAll /\ Mutex!FailedCheckpointsWakeNobody
  BY DEF Mutex!CounterInv
<1>1. ASSUME NEW s \in Mutex!Procs, Mutex!MayAbort(s), NEW w \in Mutex!Procs, pc[w] = "wait"
      PROVE  /\ Mutex!AfterCall(s) => Mutex!ConditionOf(entered[w]) = "condition"
             /\ Mutex!LastLeft(s) \in {"due", "checkpoint"}
                  => Mutex!ConditionOf(entered[w]) = "end_condition"
  <2>1. entered[w] = crossed[s] + 1
    BY <1>1 DEF Mutex!AbortersSeeNextBarrier, Mutex!CallCounts, Mutex!MayAbort
  <2>2. crossed[s] \in 0 .. MaxBarriers /\ entered[w] \in 0 .. MaxBarriers
        /\ barriers \in Mutex!Programs
    BY DEF Mutex!TypeOK
  <2>3. /\ Mutex!AfterCall(s) => crossed[s] = 0 \/ barriers[crossed[s]] \in Mutex!Ends
        /\ Mutex!LastLeft(s) \in {"due", "checkpoint"}
             => crossed[s] # 0 /\ barriers[crossed[s]] \in {"due", "checkpoint"}
    BY DEF Mutex!AfterCall, Mutex!LastLeft
  <2> QED BY <2>1, <2>2, <2>3, NextCondition
<1>2. Mutex!UserAbortsWakeAll
  BY <1>1 DEF Mutex!UserAbortsWakeAll, Mutex!Waiting
<1>3. Mutex!FailedCheckpointsWakeNobody
  BY <1>1, ConstantFacts DEF Mutex!FailedCheckpointsWakeNobody, Mutex!AtCheckpoint,
                             Mutex!Waiting, Mutex!Procs
<1> QED BY <1>2, <1>3

LEMMA CounterBaseNext ==
  Mutex!TypeOK' /\ Mutex!CallCounts' /\ Mutex!CounterCountsWaiters' /\ Mutex!AbortersSeeNextBarrier'
    => Mutex!CounterInv'
BY CounterBase, PTL

LEMMA CounterInit ==
  ASSUME Mutex!Init
  PROVE  Mutex!CounterInv
<1>1. {s \in Mutex!Procs : pc[s] = "wait"} = {}
  BY DEF Mutex!Init
<1>2. Mutex!TypeOK /\ Mutex!CallCounts
  BY ConstantFacts, BoundFacts DEF Mutex!Init, Mutex!TypeOK, Mutex!CallCounts
<1>3. Mutex!CounterCountsWaiters
  BY <1>1, FS_EmptySet, SameCardinality DEF Mutex!Init, Mutex!CounterCountsWaiters,
                                            Mutex!Opened
<1>4. Mutex!AbortersSeeNextBarrier
  BY <1>1 DEF Mutex!AbortersSeeNextBarrier
<1> QED BY <1>2, <1>3, <1>4, CounterBase

(* While the program is not aborted, whoever is outside a barrier has passed
   as many as the waiters have. *)
LEMMA WaitersAreOneAhead ==
  Mutex!TypeOK /\ Mutex!CallCounts /\ Mutex!CounterCountsWaiters /\ ~ abort
    => Mutex!AbortersSeeNextBarrier
<1> SUFFICES ASSUME Mutex!TypeOK, Mutex!CallCounts, Mutex!CounterCountsWaiters, ~ abort,
                    NEW s \in Mutex!Procs, Mutex!MayAbort(s),
                    NEW w \in Mutex!Procs, pc[w] = "wait"
             PROVE  entered[w] = entered[s] + 1
  BY DEF Mutex!AbortersSeeNextBarrier
<1>1. Mutex!Opened(s) = Mutex!Opened(w) /\ pc[s] # "wait"
  BY DEF Mutex!CounterCountsWaiters, Mutex!MayAbort
<1>2. entered[w] \in Nat /\ entered[s] \in Nat
  BY DEF Mutex!TypeOK
<1> QED BY <1>1, <1>2 DEF Mutex!Opened

LEMMA WaitersAreOneAheadNext ==
  Mutex!TypeOK' /\ Mutex!CallCounts' /\ Mutex!CounterCountsWaiters' /\ ~ abort'
    => Mutex!AbortersSeeNextBarrier'
BY WaitersAreOneAhead, PTL

(* Later nobody begins to wait and nobody leaves a barrier. *)
LEMMA AbortersStayApart ==
  ASSUME Mutex!AbortersSeeNextBarrier,
         MayAbort' \subseteq MayAbort, Waiters' \subseteq Waiters,
         \A t \in Waiters' \cup MayAbort' : entered'[t] = entered[t]
  PROVE  Mutex!AbortersSeeNextBarrier'
BY DEF Mutex!AbortersSeeNextBarrier, Mutex!MayAbort, MayAbort, Waiters

LEMMA CounterKeeps ==
  ASSUME Mutex!CounterInv, [Mutex!Next]_(Mutex!vars)
  PROVE  Mutex!CounterInv'
<1>0. Mutex!TypeOK /\ Mutex!CallCounts /\ Mutex!CounterCountsWaiters /\ Mutex!AbortersSeeNextBarrier
  BY DEF Mutex!CounterInv
<1>1. ASSUME NEW p \in Mutex!Procs, Mutex!Wait(p)
      PROVE  Mutex!CounterInv'
  <2>0. /\ pc[p] = "run" /\ entered[p] = crossed[p] /\ entered[p] + 1 \in 0 .. MaxBarriers
        /\ sync_entry_counter + 1 \in 0 .. P-1
    BY <1>0, <1>1, ConstantFacts, BoundFacts DEF Mutex!Wait, Mutex!TypeOK, Mutex!CallCounts
  <2>1. Mutex!TypeOK' /\ Mutex!CallCounts'
    BY <1>0, <1>1, <2>0 DEF Mutex!Wait, Mutex!TypeOK, Mutex!CallCounts
  <2>2. CASE ~ abort
    <3>1. Waiters' = Waiters \cup {p} /\ p \notin Waiters
      BY <1>0, <1>1, <2>0, <2>2 DEF Mutex!Wait, Mutex!TypeOK, Waiters
    <3>2. sync_entry_counter' = Cardinality(Waiters')
      <4>1. sync_entry_counter = Cardinality(Waiters)
        BY <1>0, <2>2, SameCardinality DEF Mutex!CounterCountsWaiters, Waiters
      <4>2. IsFiniteSet(Waiters)
        BY WaitersAreFinite DEF Waiters
      <4>3. Cardinality(Waiters \cup {p}) = Cardinality(Waiters) + 1
        BY <4>2, <3>1, FS_AddElement
      <4> QED BY <1>1, <3>1, <4>1, <4>3 DEF Mutex!Wait
    <3>3. \A t \in Mutex!Procs : Mutex!Opened(t)' = Mutex!Opened(t)
      BY <1>0, <1>1, <2>0, <2>2 DEF Mutex!Wait, Mutex!TypeOK, Mutex!Opened
    <3>4. Mutex!CounterCountsWaiters'
      BY <1>0, <1>1, <2>2, <3>2, <3>3, SameCardinality DEF Mutex!Wait, Mutex!TypeOK,
         Mutex!CounterCountsWaiters, Waiters
    <3> QED BY <2>1, <2>2, <3>4, <1>1, WaitersAreOneAheadNext, CounterBaseNext DEF Mutex!Wait
  <2>3. CASE abort
    <3>1. /\ MayAbort' \subseteq MayAbort /\ Waiters' \subseteq Waiters
          /\ \A t \in Waiters' \cup MayAbort' : entered'[t] = entered[t]
      BY <1>0, <1>1, <2>3 DEF Mutex!Wait, Mutex!TypeOK, Mutex!MayAbort, MayAbort, Waiters
    <3>2. Mutex!CounterCountsWaiters'
      BY <1>1, <2>3, SameCardinality DEF Mutex!Wait, Mutex!CounterCountsWaiters
    <3>3. Mutex!AbortersSeeNextBarrier'
      BY <1>0, <3>1, AbortersStayApart
    <3> QED BY <2>1, <3>2, <3>3, CounterBaseNext
  <2> QED BY <2>2, <2>3
<1>2. ASSUME NEW p \in Mutex!Procs, Mutex!LastArrives(p)
      PROVE  Mutex!CounterInv'
  <2>0. /\ pc[p] = "run" /\ entered[p] = crossed[p] /\ entered[p] + 1 \in 0 .. MaxBarriers
        /\ sync_entry_counter = P - 1 /\ sync_entry_counter' = 0 /\ abort' = abort
    BY <1>0, <1>2, ConstantFacts, BoundFacts DEF Mutex!LastArrives, Mutex!TypeOK,
       Mutex!CallCounts
  <2>1. Mutex!TypeOK' /\ Mutex!CallCounts'
    BY <1>0, <1>2, <2>0, ConstantFacts, BoundFacts DEF Mutex!LastArrives, Mutex!TypeOK,
       Mutex!CallCounts, Mutex!Release, Mutex!Waiting
  <2>2. CASE ~ abort
    <3>1. \A t \in Mutex!Procs : t # p => pc[t] = "wait"
      BY <1>0, <2>0, <2>2, AllOthersWait, SameCardinality DEF Mutex!CounterCountsWaiters
    <3>2. \A t \in Mutex!Procs : t # p => entered[t] = entered[p] + 1
      <4> SUFFICES ASSUME NEW t \in Mutex!Procs, t # p
                   PROVE  entered[t] = entered[p] + 1
        OBVIOUS
      <4>1. Mutex!Opened(t) = Mutex!Opened(p) /\ pc[t] = "wait"
        BY <1>0, <2>2, <3>1, SameCardinality DEF Mutex!CounterCountsWaiters
      <4> QED BY <1>0, <2>0, <4>1 DEF Mutex!Opened, Mutex!TypeOK
    <3>3. \A t \in Mutex!Procs : pc'[t] = "released"
      BY <1>2, <3>1, <3>2 DEF Mutex!LastArrives, Mutex!Release, Mutex!Waiting
    <3>4. \A t \in Mutex!Procs : entered'[t] = entered[p] + 1
      BY <1>0, <1>2, <3>2 DEF Mutex!LastArrives, Mutex!TypeOK
    <3>5. Cardinality(Waiters') = 0
      BY <3>3, FS_EmptySet DEF Waiters
    <3>6. Mutex!CounterCountsWaiters'
      BY <2>0, <3>3, <3>4, <3>5, SameCardinality DEF Mutex!CounterCountsWaiters,
         Mutex!Opened, Waiters
    <3> QED BY <2>0, <2>1, <2>2, <3>6, WaitersAreOneAheadNext, CounterBaseNext
  <2>3. CASE abort
    <3>1. /\ MayAbort' \subseteq MayAbort /\ Waiters' \subseteq Waiters
          /\ \A t \in Waiters' \cup MayAbort' : entered'[t] = entered[t]
      BY <1>0, <1>2, <2>0 DEF Mutex!LastArrives, Mutex!TypeOK, Mutex!MayAbort,
                              Mutex!Release, MayAbort, Waiters
    <3>2. Mutex!CounterCountsWaiters'
      BY <2>0, <2>3, SameCardinality DEF Mutex!CounterCountsWaiters
    <3>3. Mutex!AbortersSeeNextBarrier'
      BY <1>0, <3>1, AbortersStayApart
    <3> QED BY <2>1, <3>2, <3>3, CounterBaseNext
  <2> QED BY <2>2, <2>3
<1>3. ASSUME NEW p \in Mutex!Procs, Mutex!Leave(p)
      PROVE  Mutex!CounterInv'
  <2>0. /\ pc[p] = "released" /\ entered[p] = crossed[p] + 1 /\ abort' = abort
        /\ \A t \in Mutex!Procs : pc'[t] = "wait" <=> pc[t] = "wait"
    BY <1>0, <1>3 DEF Mutex!Leave, Mutex!TypeOK, Mutex!CallCounts
  <2>1. Mutex!TypeOK' /\ Mutex!CallCounts'
    BY <1>0, <1>3, <2>0 DEF Mutex!Leave, Mutex!TypeOK, Mutex!CallCounts
  <2>2. CASE ~ abort
    <3>1. Waiters' = Waiters
      BY <2>0 DEF Waiters
    <3>2. \A t \in Mutex!Procs : Mutex!Opened(t)' = Mutex!Opened(t)
      BY <1>3, <2>0 DEF Mutex!Leave, Mutex!Opened
    <3>3. Mutex!CounterCountsWaiters'
      BY <1>0, <1>3, <2>2, <3>1, <3>2, SameCardinality DEF Mutex!Leave, Mutex!TypeOK,
         Mutex!CounterCountsWaiters, Waiters
    <3> QED BY <2>0, <2>1, <2>2, <3>3, WaitersAreOneAheadNext, CounterBaseNext
  <2>3. CASE abort
    <3>1. /\ MayAbort' \subseteq MayAbort /\ Waiters' \subseteq Waiters
          /\ \A t \in Waiters' \cup MayAbort' : entered'[t] = entered[t]
      BY <1>0, <1>3, <2>3 DEF Mutex!Leave, Mutex!TypeOK, Mutex!MayAbort, MayAbort, Waiters
    <3>2. Mutex!CounterCountsWaiters'
      BY <2>0, <2>3, SameCardinality DEF Mutex!CounterCountsWaiters
    <3>3. Mutex!AbortersSeeNextBarrier'
      BY <1>0, <3>1, AbortersStayApart
    <3> QED BY <2>1, <3>2, <3>3, CounterBaseNext
  <2> QED BY <2>2, <2>3
<1>4. ASSUME NEW p \in Mutex!Procs,
             \/ Mutex!Abort(p) \/ Mutex!CheckpointFails
             \/ Mutex!AssertFails(p) \/ Mutex!AbortBroadcast(p) \/ Mutex!ExitAborted(p)
      PROVE  Mutex!CounterInv'
  <2>0. 0 \in Mutex!Procs
    BY ConstantFacts DEF Mutex!Procs
  <2>1. Mutex!TypeOK' /\ Mutex!CallCounts'
    BY <1>0, <1>4, <2>0 DEF Mutex!Abort, Mutex!CheckpointFails, Mutex!AssertFails,
       Mutex!AbortBroadcast, Mutex!ExitAborted, Mutex!TypeOK, Mutex!CallCounts, Mutex!Waiting
  <2>2. /\ MayAbort' \subseteq MayAbort /\ Waiters' \subseteq Waiters
        /\ \A t \in Waiters' \cup MayAbort' : entered'[t] = entered[t]
    BY <1>0, <1>4, <2>0 DEF Mutex!Abort, Mutex!CheckpointFails, Mutex!AssertFails,
       Mutex!AbortBroadcast, Mutex!ExitAborted, Mutex!MayAbort, Mutex!TypeOK, MayAbort, Waiters
  <2>3. Mutex!CounterCountsWaiters'
    <3>1. abort'
      BY <1>0, <1>4 DEF Mutex!Abort, Mutex!CheckpointFails, Mutex!AssertFails,
         Mutex!AbortBroadcast, Mutex!ExitAborted, Mutex!CounterCountsWaiters
    <3> QED BY <3>1, SameCardinality DEF Mutex!CounterCountsWaiters
  <2>4. Mutex!AbortersSeeNextBarrier'
    BY <1>0, <2>2, AbortersStayApart
  <2> QED BY <2>1, <2>3, <2>4, CounterBaseNext
<1>5. CASE UNCHANGED Mutex!vars
  <2>1. Mutex!TypeOK' /\ Mutex!CallCounts' /\ Mutex!CounterCountsWaiters'
    BY <1>0, <1>5, SameCardinality DEF Mutex!vars, Mutex!TypeOK, Mutex!CallCounts,
       Mutex!CounterCountsWaiters, Mutex!Opened
  <2>2. Mutex!AbortersSeeNextBarrier'
    BY <1>0, <1>5 DEF Mutex!vars, Mutex!AbortersSeeNextBarrier, Mutex!MayAbort
  <2> QED BY <2>1, <2>2, CounterBaseNext
<1>6. 0 \in Mutex!Procs
  BY ConstantFacts DEF Mutex!Procs
<1> QED BY <1>1, <1>2, <1>3, <1>4, <1>5, <1>6 DEF Mutex!Next, Mutex!Step, Mutex!Finished

(* Arriving, waiting or not, is an arrival; going on without an abort is a
   departure, and everybody has arrived by then; the rest changes nothing. *)
LEMMA MutexRefines ==
  ASSUME Mutex!CounterInv, [Mutex!Next]_(Mutex!vars)
  PROVE  [AbstractBarrier!Next]_(AbstractBarrier!vars)
<1>1. ASSUME NEW p \in Mutex!Procs, Mutex!Wait(p) \/ Mutex!LastArrives(p)
      PROVE  AbstractBarrier!Next
  <2>1. crossed[p] = entered[p]
    BY <1>1 DEF Mutex!CounterInv, Mutex!CallCounts, Mutex!Wait, Mutex!LastArrives
  <2> QED
    BY <1>1, <2>1
       DEF Mutex!Wait, Mutex!LastArrives, AbstractBarrier!Next, AbstractBarrier!Arrive,
           AbstractBarrier!Procs, Mutex!Procs
<1>2. ASSUME NEW p \in Mutex!Procs, Mutex!Leave(p), ~ abort
      PROVE  AbstractBarrier!Next
  <2>1. crossed[p] # entered[p]
    BY <1>2 DEF Mutex!CounterInv, Mutex!TypeOK, Mutex!CallCounts, Mutex!Leave
  <2>2. ASSUME NEW t \in Mutex!Procs
        PROVE  entered[t] >= entered[p]
    <3>1. Mutex!Opened(t) = Mutex!Opened(p) /\ pc[p] = "released"
      BY <1>2, SameCardinality DEF Mutex!CounterInv, Mutex!CounterCountsWaiters, Mutex!Leave
    <3> QED BY <3>1 DEF Mutex!CounterInv, Mutex!TypeOK, Mutex!Opened
  <2> QED
    BY <1>2, <2>1, <2>2
       DEF Mutex!Leave, AbstractBarrier!Next, AbstractBarrier!Cross,
           AbstractBarrier!Procs, Mutex!Procs
<1>3. ASSUME NEW p \in Mutex!Procs,
             \/ Mutex!Leave(p) /\ abort
             \/ Mutex!Abort(p) \/ Mutex!CheckpointFails
             \/ Mutex!AssertFails(p) \/ Mutex!AbortBroadcast(p) \/ Mutex!ExitAborted(p)
      PROVE  UNCHANGED AbstractBarrier!vars
  BY <1>3 DEF Mutex!Leave, Mutex!Abort, Mutex!CheckpointFails, Mutex!AssertFails,
              Mutex!AbortBroadcast, Mutex!ExitAborted, AbstractBarrier!vars
<1>4. CASE UNCHANGED Mutex!vars
  BY <1>4 DEF Mutex!vars, AbstractBarrier!vars
<1>5. 0 \in Mutex!Procs
  BY ConstantFacts DEF Mutex!Procs
<1> QED BY <1>1, <1>2, <1>3, <1>4, <1>5 DEF Mutex!Next, Mutex!Step, Mutex!Finished
----
(* Both of them.  The last conjunct does not follow from the counter once
   somebody has aborted. *)
BarrierInv == SpinInv /\ CounterInv /\ NobodyLeavesEarly

LEMMA MutexLetsNobodyLeaveEarly ==
  ASSUME Mutex!CounterInv, NobodyLeavesEarly, [Mutex!Next]_(Mutex!vars)
  PROVE  NobodyLeavesEarly'
<1>0. Mutex!TypeOK /\ Mutex!CallCounts /\ Mutex!CounterCountsWaiters
  BY DEF Mutex!CounterInv
<1>1. ASSUME NEW p \in Mutex!Procs, Mutex!Wait(p) \/ Mutex!LastArrives(p)
      PROVE  NobodyLeavesEarly'
  <2>1. /\ \A t \in Mutex!Procs : entered[t] \in Nat /\ crossed[t] \in Nat
        /\ entered \in [Mutex!Procs -> 0 .. MaxBarriers]
    BY <1>0, BoundFacts DEF Mutex!TypeOK
  <2>2. crossed' = crossed /\ entered' = [entered EXCEPT ![p] = entered[p] + 1]
    BY <1>1 DEF Mutex!Wait, Mutex!LastArrives
  <2>3. \A t \in Mutex!Procs : entered'[t] \in Nat /\ entered'[t] >= entered[t]
    BY <2>1, <2>2
  <2> QED BY <2>1, <2>2, <2>3 DEF NobodyLeavesEarly, Mutex!Procs, Procs
<1>2. ASSUME NEW p \in Mutex!Procs, Mutex!Leave(p), ~ abort
      PROVE  NobodyLeavesEarly'
  <2>1. \A t \in Procs : entered[t] >= entered[p]
    <3> SUFFICES ASSUME NEW t \in Procs  PROVE entered[t] >= entered[p]
      OBVIOUS
    <3>1. Mutex!Opened(t) = Mutex!Opened(p) /\ pc[p] = "released"
      BY <1>0, <1>2 DEF Mutex!CounterCountsWaiters, Mutex!Leave, Mutex!Procs, Procs
    <3> QED BY <1>0, <1>2, <3>1 DEF Mutex!TypeOK, Mutex!Opened, Mutex!Procs, Procs
  <2>2. /\ entered' = entered /\ crossed'[p] = entered[p]
        /\ \A t \in Procs : t # p => crossed'[t] = crossed[t]
    BY <1>0, <1>2 DEF Mutex!Leave, Mutex!TypeOK, Mutex!CallCounts, Mutex!Procs, Procs
  <2> QED BY <2>1, <2>2 DEF NobodyLeavesEarly, Mutex!Procs, Procs
<1>3. ASSUME NEW p \in Mutex!Procs,
             \/ Mutex!Leave(p) /\ abort
             \/ Mutex!Abort(p) \/ Mutex!CheckpointFails
             \/ Mutex!AssertFails(p) \/ Mutex!AbortBroadcast(p) \/ Mutex!ExitAborted(p)
      PROVE  NobodyLeavesEarly'
  <2>1. UNCHANGED <<entered, crossed>>
    BY <1>3 DEF Mutex!Leave, Mutex!Abort, Mutex!CheckpointFails, Mutex!AssertFails,
                Mutex!AbortBroadcast, Mutex!ExitAborted
  <2> QED BY <2>1 DEF NobodyLeavesEarly
<1>4. CASE UNCHANGED Mutex!vars
  BY <1>4 DEF Mutex!vars, NobodyLeavesEarly
<1>5. 0 \in Mutex!Procs
  BY ConstantFacts DEF Mutex!Procs
<1> QED BY <1>1, <1>2, <1>3, <1>4, <1>5 DEF Mutex!Next, Mutex!Step, Mutex!Finished

LEMMA EitherInit == Init => BarrierInv
<1> SUFFICES ASSUME Init  PROVE BarrierInv
  OBVIOUS
<1>1. SpinInv
  BY SpinInit DEF Init, SpinInv
<1>2. CounterInv
  BY CounterInit DEF Init, CounterInv
<1>3. NobodyLeavesEarly
  <2>1. entered = [s \in Procs |-> 0] /\ crossed = [s \in Procs |-> 0]
    BY DEF Init, Spin!Init, Mutex!Init, Spin!Procs, Mutex!Procs, Procs
  <2> QED BY <2>1 DEF NobodyLeavesEarly
<1> QED BY <1>1, <1>2, <1>3 DEF BarrierInv

(* A step of the library is a step of the barrier it was built with. *)
LEMMA EitherStep ==
  ASSUME [Next]_vars
  PROVE  /\ spinlock' = spinlock
         /\ spinlock => [Spin!Next]_(Spin!vars)
         /\ ~ spinlock => [Mutex!Next]_(Mutex!vars)
<1>1. CASE SpinStep(Spin!Next)
  BY <1>1 DEF SpinStep
<1>2. CASE MutexStep(Mutex!Next)
  BY <1>2 DEF MutexStep
<1>3. CASE UNCHANGED vars
  BY <1>3 DEF vars, common, mutexOnly, Spin!vars, Mutex!vars
<1> QED BY <1>1, <1>2, <1>3 DEF Next

LEMMA EitherKeeps == BarrierInv /\ [Next]_vars => BarrierInv'
<1> SUFFICES ASSUME BarrierInv, [Next]_vars  PROVE BarrierInv'
  OBVIOUS
<1>1. CASE spinlock
  <2>1. Spin!SpinInv'
    BY <1>1, EitherStep, SpinKeeps DEF BarrierInv, SpinInv
  <2>2. Spin!NobodyLeavesEarly'
    BY <2>1 DEF Spin!SpinInv
  <2>3. NobodyLeavesEarly'
    BY <2>2 DEF Spin!NobodyLeavesEarly, NobodyLeavesEarly, Spin!Procs, Procs
  <2> QED BY <1>1, <2>1, <2>3, EitherStep DEF BarrierInv, SpinInv, CounterInv
<1>2. CASE ~ spinlock
  <2>1. Mutex!CounterInv' /\ NobodyLeavesEarly'
    BY <1>2, EitherStep, CounterKeeps, MutexLetsNobodyLeaveEarly DEF BarrierInv, CounterInv
  <2> QED BY <1>2, <2>1, EitherStep DEF BarrierInv, SpinInv, CounterInv
<1> QED BY <1>1, <1>2

(* The inductive invariant of both builds. *)
THEOREM BarrierInvariant == Spec => []BarrierInv
BY EitherInit, EitherKeeps, PTL DEF Spec

(* Bytes, counts and scans of the spin barrier fit together. *)
THEOREM SpinInvariant == Spec => []SpinInv
<1>1. BarrierInv => SpinInv
  BY DEF BarrierInv
<1> QED BY <1>1, BarrierInvariant, PTL

(* In every reachable state of every program: the counter counts the waiters;
   who aborts from user code finds them all on the first condition variable,
   the one bsp_vabort signals; process 0, whose abort of a failed checkpoint
   comes from within bsp_sync or mcbsp_checkpoint (against the comment at
   bsp.c:523-524), finds them all on the last. *)
THEOREM CounterInvariant == Spec => []CounterInv
<1>1. BarrierInv => CounterInv
  BY DEF BarrierInv
<1> QED BY <1>1, BarrierInvariant, PTL

(* Neither barrier lets anybody through before everyone arrived. *)
THEOREM SafeBarrier == Spec => []NobodyLeavesEarly
<1>1. BarrierInv => NobodyLeavesEarly
  BY DEF BarrierInv
<1> QED BY <1>1, BarrierInvariant, PTL

(* Comparing two wrapping bytes decides who has arrived. *)
THEOREM ExactByteTest == Spec => []ByteTestIsExact
<1>1. SpinInv => ByteTestIsExact
  BY OpenIsArrived DEF SpinInv, ByteTestIsExact, Spin!ByteTestIsExact
<1> QED BY <1>1, SpinInvariant, PTL

(* Types of either barrier's state. *)
THEOREM TypeCorrect ==
  Spec => [](spinlock => Spin!TypeOK) /\ [](~ spinlock => Mutex!TypeOK)
<1>1. BarrierInv => (spinlock => Spin!TypeOK) /\ (~ spinlock => Mutex!TypeOK)
  BY DEF BarrierInv, SpinInv, CounterInv, Spin!SpinInv, Mutex!CounterInv
<1> QED BY <1>1, BarrierInvariant, PTL

(* Both are barriers: mcbsp_internal_spinlock and mcbsp_internal_sync. *)
THEOREM Refinement == Spec => ImplementsBarrier
<1>1. Init => AbstractBarrier!Init
  BY DEF Init, Spin!Init, Mutex!Init, AbstractBarrier!Init,
         AbstractBarrier!Procs, Spin!Procs, Mutex!Procs
<1>2. BarrierInv /\ [Next]_vars => [AbstractBarrier!Next]_(AbstractBarrier!vars)
  <2> SUFFICES ASSUME BarrierInv, [Next]_vars
               PROVE  [AbstractBarrier!Next]_(AbstractBarrier!vars)
    OBVIOUS
  <2>1. CASE spinlock
    BY <2>1, EitherStep, SpinRefines DEF BarrierInv, SpinInv
  <2>2. CASE ~ spinlock
    BY <2>2, EitherStep, MutexRefines DEF BarrierInv, CounterInv
  <2> QED BY <2>1, <2>2
<1> QED BY <1>1, <1>2, BarrierInvariant, PTL DEF Spec, ImplementsBarrier, AbstractBarrier!Spec
====
