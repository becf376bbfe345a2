---- MODULE LifecycleInvariant ----
(***************************************************************************)
(* The inductive invariant of Lifecycle.  The processes of a run that      *)
(* nobody has aborted are all between the same two calls or in the call    *)
(* after: there is a base, a number of arrivals at each barrier and of     *)
(* calls of bsp_sync, from which every process is a known number of steps  *)
(* ahead (Account).  Where a process stands says what memory it has and    *)
(* whether the others may read it.  LifecycleProofs proves it.             *)
(***************************************************************************)
EXTENDS Lifecycle

(* Where a process of a run can be: not created, created, beginning, in    *)
(* user code, in a run of its own ("away"), on the way to a barrier        *)
(* ("to_..."), behind it, or gone.                                         *)
Stages == {"unborn", "born", "ready", "linked", "begin", "user", "away", "to_synced", "synced",
           "to_delivering", "delivering", "to_due", "due", "to_manual", "manual", "checkpointing",
           "to_user", "to_ended", "ended", "to_leaving", "leaving", "joining", "exited"}

(* Before the barrier of bsp_begin.                                        *)
Early == {"unborn", "born", "ready", "linked"}

(* What the account knows of a process: its place, its arrivals at the     *)
(* three barriers, its calls of bsp_sync, and whether it has called        *)
(* mcbsp_checkpoint.                                                       *)
Views == [at : Stages, A : Nat, M : Nat, E : Nat, y : Nat, man : BOOLEAN]

(* The numbers that all processes of a run have left behind.               *)
Bases == [A : Nat, M : Nat, E : Nat, y : Nat, man : BOOLEAN]

(* The arrivals of a process since the base.                               *)
Counts(v, b, a, m, e) == v.A = b.A + a /\ v.M = b.M + m /\ v.E = b.E + e

(* It has not left the barrier of bsp_begin, if the build has one.         *)
Starting(v, b, h) ==
  /\ v.at \in Early \/ (h /\ v.at = "begin")
  /\ v.A = (IF v.at = "begin" THEN 1 ELSE 0) /\ v.M = 0 /\ v.E = 0 /\ v.y = 0 /\ ~ v.man
  /\ b.A = (IF h THEN 1 ELSE 0) /\ b.M = 0 /\ b.E = 0 /\ b.y = 0 /\ ~ b.man

(* It is between two calls.                                                *)
Based(v, b) ==
  v.at \in {"to_user", "user", "away"} /\ Counts(v, b, 0, 0, 0) /\ v.y = b.y /\ v.man = b.man

(* It is in bsp_sync.                                                      *)
Syncing(v, b, ended) ==
  /\ v.y = b.y + 1 /\ ~ v.man
  /\ \/ v.at \in {"to_synced", "synced"} /\ Counts(v, b, 1, 0, 0)
     \/ ~ ended /\ v.at \in {"to_delivering", "delivering"} /\ Counts(v, b, 1, 1, 0)
     \/ ~ ended /\ v.at \in {"to_due", "due", "checkpointing"} /\ Counts(v, b, 2, 1, 0)
     \/ ~ ended /\ v.at = "to_user" /\ Counts(v, b, 1, 1, 1)
     \/ ~ ended /\ v.at = "to_user" /\ Counts(v, b, 2, 1, 1)

(* It is in mcbsp_checkpoint.                                              *)
Checking(v, b) ==
  /\ v.y = b.y /\ v.man
  /\ \/ v.at \in {"to_manual", "manual", "checkpointing"} /\ Counts(v, b, 1, 0, 0)
     \/ v.at = "to_user" /\ Counts(v, b, 1, 0, 1)

(* It is in bsp_end.                                                       *)
Ending(v, b) ==
  /\ v.y = b.y /\ v.man = b.man
  /\ \/ v.at \in {"to_ended", "ended"} /\ Counts(v, b, 1, 0, 0)
     \/ v.at \in {"to_leaving", "leaving", "joining", "exited"} /\ Counts(v, b, 2, 0, 0)

(* The next call of all is mcbsp_checkpoint.                               *)
Wants(b, manuals) == b.y \in manuals /\ ~ b.man

(* Every process is in one of these places.                                *)
Somewhere(v, b, h, ended, manuals) ==
  \/ Starting(v, b, h)
  \/ Based(v, b)
  \/ ~ Wants(b, manuals) /\ Syncing(v, b, ended)
  \/ Wants(b, manuals) /\ Checking(v, b)
  \/ ~ Wants(b, manuals) /\ ended /\ Ending(v, b)

(* Places behind the first barrier of a call.                              *)
Behind == {"synced", "to_delivering", "delivering", "to_due", "due", "checkpointing", "manual",
           "ended", "to_leaving", "leaving", "joining", "exited"}

(* The process is behind it.                                               *)
Past(v, b) == v.at \in Behind \/ (v.at = "to_user" /\ v.E = b.E + 1)

(* The process is through bsp_end.                                         *)
Left == {"leaving", "joining", "exited"}

(* No process has left a barrier for which another has not announced       *)
(* itself.                                                                 *)
StartGate(V, S, h) ==
  h => \A s, q \in S : V[s].at \in Early => V[q].at \in Early \cup {"begin"}
(* The first barrier of a call, on sl_condition.                           *)
FirstGate(V, S, b) == \A s, q \in S : Past(V[s], b) => V[q].A >= b.A + 1
(* The barrier on sl_mid_condition.                                        *)
MidGate(V, S, b) ==
  \A s, q \in S : V[s].M = b.M + 1 /\ V[s].at # "to_delivering" => V[q].M = b.M + 1
(* The barrier before a checkpoint that is due.                            *)
DueGate(V, S, b) ==
  \A s, q \in S : V[s].M = b.M + 1 /\ V[s].A = b.A + 2 /\ V[s].at # "to_due" => V[q].A = b.A + 2
(* The second barrier of bsp_end.                                          *)
EndGate(V, S) == \A s, q \in S : V[s].at \in Left => V[q].at \in Left \cup {"to_leaving"}
(* The base is the last call which all processes have completed.           *)
LastGate(V, S, b) == \E s \in S : V[s].E = b.E

(* They agree on whether a checkpoint is due.                              *)
DueAgreed(V, S, b, due) ==
  /\ \A s, q \in S : V[s].M = b.M + 1 /\ V[s].A = b.A + 2 => due \/ V[q].A = b.A + 2
  /\ \A s \in S : V[s].M = b.M + 1 /\ V[s].E = b.E + 1 /\ V[s].A = b.A + 1 => ~ due

(* The flag "ended" is set by a process in bsp_end.                        *)
EndedAgreed(V, S, b, ended) == ended => \E s \in S : Ending(V[s], b)

(* What is known of the processes of a run that has not been aborted.      *)
Account(V, S, b, h, ended, due, manuals) ==
  /\ \A s \in S : Somewhere(V[s], b, h, ended, manuals)
  /\ StartGate(V, S, h)
  /\ FirstGate(V, S, b)
  /\ MidGate(V, S, b)
  /\ DueGate(V, S, b)
  /\ EndGate(V, S)
  /\ LastGate(V, S, b)
  /\ DueAgreed(V, S, b, due)
  /\ EndedAgreed(V, S, b, ended)

(* Only the s-th process moves.                                            *)
Moves(V, W, s, S) ==
  /\ s \in S /\ V \in [S -> Views] /\ W \in [S -> Views]
  /\ \A q \in S : q # s => W[q] = V[q]

(* The process goes to "to" with so many more arrivals.                    *)
Arriving(v, w, to, a, m, e) ==
  w.at = to /\ w.A = v.A + a /\ w.M = v.M + m /\ w.E = v.E + e

(* And does not call bsp_sync or mcbsp_checkpoint.                         *)
Step(v, w, to, a, m, e) == Arriving(v, w, to, a, m, e) /\ w.y = v.y /\ w.man = v.man
----
(* Where a thread can be.                                                  *)
PCs == {"none", "main", "spawning", "born", "ready", "linked", "user", "wait", "synced",
        "delivering", "due", "manual", "checkpointing", "ended", "leaving", "joining", "exited"}
(* Where it can go on behind a barrier.                                    *)
Targets == {"user", "synced", "delivering", "due", "manual", "ended", "leaving"}
(* A process of a run, or none.                                            *)
Seats == (Runs \X Ids) \cup {NoData}

(* A thread's place, locals and keys.                                      *)
Records ==
  [pc : PCs, run : Runs \cup {NoRun}, id : Ids, count : Nat, on : Arrays, then : Targets,
   init_data : Runs \cup {NoRun}, thread_data : Seats]

(* The init struct of a run of p processes.                                *)
RunOf(p) ==
  [P : {p}, abort : BOOLEAN, ended : BOOLEAN, no_cp : BOOLEAN, safe_cp : BOOLEAN,
   cp_f : Nat, safe_cp_f : Nat, skipped_checkpoints : Nat,
   arrived : [Arrays -> [0 .. p-1 -> Nat]],
   threads : [0 .. p-1 -> Threads \cup {NoThread}], threadData : SUBSET (0 .. p-1),
   prev_data : Seats]

(* What the properties remember.                                           *)
Histories ==
  [bound : [processes : 1 .. MaxP, runs : 1 .. MaxRuns, settings : Nat],
   begun : 0 .. MaxRuns, settings : Nat, lost : SUBSET Runs,
   inside : [Threads -> Seq(Runs \X Ids)], syncs : [Runs -> [Ids -> Nat]],
   manual : [Runs -> [Ids -> BOOLEAN]],
   since : [Runs -> [syncs : Nat, failing : Nat, touched : BOOLEAN]]]

(* bsp_begin was called for the run.                                       *)
Begun(r) == init[r].P > 0

(* Every variable has its type.                                            *)
InitType ==
  /\ init = [r \in Runs |-> init[r]]
  /\ \A r \in Runs : IF Begun(r) THEN init[r] \in RunOf(init[r].P) /\ init[r].P \in 1 .. MaxP
                                 ELSE init[r] = [P |-> 0]

(* Every thread has a place, locals and keys.                              *)
ThreadType == thread \in [Threads -> Records]

(* Frequencies are naturals.                                               *)
MachineType == machine \in [Threads -> [cp_f : Nat, safe_cp_f : Nat, SCFset : BOOLEAN]]

(* What is remembered has its type.                                        *)
HistoryType == history \in Histories

(* Only the structures of runs are allocated.                              *)
HeapType ==
  heap \subseteq {InitData(r) : r \in Runs} \cup {SharedArrays(r) : r \in Runs} \cup
    UNION {{Descriptor(r, s), ThreadData(r, s), Queues(r, s)} : r \in Runs, s \in Ids}

(* Every variable has its type.                                            *)
Types ==
  /\ hp \in BOOLEAN /\ failing \in BOOLEAN /\ fatal \in BOOLEAN
  /\ InitType /\ ThreadType /\ MachineType /\ HistoryType /\ HeapType
----
(* The runs a thread is inside of, the innermost last.                     *)
Inside(t) == history.inside[t]
(* The innermost one.                                                      *)
Innermost(t) == IF Inside(t) = <<>> THEN NoData ELSE Last(Inside(t))

(* Where a thread is of use to the run it is in.                           *)
InRun == {"linked", "user", "wait", "synced", "delivering", "due", "manual", "checkpointing",
          "ended", "leaving"}

(* What a thread's own variables say of each other.                        *)
LocalOK(x) ==
  /\ x.pc \in {"linked", "ended", "leaving"} => x.init_data = NoRun
  /\ x.pc = "linked" => x.id # 0
  /\ x.pc = "wait" /\ x.then \in {"ended", "leaving"} => x.init_data = NoRun
  /\ x.pc = "wait" => x.on = CASE x.then = "delivering" -> "sl_mid_condition"
                               [] x.then = "user" /\ x.on = "sl_end_condition" -> "sl_end_condition"
                               [] OTHER -> "sl_condition"
  /\ x.pc = "checkpointing" => x.id = 0

(* A thread's pc, its keys and the runs it is inside of agree.             *)
ThreadOK(t) ==
  LET x == thread[t]
      L == Inside(t)
  IN /\ x.pc \in {"none", "main"} => x.run = NoRun /\ x.id = 0 /\ x.thread_data = NoData /\ L = <<>>
     /\ x.pc = "none" => x.init_data = NoRun /\ t # 0
     /\ x.pc = "main" => t = 0
     /\ x.pc \in {"born", "ready"} => L = <<>> /\ x.thread_data = NoData /\ t # 0 /\ x.id # 0 /\ x.init_data = NoRun
     /\ x.pc \in {"spawning", "joining"} =>
          /\ x.id = 0 /\ init[x.run].prev_data = Innermost(t)
          /\ L = <<>> => t = 0
          /\ L # <<>> => Last(L)[1] < x.run
     /\ x.pc = "spawning" => x.init_data = x.run /\ x.thread_data = Innermost(t)
     /\ x.pc = "joining" => x.init_data = NoRun /\ x.thread_data = NoData
     /\ x.pc \in InRun => L # <<>> /\ Last(L) = <<x.run, x.id>> /\ x.thread_data = Last(L) /\ LocalOK(x)
     /\ x.pc \notin {"none", "main", "exited"} => x.run # NoRun
     /\ x.pc = "exited" /\ x.run # NoRun /\ ~ init[x.run].abort => L = <<>> /\ x.id # 0

(* A thread that is in a run has its place there, and no other has it.     *)
Seated(t) ==
  LET r == thread[t].run
  IN r # NoRun =>
       /\ Begun(r) /\ thread[t].id < init[r].P
       /\ init[r].threads[thread[t].id] = IF thread[t].pc = "spawning" THEN NoThread ELSE t

(* The runs a thread is inside of began each in the one before.            *)
Chain(t) ==
  LET L == Inside(t)
  IN /\ \A k \in 1 .. Len(L) :
          Begun(L[k][1]) /\ L[k][2] < init[L[k][1]].P /\ init[L[k][1]].threads[L[k][2]] = t
     /\ \A k \in 1 .. Len(L) - 1 :
          L[k+1][2] = 0 /\ init[L[k+1][1]].prev_data = L[k] /\ L[k][1] < L[k+1][1]
     /\ L # <<>> => IF t = 0 THEN L[1][2] = 0 /\ init[L[1][1]].prev_data = NoData
                             ELSE L[1][2] # 0

(* A run that was initialised and has not begun is known to one thread.    *)
Pending(t) ==
  LET r == thread[t].init_data
  IN r # NoRun =>
       /\ r <= history.begun
       /\ thread[t].pc # "spawning" => ~ Begun(r)
       /\ thread[t].pc \notin {"spawning", "exited"} => InitData(r) \in heap
       /\ Inside(t) # <<>> => Last(Inside(t))[1] < r
       /\ \A u \in Threads : u # t => thread[u].init_data # r

(* The thread that begins a run goes through its places from the last.     *)
Spawning(t) ==
  thread[t].pc = "spawning" =>
    /\ thread[t].count < Run(t).P
    /\ \A s \in ProcsOf(thread[t].run) : Run(t).threads[s] = NoThread <=> s <= thread[t].count

(* Every thread but the first was spawned.                                 *)
Spawned(t) ==
  thread[t].pc # "none" /\ t # 0 =>
    \E r \in Runs : Begun(r) /\ \E s \in 1 .. init[r].P - 1 : init[r].threads[s] = t

(* A run that has begun was initialised, and its processes are threads     *)
(* that were created.                                                      *)
RunOK(r) ==
  Begun(r) =>
    /\ r <= history.begun
    /\ \A s \in ProcsOf(r) : init[r].threads[s] # NoThread => thread[init[r].threads[s]].pc # "none"

(* Threads and runs refer to each other.                                   *)
Placed ==
  /\ \A t \in Threads :
       ThreadOK(t) /\ Seated(t) /\ Chain(t) /\ Pending(t) /\ Spawning(t) /\ Spawned(t)
  /\ \A r \in Runs : RunOK(r)
----
(* The place of a thread in the run it is in.                              *)
StageOf(x) ==
  IF x.pc # "wait" THEN x.pc
  ELSE CASE x.then = "synced" -> "to_synced"
         [] x.then = "delivering" -> "to_delivering"
         [] x.then = "due" -> "to_due"
         [] x.then = "manual" -> "to_manual"
         [] x.then = "ended" -> "to_ended"
         [] x.then = "leaving" -> "to_leaving"
         [] OTHER -> IF x.on = "sl_end_condition" THEN "to_user" ELSE "begin"

(* The place of a process.                                                 *)
Stage(r, s) ==
  LET u == init[r].threads[s]
  IN IF u = NoThread THEN "unborn"
     ELSE IF thread[u].run = r /\ thread[u].id = s THEN StageOf(thread[u]) ELSE "away"

(* The view of a process.                                                  *)
SeatView(r, s) ==
  [at |-> Stage(r, s), A |-> init[r].arrived["sl_condition"][s],
   M |-> init[r].arrived["sl_mid_condition"][s], E |-> init[r].arrived["sl_end_condition"][s],
   y |-> history.syncs[r][s], man |-> history.manual[r][s]]

(* The views of all processes of a run.                                    *)
View(r) == [s \in ProcsOf(r) |-> SeatView(r, s)]

(* The run has begun and its init struct has not been freed.               *)
Live(r) == Begun(r) /\ InitData(r) \in heap

(* There is an account of the run.                                         *)
InStep(r) ==
  \E b \in Bases : Account(View(r), ProcsOf(r), b, hp, init[r].ended, Due(init[r]), ManualAt[r])

(* An aborted run: nobody is where it needs the others.                    *)
Aborted(r) ==
  \A s \in ProcsOf(r) :
    /\ Stage(r, s) \notin {"synced", "delivering", "checkpointing", "ended", "leaving", "joining"}
    /\ s = 0 => Stage(r, s) \notin {"due", "manual"}

(* Every run that lives has one, or was aborted.                           *)
Synchronised == \A r \in Runs : Live(r) => IF init[r].abort THEN Aborted(r) ELSE InStep(r)
----
(* What there is of the s-th process of a run.                             *)
HeapOfSeat(r, s) ==
  /\ Descriptor(r, s) \in heap <=> Stage(r, s) = "born"
  /\ Stage(r, s) \notin {"unborn", "born", "joining", "exited"} =>
       ThreadData(r, s) \in heap /\ Queues(r, s) \in heap
  /\ (Stage(r, s) \in {"unborn", "born", "joining"} \/ (Stage(r, s) = "exited" /\ ~ init[r].abort)) =>
       ThreadData(r, s) \notin heap /\ Queues(r, s) \notin heap

(* What there is of a run that lives.                                      *)
HeapOf(r) ==
  /\ SharedArrays(r) \in heap
  /\ \A s \in ProcsOf(r) : HeapOfSeat(r, s)
  /\ \A s \in Ids \ ProcsOf(r) : {Descriptor(r, s), ThreadData(r, s), Queues(r, s)} \cap heap = {}

(* What there is of a run: all of it, nothing, or what bsp_init allocates. *)
HeapOfRun(r) ==
  /\ Live(r) => HeapOf(r)
  /\ Begun(r) /\ ~ Live(r) => \A o \in heap : o[2] # r
  /\ ~ Begun(r) => \A o \in heap : o[2] = r => o = InitData(r) /\ r <= history.begun

(* The runs a thread is in are there.                                      *)
InLiveRuns(t) ==
  /\ thread[t].run # NoRun /\ thread[t].pc # "exited" => Live(thread[t].run)
  /\ \A k \in 1 .. Len(Inside(t)) : Live(Inside(t)[k][1])

(* Every structure belongs to a run, and is there as long as it is used.   *)
HeapInv ==
  /\ \A r \in Runs : HeapOfRun(r)
  /\ \A t \in Threads : InLiveRuns(t)

(* Who has made itself known, and whom process 0 has joined.               *)
Linked(r) ==
  Live(r) => \A s \in ProcsOf(r) :
    s \in init[r].threadData <=> Stage(r, s) \notin {"unborn", "born", "ready"}

(* Process 0 has joined those before its count.                            *)
Joined(t) ==
  thread[t].pc = "joining" =>
    /\ thread[t].count \in 1 .. Run(t).P
    /\ \A q \in 1 .. thread[t].count - 1 :
         Run(t).threads[q] # NoThread /\ thread[Run(t).threads[q]].pc = "exited"

(* The table of thread data and the join handles are complete when they    *)
(* are used.                                                               *)
LinkedInv ==
  /\ \A r \in Runs : Linked(r)
  /\ \A t \in Threads : Joined(t)

(* The counts of a run's checkpoints. While nobody has touched the         *)
(* settings the file was looked for when it had to be, and outside         *)
(* bsp_sync no checkpoint is due.                                          *)
DataOf(r) ==
  LET since == history.since[r] IN
  /\ ~ Begun(r) => since = [syncs |-> 0, failing |-> 0, touched |-> FALSE]
  /\ ~ Begun(r) => \A s \in Ids : history.syncs[r][s] = 0 /\ ~ history.manual[r][s]
  /\ Begun(r) => since.syncs = init[r].skipped_checkpoints
  /\ Begun(r) /\ ~ since.touched =>
       /\ ~ init[r].no_cp /\ (init[r].safe_cp => init[r].safe_cp_f > 0)
       /\ init[r].safe_cp_f > 0 =>
            Due(init[r]) \/ since.failing <= init[r].skipped_checkpoints % init[r].safe_cp_f
       /\ Live(r) /\ Stage(r, 0) \notin {"to_synced", "synced", "to_delivering", "delivering",
                                          "to_due", "due", "exited"}
            => ~ Due(init[r])

(* That of every run.                                                      *)
DataInv == \A r \in Runs : DataOf(r)
----
(* The inductive invariant.                                                *)
LifeIInv == Types /\ Placed /\ Synchronised /\ HeapInv /\ LinkedInv /\ DataInv
====
