---- MODULE Lifecycle ----
(***************************************************************************)
(* The life of SPMD runs of MulticoreBSP for C: bsp_init, bsp_begin, the   *)
(* threads it spawns, the barriers of bsp_sync, checkpoints, bsp_abort and *)
(* bsp_end, with the memory each of them allocates, reads and frees        *)
(* (bsp.c:29-536, mcbsp.c:214-248, 401-537, 611-750).  Runs follow one     *)
(* another, and a process may start a run inside its own (init->prev_data).*)
(*                                                                         *)
(* What a superstep communicates is the subject of Drma, Bsmp and          *)
(* Registration; here it matters only that a process then reads the thread *)
(* data of all.  A barrier is a counter of arrivals per process and array, *)
(* which SpinBarrier is shown to implement with bytes.                     *)
(***************************************************************************)
EXTENDS Checkpointing, FiniteSets, Sequences, SequencesExt, FiniteSetsExt

CONSTANTS
  MaxP,             \* bound: the largest number of processes of a run
  MaxRuns,          \* bound: how many runs are started, nested ones included
  MaxSyncs,         \* bound: MaxSyncs[r], the calls of bsp_sync in the r-th run
  ManualAt,         \* ManualAt[r]: the supersteps in which all call mcbsp_checkpoint
  MachineFiles,     \* the checkpoint frequencies machine.info may give
  Frequencies,      \* the frequencies a program sets at run time
  Bounds            \* bounds of one behaviour: its processes per run, its runs
                    \* and how often a setting or /etc/bsp_failure changes

ASSUME BoundsAssumption ==
  /\ {MaxP, MaxRuns} \subseteq Nat \ {0}
  /\ Bounds \subseteq [processes : 1 .. MaxP, runs : 1 .. MaxRuns, settings : Nat]

(* Frequencies are of type size_t.                                         *)
ASSUME FrequencyAssumption ==
  /\ Frequencies \subseteq Nat
  /\ MachineFiles \subseteq [cp_f : Nat, safe_cp_f : Nat, SCFset : BOOLEAN]

Runs == 1 .. MaxRuns
Ids == 0 .. MaxP - 1
Threads == 0 .. MaxRuns * (MaxP - 1)
NoRun == 0
NoThread == Cardinality(Threads)
NoData == <<NoRun, 0>>                  \* a NULL thread_data pointer
Arrays == {"sl_condition", "sl_mid_condition", "sl_end_condition"}

VARIABLES
  hp,               \* compiled with MCBSP_ENABLE_HP_DIRECTIVES (never changes)
  heap,             \* the allocated structures
  init,             \* init[r]: the init struct of the r-th run
  thread,           \* thread[t]: where a POSIX thread is, its locals and its keys
  machine,          \* machine[t]: its machine information
  failing,          \* /etc/bsp_failure exists
  fatal,            \* mcbsp_util_fatal was called
  history           \* what the properties remember

vars == <<hp, heap, init, thread, machine, failing, fatal, history>>

(* The structures of a run, and those of its s-th process: the descriptor  *)
(* bsp_begin hands to pthread_create, and what the process makes of it.    *)
InitData(r) == <<"init_data", r>>
SharedArrays(r) == <<"arrays", r>>
Descriptor(r, s) == <<"descriptor", r, s>>
ThreadData(r, s) == <<"thread_data", r, s>>
Queues(r, s) == <<"queues", r, s>>

ProcsOf(r) == 0 .. init[r].P - 1
Run(t) == init[thread[t].run]

(* The keys have been created and are NULL in every thread.                *)
Init ==
  /\ hp \in BOOLEAN
  /\ heap = {}
  /\ init = [r \in Runs |-> [P |-> 0]]
  /\ thread = [t \in Threads |->
       [pc |-> IF t = 0 THEN "main" ELSE "none", run |-> NoRun, id |-> 0, count |-> 0,
        on |-> "sl_condition", then |-> "user", init_data |-> NoRun, thread_data |-> NoData]]
  /\ \E file \in MachineFiles : machine = [t \in Threads |-> file]
  /\ failing = FALSE
  /\ fatal = FALSE
  /\ \E bound \in Bounds :
     history = [bound |-> bound, begun |-> 0, settings |-> 0, lost |-> {},
                inside |-> [t \in Threads |-> <<>>],
                syncs |-> [r \in Runs |-> [s \in Ids |-> 0]],
                manual |-> [r \in Runs |-> [s \in Ids |-> FALSE]],
                since |-> [r \in Runs |-> [syncs |-> 0, failing |-> 0, touched |-> FALSE]]]
----
(* Faulty variant: the flags of an init struct are not reset.              *)
NewRunNotReset(t, p) ==
  [P |-> p, abort |-> FALSE, ended |-> TRUE, no_cp |-> FALSE, safe_cp |-> FALSE,
   cp_f |-> machine[t].cp_f, safe_cp_f |-> machine[t].safe_cp_f, skipped_checkpoints |-> 0,
   arrived |-> [a \in Arrays |-> [s \in 0 .. p-1 |-> 0]],
   threads |-> [s \in 0 .. p-1 |-> NoThread], threadData |-> {},
   prev_data |-> thread[t].thread_data]

(* The init struct of a run of p processes begun by t.                     *)
NewRun(t, p) ==
  [P |-> p, abort |-> FALSE, ended |-> FALSE, no_cp |-> FALSE, safe_cp |-> FALSE,
   cp_f |-> machine[t].cp_f, safe_cp_f |-> machine[t].safe_cp_f, skipped_checkpoints |-> 0,
   arrived |-> [a \in Arrays |-> [s \in 0 .. p-1 |-> 0]],
   threads |-> [s \in 0 .. p-1 |-> NoThread], threadData |-> {},
   prev_data |-> thread[t].thread_data]

(* Process s announces itself at a barrier, on one of the arrays.          *)
Announced(i, s, array) == [i EXCEPT !.arrived[array][s] = @ + 1]

(* Thread t waits there, to go on at "then".                               *)
Waiting(t, array, then) == [thread[t] EXCEPT !.pc = "wait", !.on = array, !.then = then]

(* Both.                                                                   *)
Arrive(t, array, then) ==
  /\ init' = [init EXCEPT ![thread[t].run] = Announced(@, thread[t].id, array)]
  /\ thread' = [thread EXCEPT ![t] = Waiting(t, array, then)]

(* Faulty variants of definitions that follow.                             *)

(* The descriptor is copied and forgotten.                                 *)
InitializeThreadDataLeak(t) ==
  /\ thread[t].pc = "born"
  /\ heap' = heap \cup {ThreadData(thread[t].run, thread[t].id), Queues(thread[t].run, thread[t].id)}
  /\ thread' = [thread EXCEPT ![t].pc = "ready"]
  /\ UNCHANGED <<hp, init, machine, failing, fatal, history>>

(* Process 0 resets the count as soon as it sees that a checkpoint is due. *)
DeliverResetEarly(t) ==
  /\ thread[t].pc = "delivering"
  /\ IF ~ Due(Run(t)) THEN Arrive(t, "sl_end_condition", "user")
     ELSE /\ thread' = [thread EXCEPT ![t] = Waiting(t, "sl_condition", "due")]
          /\ init' = [init EXCEPT ![thread[t].run] = Announced(
               IF thread[t].id = 0 THEN [@ EXCEPT !.skipped_checkpoints = 0] ELSE @,
               thread[t].id, "sl_condition")]
  /\ UNCHANGED <<hp, heap, machine, failing, fatal, history>>

(* It does not wait for the others' communication.                         *)
DeliverNoBarrier(t) ==
  /\ thread[t].pc = "delivering"
  /\ IF Due(Run(t)) /\ thread[t].id = 0
       THEN thread' = [thread EXCEPT ![t].pc = "due"] /\ UNCHANGED init
       ELSE Arrive(t, "sl_end_condition", "user")
  /\ UNCHANGED <<hp, heap, machine, failing, fatal, history>>

(* bsp_end has no second barrier.                                          *)
ProfileNoBarrier(t) ==
  /\ thread[t].pc = "ended"
  /\ thread' = [thread EXCEPT ![t].pc = "leaving"]
  /\ UNCHANGED <<hp, heap, init, machine, failing, fatal, history>>

(* Process 0 does not wait for the other threads to exit.                  *)
JoinNobody(t) ==
  /\ thread[t].pc = "joining"
  /\ thread[t].count < Run(t).P
  /\ thread' = [thread EXCEPT ![t].count = @ + 1]
  /\ UNCHANGED <<hp, heap, init, machine, failing, fatal, history>>

(* The key is cleared, not restored.                                       *)
FinishForgetsParent(t) ==
  /\ thread[t].pc = "joining"
  /\ thread[t].count = Run(t).P
  /\ heap' = heap \ {InitData(thread[t].run), SharedArrays(thread[t].run)}
  /\ LET prev == Run(t).prev_data IN
     thread' = [thread EXCEPT ![t] = [@ EXCEPT !.thread_data = NoData, !.run = prev[1],
                  !.id = prev[2], !.pc = IF prev = NoData THEN "main" ELSE "user"]]
  /\ UNCHANGED <<hp, init, machine, failing, fatal, history>>
----
(* The runs around run r: that of the process which began it, and so on.   *)
Around(r) ==
  {q \in Runs \ {r} :
     \A S \in SUBSET Runs :
       /\ r \in S
       /\ \A p \in S : init[p].P > 0 /\ init[p].prev_data # NoData => init[p].prev_data[1] \in S
       => q \in S}

(* pthread_exit of an aborted process: the keys' destructor frees what the *)
(* keys hold, the queues stay.  The run cannot end, and the process that   *)
(* began it does not come back to the runs around it.                      *)
PthreadExit(t) ==
  /\ heap' = heap \ ({InitData(thread[t].init_data)} \cup
                     {ThreadData(thread[t].thread_data[1], thread[t].thread_data[2])})
  /\ history' = [history EXCEPT !.lost = @ \cup Around(thread[t].run)]

Exited(t) == [thread[t] EXCEPT !.pc = "exited"]
----
(* bsp_init: a fresh init struct, kept in this thread's key.               *)
BspInit(t) ==
  /\ thread[t].pc \in {"main", "user"}
  /\ thread[t].init_data = NoRun
  /\ history.begun < history.bound.runs
  /\ history' = [history EXCEPT !.begun = @ + 1]
  /\ heap' = heap \cup {InitData(history.begun + 1)}
  /\ thread' = [thread EXCEPT ![t].init_data = history.begun + 1]
  /\ UNCHANGED <<hp, init, machine, failing, fatal>>

(* bsp_begin with nothing in either key: an implied bsp_init.              *)
ImpliedInit(t) == thread[t].init_data = NoRun /\ thread[t].thread_data = NoData

(* bsp_begin( P ), up to the loop that spawns the threads.                 *)
Begin(t) ==
  /\ thread[t].pc \in {"main", "user"}
  /\ thread[t].init_data # NoRun \/ (ImpliedInit(t) /\ history.begun < history.bound.runs)
  /\ \E p \in 1 .. history.bound.processes :
       LET r == IF ImpliedInit(t) THEN history.begun + 1 ELSE thread[t].init_data IN
       /\ init' = [init EXCEPT ![r] = NewRun(t, p)]
       /\ heap' = heap \cup {InitData(r), SharedArrays(r)}
       /\ history' = [history EXCEPT !.begun = IF ImpliedInit(t) THEN r ELSE @]
       /\ thread' = [thread EXCEPT ![t] = [@ EXCEPT !.pc = "spawning", !.run = r, !.id = 0,
                                             !.count = p - 1, !.init_data = r]]
  /\ UNCHANGED <<hp, machine, failing, fatal>>

(* One turn of the loop: allocate the descriptor of process "count" and    *)
(* create the thread, which runs mcbsp_internal_spmd from then on.         *)
Spawn(t) ==
  /\ thread[t].pc = "spawning"
  /\ thread[t].count > 0
  /\ LET r == thread[t].run
         s == thread[t].count
         u == Min({v \in Threads : thread[v].pc = "none"})
     IN /\ heap' = heap \cup {Descriptor(r, s)}
        /\ init' = [init EXCEPT ![r].threads[s] = u]
        /\ thread' = [thread EXCEPT ![t].count = @ - 1,
                        ![u] = [@ EXCEPT !.pc = "born", !.run = r, !.id = s]]
  /\ UNCHANGED <<hp, machine, failing, fatal, history>>

(* The last turn: the calling thread becomes process 0.  It leaves the key *)
(* for a nested bsp_init and waits for the others, if the build has        *)
(* primitives that need their queues.                                      *)
StartMaster(t) ==
  /\ thread[t].pc = "spawning"
  /\ thread[t].count = 0
  /\ LET r == thread[t].run
         begun == [Run(t) EXCEPT !.threads[0] = t, !.threadData = @ \cup {0}]
     IN /\ heap' = heap \cup {ThreadData(r, 0), Queues(r, 0)}
        /\ init' = [init EXCEPT ![r] = IF hp THEN Announced(begun, 0, "sl_condition") ELSE begun]
        /\ thread' = [thread EXCEPT ![t] = [IF hp THEN Waiting(t, "sl_condition", "user")
                                                  ELSE [@ EXCEPT !.pc = "user"]
                        EXCEPT !.thread_data = <<r, 0>>, !.init_data = NoRun]]
        /\ history' = [history EXCEPT !.inside[t] = Append(@, <<r, 0>>)]
  /\ UNCHANGED <<hp, machine, failing, fatal>>

(* mcbsp_internal_spmd in the new thread: copy the descriptor, allocate the*)
(* queues, free the descriptor.                                            *)
InitializeThreadData(t) ==
  /\ thread[t].pc = "born"
  /\ LET r == thread[t].run
         s == thread[t].id
     IN heap' = (heap \ {Descriptor(r, s)}) \cup {ThreadData(r, s), Queues(r, s)}
  /\ thread' = [thread EXCEPT ![t].pc = "ready"]
  /\ UNCHANGED <<hp, init, machine, failing, fatal, history>>

(* Make it known to the others and to oneself.                             *)
LinkThreadData(t) ==
  /\ thread[t].pc = "ready"
  /\ init' = [init EXCEPT ![thread[t].run].threadData = @ \cup {thread[t].id}]
  /\ thread' = [thread EXCEPT ![t] = [@ EXCEPT !.pc = "linked",
                                        !.thread_data = <<thread[t].run, thread[t].id>>]]
  /\ history' = [history EXCEPT !.inside[t] = Append(@, <<thread[t].run, thread[t].id>>)]
  /\ UNCHANGED <<hp, heap, machine, failing, fatal>>

(* Call the SPMD function, whose first statement is bsp_begin: here only a *)
(* barrier, if the build has one.  bsp_time has checked for an abort.      *)
BeginSibling(t) ==
  /\ thread[t].pc = "linked"
  /\ ~ Run(t).abort
  /\ IF hp THEN Arrive(t, "sl_condition", "user")
           ELSE thread' = [thread EXCEPT ![t].pc = "user"] /\ UNCHANGED init
  /\ UNCHANGED <<hp, heap, machine, failing, fatal, history>>
----
(* The barrier lets t go once all processes of its run have arrived as     *)
(* often as itself, or when the run is aborted; then the thread exits.     *)
Open(t) ==
  LET arrived == Run(t).arrived[thread[t].on]
  IN Run(t).abort \/ \A s \in DOMAIN arrived : arrived[s] >= arrived[thread[t].id]

LeaveBarrier(t) ==
  /\ thread[t].pc = "wait"
  /\ Open(t)
  /\ ~ Run(t).abort
  /\ thread' = [thread EXCEPT ![t].pc = thread[t].then]
  /\ UNCHANGED <<hp, heap, init, machine, failing, fatal, history>>

(* mcbsp_internal_check_aborted, at a barrier or in any primitive.         *)
ExitAborted(t) ==
  /\ thread[t].pc \in {"wait", "user", "linked"}
  /\ Run(t).abort
  /\ thread' = [thread EXCEPT ![t] = Exited(t)]
  /\ PthreadExit(t)
  /\ UNCHANGED <<hp, init, machine, failing, fatal>>

(* bsp_abort, from user code.                                              *)
Abort(t) ==
  /\ thread[t].pc = "user"
  /\ ~ Run(t).abort
  /\ init' = [init EXCEPT ![thread[t].run].abort = TRUE]
  /\ thread' = [thread EXCEPT ![t] = Exited(t)]
  /\ PthreadExit(t)
  /\ UNCHANGED <<hp, machine, failing, fatal>>

(* The program has all its processes call mcbsp_checkpoint in the same     *)
(* supersteps; nothing else is agreed between them.                        *)
CheckpointFirst(t) ==
  /\ history.syncs[thread[t].run][thread[t].id] \in ManualAt[thread[t].run]
  /\ ~ history.manual[thread[t].run][thread[t].id]

(* bsp_sync up to its first barrier.                                       *)
Sync(t) ==
  /\ thread[t].pc = "user"
  /\ ~ CheckpointFirst(t)
  /\ LET r == thread[t].run
         s == thread[t].id
         counts == s = 0 /\ ~ Run(t).no_cp
     IN /\ history.syncs[r][s] < MaxSyncs[r]
        /\ init' = [init EXCEPT ![r] = Announced(
             IF s = 0 THEN UpdateCheckpointStats(@, failing) ELSE @, s, "sl_condition")]
        /\ thread' = [thread EXCEPT ![t] = Waiting(t, "sl_condition", "synced")]
        /\ history' = [history EXCEPT
             !.syncs[r][s] = @ + 1, !.manual[r][s] = FALSE,
             !.since[r].syncs = IF counts THEN @ + 1 ELSE @,
             !.since[r].failing = IF ~ counts THEN @ ELSE IF failing THEN @ + 1 ELSE 0]
  /\ UNCHANGED <<hp, heap, machine, failing, fatal>>

(* Behind it: some process is in bsp_end.                                  *)
MismatchedEnd(t) ==
  /\ thread[t].pc = "synced"
  /\ Run(t).ended
  /\ fatal' = TRUE
  /\ UNCHANGED <<hp, heap, init, thread, machine, failing, history>>

(* Nobody is: read the requests of all, up to the second barrier.          *)
Exchange(t) ==
  /\ thread[t].pc = "synced"
  /\ ~ Run(t).ended
  /\ Arrive(t, "sl_mid_condition", "delivering")
  /\ UNCHANGED <<hp, heap, machine, failing, fatal, history>>

(* Read them again; then decide about a checkpoint.                        *)
Deliver(t) ==
  /\ thread[t].pc = "delivering"
  /\ IF Due(Run(t)) THEN Arrive(t, "sl_condition", "due")
                    ELSE Arrive(t, "sl_end_condition", "user")
  /\ UNCHANGED <<hp, heap, machine, failing, fatal, history>>

(* mcbsp_checkpoint up to its barrier.                                     *)
BspCheckpoint(t) ==
  /\ thread[t].pc = "user"
  /\ CheckpointFirst(t)
  /\ Arrive(t, "sl_condition", "manual")
  /\ history' = [history EXCEPT !.manual[thread[t].run][thread[t].id] = TRUE]
  /\ UNCHANGED <<hp, heap, machine, failing, fatal>>

(* Only process 0 calls the coordinator; an automatic checkpoint resets the*)
(* count of those that were skipped.                                       *)
StartCheckpoint(t) ==
  /\ thread[t].pc \in {"due", "manual"}
  /\ thread[t].id = 0
  /\ thread' = [thread EXCEPT ![t].pc = "checkpointing"]
  /\ LET r == thread[t].run
         automatic == thread[t].pc = "due"
     IN /\ init' = [init EXCEPT ![r].skipped_checkpoints = IF automatic THEN 0 ELSE @]
        /\ history' = IF automatic
             THEN [history EXCEPT !.since[r].syncs = 0, !.since[r].failing = 0]
             ELSE history
  /\ UNCHANGED <<hp, heap, machine, failing, fatal>>

(* The others go straight to the last barrier.                             *)
AwaitCheckpoint(t) ==
  /\ thread[t].pc \in {"due", "manual"}
  /\ thread[t].id # 0
  /\ Arrive(t, "sl_end_condition", "user")
  /\ UNCHANGED <<hp, heap, machine, failing, fatal, history>>

(* dmtcp_checkpoint returns after a checkpoint or a restart.               *)
CheckpointDone(t) ==
  /\ thread[t].pc = "checkpointing"
  /\ Arrive(t, "sl_end_condition", "user")
  /\ UNCHANGED <<hp, heap, machine, failing, fatal, history>>

(* It did not succeed: bsp_abort, from inside bsp_sync or mcbsp_checkpoint.*)
CheckpointFails(t) ==
  /\ thread[t].pc = "checkpointing"
  /\ init' = [init EXCEPT ![thread[t].run].abort = TRUE]
  /\ thread' = [thread EXCEPT ![t] = Exited(t)]
  /\ PthreadExit(t)
  /\ UNCHANGED <<hp, machine, failing, fatal>>
----
(* bsp_end up to its first barrier.                                        *)
End(t) ==
  /\ thread[t].pc = "user"
  /\ ~ CheckpointFirst(t)
  /\ thread[t].init_data = NoRun
  /\ init' = [init EXCEPT ![thread[t].run] =
                Announced([@ EXCEPT !.ended = TRUE], thread[t].id, "sl_condition")]
  /\ thread' = [thread EXCEPT ![t] = Waiting(t, "sl_condition", "ended")]
  /\ UNCHANGED <<hp, heap, machine, failing, fatal, history>>

(* Print or assert something about the thread data of all, up to the second*)
(* barrier.                                                                *)
Profile(t) ==
  /\ thread[t].pc = "ended"
  /\ Arrive(t, "sl_condition", "leaving")
  /\ UNCHANGED <<hp, heap, machine, failing, fatal, history>>

(* Free one's own data; all but process 0 are done.                        *)
DestroyThreadData(t) ==
  /\ thread[t].pc = "leaving"
  /\ heap' = heap \ {ThreadData(thread[t].run, thread[t].id), Queues(thread[t].run, thread[t].id)}
  /\ thread' = [thread EXCEPT ![t] = [@ EXCEPT !.thread_data = NoData, !.count = 1,
                                        !.pc = IF thread[t].id = 0 THEN "joining" ELSE "exited"]]
  /\ history' = [history EXCEPT !.inside[t] = Front(@)]
  /\ UNCHANGED <<hp, init, machine, failing, fatal>>

Join(t) ==
  /\ thread[t].pc = "joining"
  /\ thread[t].count < Run(t).P
  /\ thread[Run(t).threads[thread[t].count]].pc = "exited"
  /\ thread' = [thread EXCEPT ![t].count = @ + 1]
  /\ UNCHANGED <<hp, heap, init, machine, failing, fatal, history>>

(* Free what the run shared and go back to where bsp_begin was called.     *)
Finish(t) ==
  /\ thread[t].pc = "joining"
  /\ thread[t].count = Run(t).P
  /\ heap' = heap \ {InitData(thread[t].run), SharedArrays(thread[t].run)}
  /\ LET prev == Run(t).prev_data IN
     thread' = [thread EXCEPT ![t] = [@ EXCEPT !.thread_data = prev, !.run = prev[1],
                  !.id = prev[2], !.pc = IF prev = NoData THEN "main" ELSE "user"]]
  /\ UNCHANGED <<hp, init, machine, failing, fatal, history>>

(* The end of the program.                                                 *)
Return(t) ==
  /\ thread[t].pc = "main"
  /\ thread[t].init_data = NoRun
  /\ thread' = [thread EXCEPT ![t] = Exited(t)]
  /\ UNCHANGED <<hp, heap, init, machine, failing, fatal, history>>
----
(* A setting made by the program; in a run, every process may make it.     *)
Setting(t, machine1, init1) ==
  /\ history.settings < history.bound.settings
  /\ machine' = [machine EXCEPT ![t] = machine1]
  /\ IF thread[t].pc = "user"
       THEN /\ init' = [init EXCEPT ![thread[t].run] = init1]
            /\ history' = [history EXCEPT !.settings = @ + 1,
                             !.since[thread[t].run].touched = TRUE]
       ELSE /\ history' = [history EXCEPT !.settings = @ + 1]
            /\ UNCHANGED init
  /\ UNCHANGED <<hp, heap, thread, failing, fatal>>

(* Outside a run it is bsp_begin that copies the machine information.      *)
SetFrequency(t) ==
  /\ thread[t].pc \in {"main", "user"}
  /\ \E f \in Frequencies :
       \/ Setting(t, FrequencyInMachine(machine[t], f), FrequencyInInit(Run(t), machine[t], f))
       \/ Setting(t, SafeFrequencyInMachine(machine[t], f), SafeFrequencyInInit(Run(t), f))

SwitchCheckpoints(t) ==
  /\ thread[t].pc = "user"
  /\ ~ Run(t).abort
  /\ \E i \in {EnableCheckpoints(Run(t)), DisableCheckpoints(Run(t))} :
       i # Run(t) /\ Setting(t, machine[t], i)

(* A daemon outside the program writes or removes /etc/bsp_failure.        *)
Daemon ==
  /\ history.settings < history.bound.settings
  /\ history' = [history EXCEPT !.settings = @ + 1]
  /\ failing' = ~ failing
  /\ UNCHANGED <<hp, heap, init, thread, machine, fatal>>
----
(* What a thread does however the program is written.                      *)
Library(t) ==
  \/ Spawn(t) \/ StartMaster(t)
  \/ InitializeThreadData(t) \/ LinkThreadData(t) \/ BeginSibling(t)
  \/ LeaveBarrier(t) \/ ExitAborted(t) \/ MismatchedEnd(t) \/ Exchange(t) \/ Deliver(t)
  \/ StartCheckpoint(t) \/ AwaitCheckpoint(t) \/ CheckpointDone(t) \/ CheckpointFails(t)
  \/ Profile(t) \/ DestroyThreadData(t) \/ Join(t) \/ Finish(t)

(* The calls the program chooses.                                          *)
Program(t) ==
  \/ BspInit(t) \/ Begin(t) \/ Sync(t) \/ BspCheckpoint(t) \/ End(t)
  \/ Abort(t) \/ SetFrequency(t) \/ SwitchCheckpoints(t) \/ Return(t)

(* A process that aborts a nested run leaves the run around it without     *)
(* notice: the others there wait for it for ever.                          *)
Stranded(t) == thread[t].pc = "wait" /\ thread[t].run \in history.lost /\ ~ Open(t)

Over == fatal \/ \A t \in Threads : thread[t].pc \in {"none", "exited"} \/ Stranded(t)

Finished == Over /\ UNCHANGED vars

Next ==
  \/ ~ fatal /\ \E t \in Threads : Library(t) \/ Program(t)
  \/ ~ fatal /\ Daemon
  \/ Finished

Spec == Init /\ [][Next]_vars

(* The operating system runs every thread, and a program keeps calling.    *)
FairSpec == Spec /\ \A t \in Threads : WF_vars(~ fatal /\ (Library(t) \/ Program(t)))
----
TypeOK ==
  /\ hp \in BOOLEAN /\ failing \in BOOLEAN /\ fatal \in BOOLEAN
  /\ \A t \in Threads :
       /\ thread[t].run \in Runs \cup {NoRun}
       /\ thread[t].init_data \in Runs \cup {NoRun}
       /\ thread[t].thread_data \in (Runs \X Ids) \cup {NoData}
  /\ \A r \in Runs : init[r].P \in 0 .. MaxP
  /\ heap \subseteq {InitData(r) : r \in Runs} \cup {SharedArrays(r) : r \in Runs} \cup
       UNION {{Descriptor(r, s), ThreadData(r, s), Queues(r, s)} : r \in Runs, s \in Ids}

Everyones(r) == UNION {{ThreadData(r, s), Queues(r, s)} : s \in ProcsOf(r)}

(* What the next step of thread t reads, writes or frees.                  *)
Touches(t) ==
  LET r == thread[t].run
      s == thread[t].id
      shared == {InitData(r), SharedArrays(r)}
  IN CASE thread[t].pc \in {"none", "main", "exited"} -> {}
       [] thread[t].pc \in {"spawning", "joining"} -> shared
       [] thread[t].pc = "born" -> {InitData(r), Descriptor(r, s)}
       [] thread[t].pc \in {"synced", "delivering", "ended"} -> shared \cup Everyones(r)
       [] OTHER -> shared \cup {ThreadData(r, s), Queues(r, s)}

(* Threads read each other's data without a lock and free their own: no    *)
(* step touches what is not there yet or not there any more, and what is   *)
(* read of all has been linked by all.  (bsp.c:306-315, 339-388; mcbsp.c:  *)
(* 466, 695.)                                                              *)
OnlyLiveDataIsTouched ==
  \A t \in Threads :
    /\ Touches(t) \subseteq heap
    /\ thread[t].pc \in {"synced", "delivering", "ended"} => Run(t).threadData = ProcsOf(thread[t].run)

(* "check for mismatched sync/end" (bsp.c:649) is made with a flag read    *)
(* without a lock: it never accuses a run whose processes agree, and the   *)
(* processes that get through bsp_end have all called bsp_sync equally     *)
(* often.                                                                  *)
MismatchIsReported ==
  /\ fatal => \E r \in Runs : \E s, q \in ProcsOf(r) : history.syncs[r][s] # history.syncs[r][q]
  /\ \A t \in Threads : thread[t].pc \in {"leaving", "joining"} =>
       \A s \in ProcsOf(thread[t].run) :
         history.syncs[thread[t].run][s] = history.syncs[thread[t].run][thread[t].id]

(* Once the init struct of a run is freed everything else of the run is;   *)
(* and a process that is back from a nested run is the process it was.     *)
RunsLeaveNoTrace ==
  /\ \A r \in Runs : init[r].P > 0 /\ InitData(r) \notin heap => \A o \in heap : o[2] # r
  /\ \A t \in Threads :
       /\ thread[t].pc = "user" => thread[t].thread_data = Last(history.inside[t])
       /\ thread[t].pc = "main" => history.inside[t] = <<>> /\ thread[t].thread_data = NoData

(* What is shared lives as long as it is used, and no longer.              *)
LifecycleInv == TypeOK /\ OnlyLiveDataIsTouched /\ RunsLeaveNoTrace

(* While process 0 has a checkpoint made the others of its run are on their*)
(* way to the barrier behind it: no communication, no user code.           *)
CheckpointsAtRest ==
  \A t, u \in Threads :
    thread[t].pc = "checkpointing" /\ u # t /\ thread[u].run = thread[t].run =>
      \/ thread[u].pc \in {"due", "manual"}
      \/ thread[u].pc = "wait" /\ thread[u].then \in {"due", "manual"} /\ Open(u)
      \/ thread[u].pc = "wait" /\ thread[u].on = "sl_end_condition" /\ ~ Open(u)

(* "MulticoreBSP automatically checkpoints every C bsp_syncs" (mcbsp-      *)
(* resiliency.h:83), in safe mode every safe_cp_f of them; and a failure   *)
(* that looms is acted on within safe_cp_f of them, even if it showed      *)
(* between two looks at the file.                                          *)
CheckpointsInTime ==
  \A t \in Threads :
    thread[t].pc = "user" /\ thread[t].id = 0 /\ ~ history.since[thread[t].run].touched =>
      LET since == history.since[thread[t].run] IN
      /\ CpFrequency(Run(t)) > 0 => since.syncs < CpFrequency(Run(t))
      /\ Run(t).safe_cp_f > 0 => since.failing < Run(t).safe_cp_f

(* Checkpoints are made when nothing moves, and not too late.              *)
CheckpointsInv == CheckpointsAtRest /\ CheckpointsInTime

(* The program ends: every process gets through its barriers to the end of *)
(* bsp_end, exits after an abort, or is stranded.                          *)
EveryProgramEnds == <>Over
====
