# Verification of Parallel-Algorithms-code

The repository holds prime sieves written for bulk-synchronous parallel (BSP)
execution, MulticoreBSP for C (version 2.0.4), the thread library they run on,
and BSPedupack, a collection of BSP programs. This directory models them in
TLA+, checks the models with TLC, and proves with TLAPS what the library
promises its users - barriers, remote memory, messages, registration, the life
cycle with its checkpoints, the address map - and that the sieves find the
primes.

A BSP program runs the same function in `P` threads ("processes"). Between two
calls of `bsp_sync` (a *superstep*) processes compute and queue requests; the
requests are carried out inside `bsp_sync`. Everything rests on the barriers
inside `bsp_sync`, so they come first here.

Paths are relative to `src/`; `mcbsp.c`, `bsp.c`, `mcutil.c`, `bsp.h`, `mcutil.h`
stand for the files of that name in `bsp_lib/MulticoreBSP-for-C/`, and files
called `bsp*.c` other than `bsp.c` are in `bsp_lib/BSPedupack2.0/`.

## 1. Inventory

| Component | State | Operations | Interacts with |
|---|---|---|---|
| Spin barrier (`mcbsp.c`, performance build) | one byte per process and barrier, the abort flag | `mcbsp_internal_spinlock`, `bsp_abort` | called three times in `bsp_sync`, twice in `bsp_end` |
| Mutex barrier (`mcbsp.c`, `MCBSP_USE_MUTEXES`) | one counter, one mutex, three condition variables | `mcbsp_internal_sync`, `bsp_abort`, also of a failed checkpoint | as above, and in `mcbsp_checkpoint` |
| DRMA (`bsp.c`) | per process: queues of puts, gets, high-performance requests | `bsp_put`, `bsp_get`, `bsp_hpput`, `bsp_hpget`, `bsp_direct_get`, `bsp_sync` | reads other processes' queues and memory between barriers |
| BSMP (`bsp.c`) | untyped byte stacks, the shared tag size | `bsp_set_tagsize`, `bsp_send`, `bsp_hpsend`, `bsp_move`, `bsp_hpmove`, `bsp_get_tag`, `bsp_qsize`, `bsp_sync` | the same queues as DRMA |
| Registration (`bsp.c`) | per process: requests, map from addresses to global numbers, free numbers; shared: the table from numbers to addresses | `bsp_push_reg`, `bsp_pop_reg`, `bsp_sync` | looks into other processes' requests and maps; used by every put and get |
| Address map (`mcutil.c`) | two parallel arrays | insert, remove, get, binary search, grow | one per process, read by others inside `bsp_sync` |
| Address table, stacks (`mcutil.c`) | arrays that grow, a mutex | set, get, delete; push, peek, pop | all of the above |
| Life cycle (`bsp.c`, `mcbsp.c`) | init structs, thread data, thread-local keys, the `ended` flag, join handles | `bsp_init`, `bsp_begin`, `bsp_end`, `bsp_abort`, thread start and exit | creates and frees everything above |
| Checkpointing (`mcbsp.c`, `bsp.c`) | counts and frequencies per run, safe mode | decision in `bsp_sync`, `mcbsp_checkpoint`, five settings | `bsp_sync`'s barriers, life cycle, machine information |
| Machine information and pinning (`mcutil.c`, `mcbsp.c`) | a description per thread, read from a file; the part of the machine a process has | reading, `mcbsp_set_*`, placement of a run | `bsp_begin` |
| Parallel sieve (`parallel_primes.c`) | a block of the sieve per process, the small primes, counts, the result array | `bsp_sieve`, `get_start`, `sieve`, `find_primes_sieve` | DRMA and registration |
| Iterative sieve (`parallel_primes_iterative.c`) | the same, and the index of the current prime | `bsp_sieve_iterative` | DRMA and registration |
| Sequential sieve (`sequential_primes.c`) | one array | two sieves, a validity test | none |
| BSPedupack | arrays of every process | sorting, LU decomposition, Fourier transform, sparse matrix times vector, graph matching, inner product, benchmark | DRMA, BSMP and registration |
| Profiling, C++ wrapper, demonstrations, tests, tools | | | |

What is hard in them, and what makes them correct:

* **Barriers.** Processes race past each other; bytes wrap; an abort can come at
  any time, even inside `bsp_sync` when a checkpoint fails. Nobody may leave
  early, nobody may wait for ever, an abort must reach everybody.
* **DRMA.** The order of gets, puts and unbuffered requests is kept only by
  where the barriers stand. `bsp_sync` must look like one step to user code.
* **BSMP.** Tag sizes are not stored with the messages, and the current one is
  shared without a lock. Messages must arrive once, with their own bytes.
* **Registration.** Processes number the variables independently and must agree.
  The table is read without a lock, and must rest while it is.
* **Containers.** Binary search over an array that turns out not to be sorted;
  memory that is replaced by larger memory must keep what it held.
* **Life cycle.** Threads read each other's data without locks and free their
  own; runs nest, and abort while others wait; `bsp_sync` can meet `bsp_end`.
* **Checkpoints.** Every process decides for itself, with shared counts, whether
  one is due; it must be taken when nothing moves.
* **Pinning.** Arithmetic on partitions, numberings and reserved cores.
* **Sieves.** Index arithmetic at block boundaries, offsets computed from counts
  received, loops whose number of supersteps every process decides for itself.
* **BSPedupack.** Puts to computed places, messages in any order, proposals that
  cross.

`PROJECT.json` lists every component with its status, and the hazards, each with its
line and the properties that would catch it.

## 2. Modules

`Barrier`, `BspMemory`, `FiniteMap` and `Lifo` are abstract: they say what a
component promises. The others are translated from the code. The `MC...` modules
give constants values for TLC, where the `.cfg` file alone cannot. `MCBarriers`,
`MCMessages`, `MCUtilities` and `MCPrimes` put components side by side that do
not interact - the two builds of the barrier, message passing and the programs
of BSPedupack, the parts of `mcutil.c`, the three sieves: each behaviour runs
one of them, and the others stay as initialised. `MCPedupackInputs` holds the
inputs of the programs of BSPedupack, `MCMatching` the graphs of the matching.

| Module | Models | Composed with |
|---|---|---|
| `Barrier` | the promise of a barrier: the k-th departure comes after everybody's k-th arrival | |
| `SpinBarrier` | `mcbsp_internal_spinlock`, `bsp_abort` | |
| `MutexBarrier` | `mcbsp_internal_sync`, `bsp_abort` | |
| `MCBarriers` | the barrier in either build, by the variable `spinlock` | composes the two, implements `Barrier` |
| `BarrierProofs` | the theorems about both builds | extends `MCBarriers` |
| `BspMemory` | registered memory as `bsp.h` describes it, with a synchronisation in one step | |
| `Drma` | remote memory access, and its part of `bsp_sync` | uses `Barrier`, implements `BspMemory` |
| `DrmaProofs` | its theorems | |
| `Bsmp` | message passing, and its part of `bsp_sync` | uses `Barrier` |
| `BsmpProofs` | its theorems | |
| `Registration` | registration, and its part of `bsp_sync` | uses `Barrier` |
| `RegistrationProofs` | its theorems | |
| `FiniteMap` | the promise of a map | |
| `AddressMap` | the array and its binary search | implements `FiniteMap` |
| `Lifo` | the promise of stacks | |
| `Stacks` | the address table and the stack of messages, in arrays that grow | implements `Lifo` |
| `Lifecycle` | runs from `bsp_init` to `bsp_end`, with the memory they allocate, use and free | extends `Checkpointing` |
| `LifecycleInvariant` | its inductive invariant | extends `Lifecycle` |
| `LifecycleProofs` | its theorems | |
| `Checkpointing` | when a checkpoint is due, and the settings | |
| `MachineInfo` | reading `machine.info` and the `mcbsp_set_*` functions | |
| `Pinning` | the placement of runs and nested runs | extends `MachineInfo` |
| `UtilitiesProofs` | the theorems about the address map, the stacks and the pinning | extends `MCUtilities` |
| `PrimeSieve` | what the sieves share: blocks, crossing off, counting, collecting | |
| `ParallelPrimes`, `IterativePrimes`, `SequentialPrimes` | the three programs | extend `PrimeSieve` |
| `MCPrimes` | one of the three programs per behaviour | composes the three |
| `PrimesProofs` | the theorems, about all three | extends `MCPrimes` |
| `Supersteps` | arrays, requests and a `bsp_sync` of one step, for BSPedupack | |
| `SampleSort`, `LUDecomposition`, `FastFourier`, `SparseMatVec`, `InnerProduct` | `bspsort`, `bsplu`, `bspfft`, `bspmv`, `bspinprod` and the puts of `bspbench`, with the parts of their test programs that matter to them | extend `Supersteps` |
| `HaloEdges` | numbering and coupling of edges before the matching (`bspmatch_test.c`) | extends `SparseMatVec`, whose input it shares |
| `Pedupack` | these programs, one per behaviour | extends them |
| `Matching` | `bspmatch`, `bspmatch.c` whole | |
| `MatchingProofs` | its theorems | |

The composition is by promise: `SpinBarrier` and `MutexBarrier` are proved to
implement `Barrier`, and `Drma`, `Bsmp` and `Registration` use `Barrier!Arrive`
and `Barrier!Cross` for the three barriers of `bsp_sync`; `Lifecycle` has the
same barrier with an abort. The programs use one step further: `bsp_sync` is a
single joint step there, which is what `Drma` is proved to look like for
buffered puts and gets (the only ones the programs use), and messages sent in a
superstep are there in the next, each once, which is what `Bsmp` is proved to do.
`Registration` uses the address map as a function, which is what `AddressMap`
is proved to implement, and its table and stacks as sequences, which is what
`Stacks` is proved to implement.

### How state and actions correspond to the code

**SpinBarrier.** `condition[s]` is the byte, `next[s]` the loop variable of the
scan, `pc[s]` whether the process is in user code, in the loop, or gone.
`Enter` is the increment; `LookOn` and `LookAgain` are one round of the scan
that accepts a byte or starts over; `Leave` and `LeaveAborted` are the return
with `mcbsp_internal_check_aborted`. `Abort` may come wherever a process is
outside a barrier, as in user code or in a failed checkpoint, `ExitAborted`
is what any other BSP call does then. `entered` and `crossed` are history: they
count barriers and are what `Barrier` is about. The byte wraps at `W`, 256 in C.
`sl_condition`, `sl_mid_condition` and `sl_end_condition` are used in turn but
each alone has the shape modelled: one process can be one barrier ahead.

**MutexBarrier.** What happens under the mutex is one step (`Wait`,
`LastArrives`); waking up is another (`Leave`), and so is the broadcast of
`bsp_abort` after it has set its flag (`Abort`, then `AbortBroadcast`).
`barriers`, chosen at the start, says which barriers the program's calls meet:
three in `bsp_sync`, four when a checkpoint is due, two in `mcbsp_checkpoint`,
each on its condition variable (`On`). User code calls `bsp_abort` after a call
(`Abort`), and process 0 before the last barrier of one when the checkpoint fails
(`CheckpointFails`). `assertions`, chosen too, tells builds without `NDEBUG`, in
which the assertion at `bsp.c:518` ends the program before anybody is woken
(`AssertFails`; the Makefile's debug library is one), from those with it.
Spurious wake-ups are left out (section 6).

**Drma.** `Phase(s)` follows from how many barriers `s` has crossed: user code;
`drain`, the high-performance requests before the first barrier; `get`, the
remote gets turned into puts before the second; `deliver`, before the third.
Every pop of a queue is a step, so processes interleave within a phase. Queues
are stacks, as in the code. `issued`, `performed` and `before` are history that
the refinement mapping needs: to `BspMemory` the synchronisation happens when
the last process arrives at the third barrier, so while puts are being written
the memory of the abstraction is the one `before`.

**Bsmp.** A queue is a sequence of bytes; a byte is known by the message and the
part it comes from, and a length takes one place. Taking a message off uses the
tag size current then, as in the code, and can thus split the stack wrongly.
`Move` is `bsp_move` and `bsp_hpmove`, which take off the same bytes. `fatal`
is `mcbsp_util_fatal`.

**Registration.** A variable's name stands for its address; `NullAt` says where
it is NULL. `SeekRemoval` and `SeekRegistration` are one round of the loops that
look for a process with another address than NULL, so requests can change under
them. `Deregister`, `Register`, `Forget` and `Remember` are one round of the four
loops over requests; `FreeNumber`, `KeepInMap`, `NewNumber` and `TakeNumber` are
their branches. User code's calls are one joint step: they touch only the
caller's own stacks and every process must make the same ones in the same order.
`Careful` restricts the program, see finding 2.

**AddressMap.** `entries` is both arrays. `Binsearch` is a call with the search's
look at both ends, `Halve` a round of its loop, `InsertEntry`, `RemoveEntry` and
`ReadEntry` what the three functions do with the index found, `CallOnEmpty` the
shortcut for an empty map. `cap` grows as in the code, from 16 or 0. Indices
count from 1.

**Stacks.** `table.rows[k][s]` is the stack of entries of a global number and a
process, in an array of `cap` rows; `bytes` is the array of the stack of
messages, in which a message lies below its header. `TableGrown`, `StackGrown`
and `VarGrown` are the functions that replace an array. A call is one step: it
runs with the table's mutex, or in a phase in which nobody sets.

**Lifecycle.** `heap` holds the structures a run has allocated: its init struct,
the barriers' arrays, and of every process the descriptor handed to
`pthread_create`, the thread data and the queues. `thread[t].pc` is where a
thread is, `init_data` and `thread_data` are its keys; `PthreadExit` is the key
destructors. `Spawn`, `StartMaster`, `InitializeThreadData`, `LinkThreadData` and
`BeginSibling` are the beginning of a run; `Sync`, `MismatchedEnd`, `Exchange`
and `Deliver` the parts of `bsp_sync` between its barriers; `End`, `Profile`,
`DestroyThreadData`, `Join` and `Finish` the parts of `bsp_end`. `Touches(t)`
names what the next step of a thread reads, writes or frees. Where the init
struct's `ended` is set and read decides between `MismatchedEnd` and `Exchange`.
`history` is what the properties remember. A process that aborts inside a nested
run does not come back to the runs around it, at any depth (`Around`): they are
`lost`, and who waits there at a barrier that is not open is `Stranded`.

**Checkpointing.** `LookForFailure` and `Due` are the decisions about safe mode
and about a checkpoint; `StartCheckpoint`, `CheckpointDone`, `CheckpointFails`
and `AwaitCheckpoint` of `Lifecycle` are the checkpoint. `Daemon` writes
`/etc/bsp_failure`.

**MachineInfo, Pinning.** A file is a sequence of lines, a line a key with
values. `ReadLine` is a round of the loop over the file, `EndOfFile` the
defaults after it, `Set` a call of a setting; `Begin` and `BeginNested` are the
placement of a run, `BeginFails` its fatal errors. A part is `[start, end,
stride]` as in `mcbsp_util_machine_partition`. `stray` is what lies behind an
array the code reads past.

**PrimeSieve and the three sieves.** `pc[s]` names the part of the program
between two calls of `bsp_sync`; `waiting` are the processes inside it.
`sieve[s]` is the set of global indices still marked in the block of `s`. `puts`
is the set of queued puts, by value. `Block`, `GetStart`, `CrossedOff`, `Offset`,
`UsableProcs` are the index arithmetic, term by term. Of the sequential program
one round of the outer loop is a step. Printing is left out, and so is
registration, which `Registration` models.

**Supersteps and the BSPedupack programs.** `mem[s]` holds the arrays of a
process by name; an array is a function on `0 .. length-1`, so an index outside
shows. One part of a program, from one `bsp_sync` to the next or a local part of
it, is one step, which queues `puts`, `gets` and `sends`; `Sync` carries them
out. Doubles are integers where programs only add and compare, and integers
modulo a prime where they divide (`LUDecomposition`, modulo 7) or take roots of
unity (`FastFourier`, modulo 17), so results are exact and an error in the order
or the place of an operation is visible. Between two `bsp_sync` no process sees
another, so they run one after the other.

**Matching.** An edge is the set of its two vertices. `Alive[s]`, `Adj[v]`,
`degree[v]`, `Splitter[v]`, `Suitor[v]`, `Pref[v]` and the queue are the arrays
of the code; messages are received in any order. One vertex popped is one step
(`GiveUp`, `Choose`), so is one message (`ReceiveProposal`, `ReceiveAcceptance`,
`ReceiveRejection`); `find_alive`, `find_splitter`, `find_pref`, `split_adj`,
`push` and `reject_suitor` are operators of the same names.

## 3. Runs

| Run | Instance | Question |
|---|---|---|
| `barriers` | 4 processes, aborts; spinning: bytes of 3 values, 4 barriers; with the mutex: 6 barriers, checkpoints that fail, with and without assertions | Does nobody leave early, is the byte test exact, does the counter count the waiters, on which conditions does an abort find them, is `Barrier` implemented? Does every wait end and every abort arrive, but for those whom the abort of a failed checkpoint leaves asleep, and do these sleep for ever? |
| `drma` | 2 processes, 2 variables, 2 writes or requests of any kind, 2 supersteps | Is `bsp_sync` one step to user code? Does it return? |
| `registration` | 2 processes, 4 variables (one NULL at one process, one NULL at all), 2 sizes, 4 calls, 3 supersteps | Do the processes agree on the numbers? Does the table rest while it is read? |
| `utilities` | map: 5 keys, 2 numbers, capacities 0 and 2; table: 2 numbers, 2 processes, 3 entries; messages of 0, 1 and 4 bytes; pinning: 21 files, every setting, up to 3 processes, and up to 3 in each of them | Do arrays answer as a map and as stacks? Does every search end? Has every process a hardware thread of its own? |
| `lifecycle` | 3 processes in one run with one setting or failure, or 2 with two, or two runs of 2, nested or not; up to 3 synchronisations | Is only live memory touched and all freed? Is a mismatch reported? Are checkpoints taken in time and at rest? Does the program end? |
| `primes` | every limit 2..100, up to 5 processes, three programs | Exactly the primes, in every interleaving? In step, and to an end? |
| `messages` | BSMP: 2 processes, 3 messages, tag sizes 0 and 2, 2 supersteps; programs: sorts of 3 to 11 elements, matrices of 3 to 5 rows on 4 grids, transforms of 2 to 16 elements, sparse matrices of 3 rows over 2 and 3 processes, graphs of 4 vertices over 2 and 3 | Do messages arrive once and intact, does the tag size rest while it is read, is disagreement fatal? Are the programs' requests safe, are their results right? |
| `matching` | the graphs of 4 vertices with 5 or 6 edges, weights 1 and 2; 4 complete graphs of 5 vertices; 3 processes, a limit of work of 0 (none) or 1 | Is the matching the greedy one, and known at both ends? Is nobody queued twice, does no suitor get worse, does it end? |
| `bsmp_resize` | 2 processes | *violation*: finding 1 |
| `registration_null` | 2 processes, 2 calls | *violation*: finding 2 |
| `pedupack_swaps` | `MCMessages` with the matrices only | *violation*: finding 3 |
| `pinning_reserved` | the machines of `utilities` | *violation*: finding 4 |

What the less obvious properties say:

* `CounterInv`: until an abort the counter counts the waiters; whoever aborts
  finds waiters only at the barrier it would come to next. From user code that is
  on the first condition, the one signalled (`UserAbortsWakeAll`); from a failed
  checkpoint on the last (`FailedCheckpointsWakeNobody`).
* `EveryWaitEnds`, `AbortReachesAll`: of everybody but those who sleep on the last
  condition while process 0 aborts a failed checkpoint, with the mutex and
  `NDEBUG` (`SleepsThrough`). `NobodyWakesSleepers`: the exception is for ever.
* `LifecycleInv`: what a thread's next step touches is allocated, and linked by
  all where it reads all; when an init struct is freed everything of its run is;
  the keys of a process back from a nested run are those it had.
* `MismatchIsReported`: a fatal mismatch means that processes did synchronise
  unequally often, and whoever gets through `bsp_end` did so equally often.
* `CheckpointsInv`: while a checkpoint is made everybody else is on the way to
  the barrier behind it; and process 0 is never in user code with more
  synchronisations behind it than the frequency in force allows, the ordinary
  one or in safe mode the safe one, or than the safe frequency allows once a
  failure shows, as long as the program leaves the settings alone in that run.
* `PinningInv`: processes of a run have hardware threads of their own that
  exist; scattered ones have cores of their own as long as there are; nested
  runs stay apart; one reserved core without hyperthreading stays free. Each
  part names the condition under which the code guarantees it. One is
  `StaysApart`: with wrapped numbers and several threads per core nobody may be
  shifted beyond the last core, or two processes can share a thread (section 5).
* `RequestsAreSafe`: no two puts or gets of a superstep write the same element,
  and none leaves its array.
* `ResultsAreRight`: the sort is global and leaves every process with at most
  `2n/p + p` elements; `LU` is the permuted matrix, unless a row was forgotten
  (finding 3); the transform is the discrete Fourier transform, and the weight
  table is as long as the test allocates; `u = Av`; coupled halo edges are the
  same edge; the sum of squares is the closed formula.
* `MatchingInv`: no vertex is queued twice (the queue is a ring as long as there
  are vertices), and edges at and above a splitter stay heavier than those below
  although edges move. `MatchingIsDominant`: at the end the edges registered are
  the greedy matching, known at both ends. `SuitorsOnlyImprove`: a suitor is
  replaced by a heavier one only, although an acceptance replaces without
  comparing.

### Why these bounds are enough

* Spin barrier: two processes can be at most one barrier apart, so a byte needs
  three values; with three values and four barriers each byte wraps. Four
  processes give one that is ahead, two that lag and one that scans them all. The
  theorems cover all `P`, `W` and numbers of barriers.
* Mutex barrier: six barriers use every condition variable twice, so that a
  process can come round to one that others are still waking up from. They are
  two calls of `bsp_sync`, one with a checkpoint due before or after
  `mcbsp_checkpoint`, or three of `mcbsp_checkpoint`. The theorems cover every
  such program.
* DRMA: every kind of request meets every other one and a write, in either
  order, at the same or different variables. A hazard between two requests
  needs two. Two supersteps let something be left over from the first.
* BSMP: three messages make a stack with messages below and above; two tag
  sizes and payload sizes make splitting wrongly visible.
* Registration: four calls are enough to register twice, deregister, and give
  the freed number to another variable; the third superstep sees what the
  second left behind.
* Address map: with five keys the search loop makes two rounds in both
  directions before it ends; a capacity of 2 grows twice. `MapInv` is proved for
  all sets of keys.
* Stacks: capacities of 1 grow twice; a message of 4 bytes is longer than the
  doubled stack.
* Pinning: the files have cores of one, two and three threads in both
  numberings, lists of reserved cores in any order, with duplicates and values
  that are no cores, and lists of pinnings that fit and that do not. Two have
  wrapped numbers, several threads per core and a reserved core, where a shift
  can leave the machine. `PinningInv` is proved for all machines.
* Life cycle: two threads meet in every order, a third can be late for both.
  Three synchronisations reach a checkpoint frequency of 1, 2 or 3 and a safe
  frequency of 2, larger or smaller than the ordinary one, and go on after it.
  Two runs nest or follow each other; three runs deep, which only the theorems
  reach, a process can leave several runs without coming back to them.
* Sieves: the limits that first admit 2, 3, 4 and 5 processes are 13, 31, 57 and
  91; all limits in between vary the last block's length through every case.
* BSPedupack: all vectors of few values give ties in every place; blocks of 2
  and 3 columns divide the matrices with and without a remainder; transforms
  need no, one, two and three redistributions; matrices have empty rows and
  columns, and parts. `MAXSEND`, `MAXH` and `SPLITMIN` are small, so that loops
  over batches have several rounds.
* Matching: all graphs of four vertices with at least five edges and weights 1
  and 2 have ties everywhere, so that edge numbers decide; five vertices and
  three processes make chains of proposals across processes. A limit of work per
  superstep of 1 makes every vertex wait in between.

### Fairness

Processes are threads; the operating system schedules every thread again and
again, which is weak fairness of each process' own steps (`MCBarriers`, `Drma`,
`Lifecycle`), of the programs' steps together
(`MCPrimes`, `Matching`) and of the running function in `MCUtilities`. A mutex
is held for a few instructions only and is free between any two steps, so weak
fairness of the step that takes it is enough. The call of a barrier is fair too:
a BSP program goes on calling BSP functions until it ends, whichever it chooses.
Nobody is obliged to call `bsp_abort`, no checkpoint has to fail, and nobody writes `/etc/bsp_failure`.

## 4. Proofs

Eight modules hold the theorems; `PROJECT.json` lists those a reader should know
of. Assumptions are those named in the modules: `P >= 1`; `W >= 3` (a byte has
256 values); keys are integers, `None` is neither a key's nor a variable's number,
capacities are naturals;
a NULL address is not a variable; limits are at least 2; frequencies and bounds
are naturals; graphs are finite, without loops, with naturals for weights, of
which only the order matters.
They are bounds on nothing: each theorem holds for every number of processes,
supersteps, requests and messages.

**The spin barrier (`BarrierProofs`).** That nobody leaves early is not
inductive: a process leaves when its scan is complete, so one must know that
whatever the scan has passed has arrived (`ScannedHaveArrived`), and it passes a
byte when the byte is its own or the next one, so one must know that equal bytes
mean equal counts. They do because no two processes are ever more than one
barrier apart, and within that window bytes and counts correspond
(`BytesFollowArrivals`). Put together with the types these facts are `SpinInv`,
and `SpinInvariant` proves it. From it follows `ExactByteTest`: the test on bytes
decides exactly whether another process has arrived.

**The mutex barrier (`BarrierProofs`).** The counter is reset by the last to
arrive, while the others still have to wake up and may wait in the next barrier,
on another condition variable. `CounterInvariant` proves `CounterInv`: until an
abort the counter is the number of processes at `wait`, all of them in the same
barrier. So a process that finds `P - 1` there is the last one, by the
cardinality of the waiters (`AllOthersWait`). Until an abort, too, a process
outside a barrier is one barrier behind the waiters (`WaitersAreOneAhead`), and
later nobody begins to wait and nobody comes out of a barrier
(`AbortersStayApart`), so that `AbortersSeeNextBarrier` stays true however many
abort. In every program of `bsp_sync` and `mcbsp_checkpoint` the barrier after
user code is on the first condition and the one after a checkpoint on the last
(`NextCondition`). Hence what `bsp.c:523` says of aborts holds of those in user
code, and the abort of a failed checkpoint wakes nobody (finding 5).

Both are proved over the variables of `MCBarriers`, which assumes the constants
of both: a behaviour is one of either build throughout. `SafeBarrier` says of both
that nobody leaves early, `Refinement` that both implement `Barrier` (`Enter`, or
`Wait` and `LastArrives`, is `Barrier!Arrive`, `Leave` is `Barrier!Cross`,
everything else a stutter), `TypeCorrect` that the variables have their types.
With the mutex, `SafeBarrier` is proved beside `CounterInv`, not from it, which
says nothing of the counter after an abort.

**Remote memory (`DrmaProofs`).** With the barriers in step (`TypeCorrect`) a
process' place in `bsp_sync` is known from its counts up to the barrier all have
passed (`Completed`, which exists as the process that lags most determines it).
That gives `MemoryRests`: while anybody answers gets, nobody is in user code or
delivers. `DrmaInv` itself is not inductive. `Kept`
adds where each request is until it is performed: every request made is in the
queue it belongs to, and what is in a queue was asked for (`RequestsAreKept`,
`PutsAreKept`); how far the owner of a queue has come with it, and that a cell
holds its old value, a value got or a value put accordingly
(`DeliveryOnItsWay`); and what the memory was before the delivery (`KeptMemory`).
`KeptAlways` and `Invariant` prove both. Each action is shown to leave alone
what other processes keep (`LeftAlone`). `Refinement` shows that `bsp_sync`
implements `BspMemory`, where all buffered communication of a superstep happens
in one step, gets before puts: it is the step of the process with which the
superstep is complete, and until then the memory seen is the one from before the
delivery (`SeenMemory`).

**Registration (`RegistrationProofs`).** A process reads the lists of the others
without a lock, counting on everybody to have made as many requests.
`RequestsInv` (`RequestsCorrect`) says that it may: until `bsp_sync` has read
them the lists of any two processes are equally long (`RequestsPairUp`), the
loops stay within them (`LoopsStayInBounds`), and the numbers suffice
(`NumbersSuffice`). `TableRests` follows, as the table is changed behind the first
barrier of `bsp_sync` and before its last one, and then nobody is in user code.

That the processes give variables the same numbers (`NumbersAgree`, for
`RegInv`) and that a variable resolves to its registrations (`VariablesResolve`,
for `RegistrationsResolve`) cannot be said of the processes pairwise: they work
through the requests at their own pace, drop requests as they go, and make
requests NULL that others may still look at. The inductive invariant
(`SuperstepInv`) instead says that there is one account `h` of the superstep in
progress: what was asked for, in which order, and the numbering, that is the
number of each variable, the freed numbers and the next one, after each
request. Every process is somewhere in it (`Somewhere`), and its counter, free
numbers, table column, map and stacks of requests are those the account gives
for that place. Where it looks for a process that has an address, it has passed
only processes that have none (`Seeking`). New numbers and registrations are
matched at the end of `bsp_sync` from their tops, which is right as the numbers
on the stack are those of the registrations that were not made NULL, in order
(`Matched`). When the last process passes the second barrier the numbering
after the removals is where the registrations start; when the last one enters
the third, a new account starts with the numbering reached. Both theorems have
the hypothesis `Careful \/ NullAt = {}`: the program registers a variable with
NULLs once and first in its superstep, or has none. Otherwise
`RegistrationsResolve` is false (finding 2).

**Message passing (`BsmpProofs`).** `SizesCorrect`, `SizesRest` and
`DisagreementEnds` are about the tag size alone: process 0 makes its own request
current before the second barrier, everybody compares it with theirs between the
second and the third, so that nobody gets past the third after a disagreement
(`SizesAreCompared`). For the messages the
invariant reads stacks of bytes as stacks of whole messages (`Stacked`): below
each end of a message is the end of another one, or the bottom. Pushing adds one
end and keeps the others, popping takes the last one, and the addresses that
`bsp_sync` finds by walking down the stack are those of all messages on it
(`RightlyFound`). What each place holds in each phase (`AllKept`) then sums up to
what was sent, once each. `MessagesCorrect` proves `MessagesInv` under the
hypothesis `ResizesWhileSending = FALSE`, without which it is false (finding 1).

**The life cycle (`LifecycleProofs`).** What `LifecycleInv` says of a thread's
next step depends on what all others of its run have done, in runs that nest and
that any process may abort. The inductive invariant `LifeIInv`
(`InvariantHolds`) has these parts:

* `Placed`: threads and runs refer to each other. Every process of a run is one
  thread, the runs a thread is inside of began each in the one before, and the
  keys are those of the innermost one.
* `Synchronised`: for a run that nobody has aborted there is an account
  (`Account`), a base that all processes have reached, and every process is in
  one of the places behind it (`Somewhere`): before the barrier of `bsp_begin`,
  between two calls, in `bsp_sync`, in `mcbsp_checkpoint`, or in `bsp_end`. No
  process has passed a barrier for which another has not announced itself (the
  gates), all agree on whether a checkpoint is due and, once somebody is past
  the first barrier of `bsp_end`, on `ended`. When the last process
  completes a call the base moves on. In an aborted run nobody is where it needs
  the others (`Aborted`).
* `HeapInv`: where a process is says what of it is allocated.
* `LinkedInv`: who is in the table of thread data, and whom process 0 has joined.
* `DataInv`: the counts of checkpoints are those of the synchronisations made,
  and outside `bsp_sync` none is due.

Most steps change one process' place in one run. For them the account is moved
as arithmetic on the views of the processes (`View`), without the threads, the
heap and the other runs, which are shown to be left alone. Only `bsp_begin`,
`bsp_end`, thread start and thread exit change who is where, and are proved part
by part. From the invariant follow `LifecycleHolds`, `MismatchHolds` (with the
fact that whoever accuses a run has seen another process with a different number
of synchronisations, `Accused`) and `CheckpointsHold`. On the way the proof
showed what small instances had not: three runs deep an abort strands the
processes of every run around it, and in safe mode the safe frequency replaces
the ordinary one even where that is the shorter.

**The sieves (`PrimesProofs`).** They are proved to deliver the primes, all of
them and in order, for every limit and every number of processes. The proofs
start from division with remainder and the existence of a prime divisor. Where
one would use induction they take a least counterexample: a non-empty set of
naturals has a least element (`LeastNumber`, from the library's well-foundedness
of `<`). The same gives the values of the sums that `MapThenSumSet` defines by
recursion over sets (`SumsAgree`, `SumOverStep`), and so that the places to
which processes write, offsets computed from others' counts, are the ranks of
the primes (`PlaceIsRank`). Hence no two puts write the same element.
The invariants (`ParallelInv`, `IterativeInv`) have one part per superstep, in
which some processes are where they were and the others wait at the barrier with
their part done (`Together`). In the loops the part says what the blocks lack:
the multiples of all primes below the sieving number, and nothing else. The next
number is searched for in the sieve of process 0 while multiples of larger
primes are still in it. That is right as every composite has a divisor below its
root (`NextPrimeIs`), and the search stays in the block as the program uses no
more processes than the limit admits (`SearchInBlock`). A behaviour of `MCPrimes`
is one of the three programs throughout (`OneSieveRuns`), so that its four
invariants are theorems too, for all limits and numbers of processes.

**The matching (`MatchingProofs`).** The theorems hold for all graphs, weights
with ties included, all distributions and all limits of work per superstep that
satisfy `InputsAssumption` of `Matching`; the run `matching` evaluates it for its graphs. The program keeps a vertex' edges in a list that is sorted only as far
as it was needed, drops dead edges by moving others about, and learns of other
processes' decisions a superstep late. So the proof separates the two. One half is
a protocol without lists, queues or messages: a state `x` of it has, per vertex,
preference, suitor, the edges left, and the proposals, acceptances and rejections
under way; `G` is the graph with edges by `Rank`, which makes one number of weight
and tie-breaking. Its invariant (`Protocol`) says among other things

* `NoneForgotten`: to each of its ends an edge is available, or preferred by it,
  or the edge is dead, that is lighter than the suitor at one end;
* `PrefersHeaviest`: what is left of a list is lighter than the preference;
* `SuitorsPropose` and `PreferencesArrive`: who is a suitor prefers the edge, and
  every preference is known at the other end or a message about it is on its way;
* `ProposalsHold`, `AcceptancesHold`, `RejectionsHold`: what a message says is
  still true when it arrives, although both ends have gone on in between. An
  accepted edge, for instance, is still preferred by both ends.

`Rejection`, `Resignation`, `Refusal`, `Winning`, `HaloChoice` and
`InternalChoice` are the steps of this protocol; each is shown to keep `Protocol`
and never to worsen a suitor (`Improves`), which fails without the facts about
messages, as neither an acceptance nor an internal edge is compared with the
suitor it replaces. The other half is about the program: `ListIs` (splitters
split, and the list has each edge once), with what `find_alive`, `find_splitter`,
`find_pref` and `split_adj` do to it. Folds over sequences are characterised by
their steps (`IsFold`) and least counterexamples, as the model's loops are
folds. The inductive invariant `IInv` (`InductiveInvariant`) joins the two: the
lists, queues, mailboxes and registered matches are those of one picture `X` of
the protocol, and every action of the program is one of its steps or none.
From it follow `MatchingInvHolds`, `SuitorsNeverWorsen` and `MatchingDominates`.
The last: when all have stopped nothing is queued or under way, so every
preference is a suitor's and mutual (`AllMutual`: otherwise take the heaviest that
is not), and an edge forgotten by neither end would still be preferred. That the
program does stop remains with TLC.

**The address map (`UtilitiesProofs`).** The array is *not* sorted: a key larger
than all others is inserted before the last entry, because the search never ends
at the last index (`mcutil.c:892`). So the usual argument for binary search
fails. The invariant that carries the proof is that all entries but the last
ascend (`AllButLastAscend`) and no key occurs twice. The last key is compared
before the loop starts, so that inside the loop (`LoopInv`) the key is known not
to be at either end, and at its end (`FoundInv`) the index found splits the
ascending part at the key. Inserting there keeps the array ascending but for the
last entry, whether the key is above the last entry or not; removing keeps it
too. `MapInvariant` proves this (`MapInv`), and `MapRefinement` that the array
implements `FiniteMap`, whose map sends a key to the number stored under it:
every lookup is right although the array is not sorted.

**Pinning (`UtilitiesProofs`).** `PinningHolds` proves `PinningInv` for all files,
settings, machines and numbers of processes and for anything that may lie behind
the list of reserved cores. Its assumptions (`PinAssumption`) are about the input:
values that parse are natural numbers, and `threads_per_core` is positive, as
`mcbsp-affinity.h:126` demands. The inductive invariant (`PinIInv`) says that the
outer run is the one pinned by the information of process 0, which checking again
would leave as it is, and each nested run the one pinned by what its process
knows, in the part that process was given. That a second check changes nothing
(`CheckedTwice`) is not obvious: the first may have sorted by counting, which
drops duplicates, and the second sort by comparison. The rest is about one run:

* the starts of parts differ. Scattered starts are quotients `s * M \div P`, which
  grow by at least `M \div P` (`ScatterGrows`); a compact nested part keeps the
  remainder modulo `P` of the part it is in (`SiblingsApart`);
* `Filtered` is strictly monotone (`FilteredGrows`). The halving search ends at the
  key or before the first larger element (`SearchSplits`), although it looks one
  element behind the list, if what lies there is larger than every core; hence a
  larger core is never shifted by less (`LaterKey`);
* `Translated` is injective on the threads of the machine (`TranslatedApart`),
  and outside of them it is not. Here the proof failed at first, and TLC found the
  machines on which two processes share a thread.

Recursion is met as before: the function by which `LowerBound` is defined exists as
every range is halved into a shorter one (`SearchExists`), and a sorted
arrangement of a list exists by the least counterexample (`Arrangement`).

**The stacks (`UtilitiesProofs`).** `StacksAreLifos` proves `ImplementsLifos` for
any initial capacity but 0, which the code asserts, and any numbers, processes,
entries and sizes of messages (`StackAssumption`). The capacity is doubled by a
recursive function of which no bound is known beforehand; it exists because
one that is right for all capacities at most `w` below the target can be made right
for `w + 1` (`DoublesFurther`, `DoublesFromAny`). The
invariant says that every array of the table has `cap` places of which `top` are
in use (`IsTable`), and that below every place in the stack of bytes where a message
ends lie its size, all its bytes, and the end of another message or the bottom
(`IsFramed`). Only what is below `top` is seen of an array (`BelowAgrees`), so that
replacing it changes nothing.

Only model-checked:

* all liveness properties: fairness is beyond the prover;
* that nothing wakes those who sleep through a failed checkpoint (`NobodyWakesSleepers`);
* what the BSPedupack programs other than the matching compute. `SampleSort`, `SparseMatVec` and
  `LUDecomposition` define it by `RECURSIVE` operators, which the prover cannot
  use.

## 5. Findings

The first four are each shown by a run that violates what the repository says,
the last by properties that state what happens.

1. `bsp.c:660`: a new tag size is made current before the messages of the
   ending superstep are delivered, and they are split with the wrong size.
2. `bsp.c:1058`: registering a variable that is NULL at some process after
   another variable of the same superstep gives the earlier variable a wrong
   number at that process. The run `registration` shows what is safe: such a
   variable is registered once, and before all others of its superstep
   (`Careful`).
3. `bsplu_test.c:72`: in LU decomposition with blocks, a row that an earlier
   stage of a block swaps but its own stage does not is left out of the
   permutation of the columns outside the block. Every input on which this
   happens to no row is decomposed correctly (`ResultsAreRight`).
4. `mcutil.c:1137`: with two or more reserved cores, or with several threads per
   core, processes can be placed on reserved cores or on hardware threads that
   do not exist. `PinningInv` shows what does hold, and `PinningHolds` that it
   holds on every machine.
5. `bsp.c:527`: `bsp_abort` wakes those who wait on the first condition variable
   only, "as aborts cannot occur within bsp_begin or bsp_sync" (`bsp.c:523`). With
   mutexes, `NDEBUG` and DMTCP, a checkpoint that fails is aborted by process 0
   within `bsp_sync` (`bsp.c:1028`) or `mcbsp_checkpoint` (`mcbsp.c:233`), while
   others may wait on the last one: they sleep for ever and the program does not
   end (`NobodyWakesSleepers`), although "Other threads stop at the next bsp_sync
   or bsp_end at latest" (`bsp.h:684`). That they wait nowhere else, and that aborts
   of user code wake all, is `CounterInv`.

Met while modelling, without a run of their own:

* `parallel_primes_iterative.c:137`: the program does not call `bsp_end`, so
  process 0 can end the program while the others still run. The model does so
  too: processes end as `returned` or `killed`.
* `mcutil.c:892`: the address map's array is not sorted, though
  `tests/util.c:128` tests for ascending keys, with an insertion order that hides
  it. Lookups are right, as proved.
* `bsp.c:527`: an abort inside a nested run ends its threads and tells the run
  around it nothing; the processes left there wait for ever (`Stranded`).
* `mcbsp.c:326`: setting the safe checkpoint frequency to 0 while in safe mode
  ends checkpointing for good.
* `mcbsp.c:276`: settings reach the machine information of the calling thread
  only, so nested runs of other processes do not see them.
* `mcutil.c:1161`: on a machine with wrapped numbers and several threads per core,
  processes that are shifted beyond the last core because of a reserved one are
  translated to threads of other cores. Two processes can get the same hardware
  thread although there are as many threads as processes: with 3 cores of 2
  threads, core 2 reserved and 4 scattered processes, which is what `bsp_nprocs`
  returns, processes 1 and 3 are both on thread 3. The code warns of shared
  threads only when there are more processes than threads (`mcutil.c:1066`).
* `mcutil.c:495`: the pinning list is read as far as there are processes,
  whatever its length.
* `bspfft.c:195`: with one element per process the cycle of a redistribution
  does not grow and the loop does not end; the runs have two or more.
* `bsp.c:1275`: `bsp_get` and `bsp_direct_get` do not check, as `bsp_put` does,
  that the variable is not NULL at the process they read from.

## 6. Limits

* Memory is sequentially consistent. The spin barrier's bytes are plain, not
  atomic; what a compiler or a weakly ordered processor may make of them is not
  modelled, nor are the cache-flush calls for machines without coherence.
* `pthread_cond_wait` is assumed to return only when signalled. POSIX also allows
  it to return spuriously, and `mcbsp.c:596` calls it without a loop, so nothing
  that is checked of the mutex barrier would hold then.
* `MutexBarrier` has the barriers of `bsp_sync` and `mcbsp_checkpoint`, not those
  of `bsp_begin` and `bsp_end`, which all wait on the first condition.
* Calls with invalid arguments, which abort, are not made; allocations and
  thread creations succeed. Matrix files are right: the matrix is square and its index
  complete, and the aborts at `bspsparse_input.c:107` and `bspmv_test.c:112` are
  left out, as is that of a sort that finds its own result unsorted
  (`bspsort_test.c:186`). In LU decomposition, the registration of NULL by a
  process that has no rows (`bsplu.c:137`) is left out.
* `parallel_primes.c:245` frees `timings`, an array on the stack, once all runs
  are timed, which is undefined behaviour; the timing loop around the sieve is
  not modelled.
* Within `Registration`, one lookup in a map or table is one step. A map is
  read by others only between barriers where nobody writes it, and in the table
  a process changes only its own column (growth is under the table's mutex).
* The performance build's switches are assumed (`MCBSP_ALLOW_MULTIPLE_REGS`,
  real high-performance primitives, `NDEBUG`), except in `MutexBarrier`, which has
  builds with and without `NDEBUG`. So in `SpinBarrier` and `Lifecycle` an abort
  ends threads one by one, where an assertion would end the program at once.
  `Lifecycle` has builds with and without high-performance directives, and has
  checkpointing; its waits see an abort, as spinning does.
* Integers are unbounded except the bytes of the spin barrier and the words of
  the machine information. Overflow of `int` in the sieves needs arrays far
  beyond a thread's stack.
* Floating-point numbers are replaced by exact ones: the numerical error of LU
  decomposition and Fourier transform is not modelled, and neither is the
  rounding by which `mcutil.c:1079` makes some starts one lower on machines of
  30 hardware threads or more.
* Text is not modelled: files are sequences of numbers and keys, and the matrix
  files' headers are records.

## 7. Not modelled

* Profiling, `bsp_time` and what `bsp_end` prints of them (`bsp.c:344-379` reads
  all thread data, which `Lifecycle` has; the numbers decide nothing).
* The C++ wrapper, which forwards to the C functions; `bsp.h`, `mcutil.h`,
  `mcbsp.h`, `mcbsp-affinity.h` and the copies under `include/` are declarations
  and comments, and the code they declare is modelled where it is defined.
* DMTCP, the operating system's threads and affinity calls: external, one step
  each where something depends on them.
* The computing rates and the fit of `bspbench`, the timing loops of the sieves
  and of the BSPedupack tests: clocks and floating point only.
* Demonstrations, benchmarks, tools, the library's own tests and examples.

## 8. What is left

The composition of `Lifecycle` with `SpinBarrier` instead of its promise.
