---- MODULE MachineInfo ----
(***************************************************************************)
(* The machine information of MulticoreBSP for C: the file machine.info,   *)
(* read line by line when a thread first needs it (mcutil.c), and the      *)
(* mcbsp_set_* functions that change what the calling thread knows         *)
(* (mcbsp.c).  The information belongs to a thread: the processes a run    *)
(* spawns read the file for themselves and miss the calls of the main      *)
(* thread, which is process 0.                                             *)
(*                                                                         *)
(* A line is a key with a sequence of values; Bad is a number that does    *)
(* not parse.  Integers have Word values.                                  *)
(***************************************************************************)
EXTENDS Integers, Sequences

CONSTANTS
  Files,            \* the contents of machine.info, sequences of lines
  Calls,            \* the calls of mcbsp_set_*, also lines
  MaxCalls,         \* bound: how many of them the program makes
  HardwareThreads,  \* what mcbsp_util_detect_hardware_threads returns
  Word              \* number of values of a size_t

Bad == -1

VARIABLES
  file,             \* the lines not yet read
  known,            \* the keys Cset and Tset of createMachineInfo stand for
  machine,          \* the information of the main thread
  fresh,            \* that of a thread which called no mcbsp_set_* function
  calls,            \* how many of these were called
  stage             \* "reading", "ready", "running" or "fatal"

infoVars == <<file, known, machine, fresh, calls>>

Affinities == {"scatter", "compact", "manual"}

Numberings == {"consecutive", "wrapped"}

Defaults ==
  [cores |-> 0, threads |-> 0, threads_per_core |-> 1, unused_threads_per_core |-> 0,
   checkpoint_frequency |-> 0, safe_checkpoint_frequency |-> 0,
   thread_numbering |-> "consecutive", affinity |-> "scatter",
   pinning |-> <<>>, reserved_cores |-> <<>>]

InitInfo ==
  /\ file \in Files
  /\ known = {}
  /\ machine = Defaults
  /\ fresh = Defaults
  /\ calls = 0
  /\ stage = "reading"

(* The lines of the files, and what a line may hold: numbers, or values    *)
(* that do not parse; "threads_per_core should be a positive integer"      *)
(* (mcbsp-affinity.h:126), otherwise the code divides by zero.             *)
Lines == UNION {{f[k] : k \in 1 .. Len(f)} : f \in Files}

ProperLine(line) ==
  /\ line.key = "cores" /\ line.values # <<>> => line.values[1] \in Nat \cup {Bad}
  /\ line.key = "threads_per_core" /\ line.values # <<>> => line.values[1] # 0
  /\ line.key = "reserved_cores" => line.values \in Seq(Nat \cup {Bad})

ProperCall(call) ==
  /\ call.key = "cores" => call.values[1] \in Nat
  /\ call.key = "threads_per_core" => call.values[1] \in Nat \ {0}
  /\ call.key = "reserved_cores" => call.values \in Seq(Nat)

InputsAssumption ==
  /\ \A f \in Files : f \in Seq(Lines)
  /\ \A line \in Lines : ProperLine(line)
  /\ \A call \in Calls : ProperCall(call)
  /\ HardwareThreads \in Nat
----
(* Keys without a constant default keep what they had.                     *)
ReadNumber(line) ==
  /\ line.key \in {"cores", "threads"}
  /\ IF line.values[1] = Bad
       THEN UNCHANGED <<machine, known>>
       ELSE /\ machine' = [machine EXCEPT ![line.key] = line.values[1]]
            /\ known' = known \cup {line.key}

Understood(line) ==
  line.values[1] \in CASE line.key = "affinity" -> Affinities
                       [] line.key = "thread_numbering" -> Numberings
                       [] OTHER -> Nat

(* All others fall back when the value is not understood.                  *)
ReadSetting(line) ==
  /\ line.key \in {"threads_per_core", "unused_threads_per_core", "checkpoint_frequency",
                   "safe_checkpoint_frequency", "thread_numbering", "affinity"}
  /\ machine' = [machine EXCEPT ![line.key] =
       IF Understood(line) THEN line.values[1]
       ELSE IF line.key = "safe_checkpoint_frequency" THEN machine.checkpoint_frequency
       ELSE Defaults[line.key]]
  /\ UNCHANGED known

(* The list must be as long as there are threads, as far as is known yet.  *)
ReadPinning(line) ==
  LET threads == IF "threads" \in known THEN machine.threads ELSE HardwareThreads
      success == /\ Len(line.values) >= threads
                 /\ \A k \in 1 .. Len(line.values) : line.values[k] # Bad
  IN /\ line.key = "pinning"
     /\ machine' = [machine EXCEPT
          !.threads = threads,
          !.pinning = IF success THEN SubSeq(line.values, 1, threads) ELSE <<>>,
          !.affinity = IF ~ success /\ @ = "manual" THEN Defaults.affinity ELSE @]
     /\ known' = known \cup {"threads"}

ReadReserved(line) ==
  /\ line.key = "reserved_cores"
  /\ machine' = [machine EXCEPT !.reserved_cores =
       IF \E k \in 1 .. Len(line.values) : line.values[k] = Bad THEN <<>> ELSE line.values]
  /\ UNCHANGED known

(* A key without a value, and a key nobody knows, only cause a warning.    *)
Ignored(line) ==
  /\ line.values = <<>> \/ line.key \notin DOMAIN Defaults
  /\ UNCHANGED <<machine, known>>

ReadLine ==
  /\ stage = "reading"
  /\ file # <<>>
  /\ LET line == Head(file)
     IN \/ Ignored(line)
        \/ /\ line.values # <<>>
           /\ ReadNumber(line) \/ ReadSetting(line) \/ ReadPinning(line) \/ ReadReserved(line)
  /\ file' = Tail(file)
  /\ UNCHANGED <<fresh, calls, stage>>

Cores ==
  IF "cores" \in known THEN machine.cores
  ELSE (HardwareThreads + machine.threads_per_core - 1) \div machine.threads_per_core

Threads ==
  IF "threads" \in known THEN machine.threads
  ELSE ((Cores - Len(machine.reserved_cores))
         * (machine.threads_per_core - machine.unused_threads_per_core)) % Word

(* The end of the file: what is not known is derived from the rest.        *)
EndOfFile ==
  /\ stage = "reading"
  /\ file = <<>>
  /\ machine' = [machine EXCEPT !.cores = Cores, !.threads = Threads]
  /\ fresh' = machine'
  /\ stage' = "ready"
  /\ UNCHANGED <<file, known, calls>>

(* mcbsp_set_pinning also sets the number of threads and the affinity.     *)
SetPinning(call) ==
  /\ call.key = "pinning"
  /\ machine' = [machine EXCEPT !.threads = Len(call.values), !.pinning = call.values,
                                !.affinity = "manual"]

SetReserved(call) ==
  /\ call.key = "reserved_cores"
  /\ machine' = [machine EXCEPT !.reserved_cores = call.values]

(* The others: mcbsp_set_maximum_threads, mcbsp_set_affinity_mode, ...     *)
SetField(call) ==
  /\ call.key \notin {"pinning", "reserved_cores"}
  /\ machine' = [machine EXCEPT ![call.key] = call.values[1]]

Set ==
  /\ stage = "ready"
  /\ calls < MaxCalls
  /\ \E call \in Calls : SetPinning(call) \/ SetReserved(call) \/ SetField(call)
  /\ calls' = calls + 1
  /\ UNCHANGED <<file, known, fresh, stage>>

(* bsp_nprocs outside of an SPMD part.                                     *)
Nprocs == IF Len(machine.reserved_cores) >= machine.cores THEN 0 ELSE machine.threads
====
