---- MODULE MCUtilities ----
(* The utilities of mcutil.c for TLC, one component in each behaviour: the *)
(* address map, the address table, a stack of messages, or the pinning.  A *)
(* component that does not run stays as it is initialised.                 *)
EXTENDS AddressMap

CONSTANTS
  Globals, Procs, Entries, Messages, InitialCap, EntrySize, MaxHeight,
  Files, Calls, MaxCalls, HardwareThreads, Word, MaxP, Strays

VARIABLES
  component,
  table, bytes, found, moved,
  file, known, machine, fresh, calls, stage, debug, stray, run, nested

stackVars == <<table, bytes, found, moved>>
pinVars == <<file, known, machine, fresh, calls, stage, debug, stray, run, nested>>
allVars == <<vars, component, stackVars, pinVars>>

(* Addresses in small numbers, both initial capacities of a map, scaled.   *)
MCKeys == 1 .. 5
MCNumbers == {10, 20}
MCCapacities == {0, 2}

(* Tables that grow twice, and messages longer than a doubled stack.       *)
MCMessages == {[id |-> "a", size |-> 0], [id |-> "b", size |-> 1], [id |-> "c", size |-> 4]}

S == INSTANCE Stacks WITH answer <- found

Bad == -1

Line(key, values) == [key |-> key, values |-> values]

(* A machine without a file, machines of cores with several threads in both*)
(* numberings, pinning lists that fit and that do not, reserved cores in   *)
(* any number and order, values that are not understood, and machines too  *)
(* small for what is reserved.                                             *)
MCFiles ==
  {<<>>,
   <<Line("cores", <<4>>), Line("threads_per_core", <<2>>)>>,
   <<Line("threads_per_core", <<2>>), Line("thread_numbering", <<"wrapped">>)>>,
   <<Line("cores", <<3>>), Line("threads_per_core", <<3>>), Line("affinity", <<"compact">>),
     Line("thread_numbering", <<"wrapped">>)>>,
   <<Line("cores", <<8>>), Line("affinity", <<"compact">>)>>,
   <<Line("cores", <<9>>), Line("unused_threads_per_core", <<0>>)>>,
   <<Line("threads", <<3>>), Line("affinity", <<"manual">>), Line("pinning", <<3, 1, 2>>)>>,
   <<Line("affinity", <<"manual">>), Line("pinning", <<3, 1, 2>>), Line("threads", <<2>>)>>,
   <<Line("threads", <<2>>), Line("affinity", <<"manual">>), Line("pinning", <<1, Bad>>)>>,
   <<Line("affinity", <<"manual">>)>>,
   <<Line("affinity", <<"spread">>), Line("cores", <<Bad>>), Line("colour", <<1>>),
     Line("checkpoint_frequency", <<3>>), Line("safe_checkpoint_frequency", <<Bad>>),
     Line("threads", <<>>)>>,
   <<Line("cores", <<4>>), Line("reserved_cores", <<2>>)>>,
   <<Line("cores", <<5>>), Line("reserved_cores", <<3, 1>>)>>,
   <<Line("cores", <<4>>), Line("threads_per_core", <<2>>), Line("reserved_cores", <<0>>)>>,
   <<Line("cores", <<6>>), Line("reserved_cores", <<1, 4, 1, 2>>)>>,
   <<Line("cores", <<7>>), Line("reserved_cores", <<6, 0, 2>>), Line("affinity", <<"compact">>)>>,
   <<Line("cores", <<3>>), Line("reserved_cores", <<1, Bad>>)>>,
   <<Line("cores", <<2>>), Line("reserved_cores", <<2>>)>>,
   <<Line("cores", <<2>>), Line("threads_per_core", <<2>>), Line("thread_numbering", <<"wrapped">>),
     Line("reserved_cores", <<1>>)>>,
   <<Line("cores", <<3>>), Line("threads_per_core", <<2>>), Line("thread_numbering", <<"wrapped">>),
     Line("reserved_cores", <<0>>), Line("affinity", <<"compact">>)>>,
   <<Line("cores", <<1>>), Line("reserved_cores", <<0>>)>>}
MCCalls ==
  {Line("affinity", <<"compact">>), Line("affinity", <<"scatter">>), Line("pinning", <<2, 0, 1>>),
   Line("reserved_cores", <<1, 0>>), Line("cores", <<5>>), Line("threads_per_core", <<2>>),
   Line("threads", <<3>>)}

Pin == INSTANCE Pinning

ASSUME StackAssumption == S!InputsAssumption

ASSUME PinAssumption == Pin!InputsAssumption /\ MaxP \in Nat /\ Strays \subseteq Nat

MCInit ==
  /\ component \in {"map", "table", "messages", "pinning"}
  /\ Init /\ S!Init /\ Pin!Init
  /\ component # "map" =>
       cap = (CHOOSE c \in Capacities : TRUE) /\ call = CHOOSE c \in Call : TRUE
  /\ component # "pinning" =>
       file = (CHOOSE f \in Files : TRUE) /\ stray = (CHOOSE x \in Strays : TRUE) /\ debug

MCNext ==
  /\ UNCHANGED component
  /\ \/ component = "map" /\ Next /\ UNCHANGED <<stackVars, pinVars>>
     \/ component = "table" /\ S!TableNext /\ UNCHANGED <<vars, pinVars>>
     \/ component = "messages" /\ S!MessageNext /\ UNCHANGED <<vars, pinVars>>
     \/ component = "pinning" /\ Pin!Next /\ UNCHANGED <<vars, stackVars>>

(* A function of the map that was called runs on.                          *)
MCSpec ==
  MCInit /\ [][MCNext]_allVars /\ WF_vars(Halve \/ InsertEntry \/ RemoveEntry \/ ReadEntry)

PinningInv == Pin!PinningInv

ReservedCoresStayFree == Pin!ReservedCoresStayFree

ImplementsLifos == S!ImplementsLifos
====
