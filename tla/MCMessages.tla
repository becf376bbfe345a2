---- MODULE MCMessages ----
(* Message passing and the programs of BSPedupack, written against it, for *)
(* TLC: in each behaviour the exchange of messages as bsp.c does it, or    *)
(* one of the programs on one of its inputs.  What does not run stays as   *)
(* it is initialised.                                                      *)
EXTENDS Bsmp, MCPedupackInputs

CONSTANT Inputs     \* of the programs

VARIABLES input, pc, waiting, mem, puts, gets, sends, inbox

programVars == <<input, pc, waiting, mem, puts, gets, sends, inbox>>

Programs == INSTANCE Pedupack

MCVars == <<vars, programVars>>

IdleProgram ==
  /\ input = [program |-> "bsmp", P |-> 0]
  /\ pc = <<>> /\ waiting = {} /\ mem = <<>>
  /\ puts = {} /\ gets = {} /\ sends = {} /\ inbox = <<>>

MCInit == Init /\ (IdleProgram \/ Programs!Init)

MCNext ==
  \/ input.program = "bsmp" /\ Next /\ UNCHANGED programVars
  \/ input.program # "bsmp" /\ Programs!Next /\ UNCHANGED vars

MCSpec == MCInit /\ [][MCNext]_MCVars
----
(* No put or get of a program races with another or leaves its array.      *)
RequestsAreSafe == Programs!RequestsAreSafe

(* What each program computes, as its module states it.                    *)
ResultsAreRight ==
  /\ Programs!SortsGlobally /\ Programs!FactorsUnlessForgotten /\ Programs!TransformsVector
  /\ Programs!MultipliesMatrix /\ Programs!HalvesAreCoupled /\ Programs!SumsSquares

(* As bsplu_test.c:5 has it: the factors bsplu computes are those of the   *)
(* matrix, rows permuted.                                                  *)
FactorsMatrix == Programs!FactorsMatrix
====
