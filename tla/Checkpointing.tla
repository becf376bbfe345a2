---- MODULE Checkpointing ----
(***************************************************************************)
(* What the checkpointing of MulticoreBSP for C (MCBSP_WITH_DMTCP) keeps in*)
(* a run's init struct and in a thread's machine information, and how its  *)
(* primitives change it (mcbsp.c:250-373 and 752-827).  Lifecycle composes *)
(* it with the supersteps and barriers it relies on.                       *)
(*                                                                         *)
(* An init struct i has the fields cp_f, safe_cp_f (the frequencies, in    *)
(* supersteps; 0 means never), no_cp (switched off by the user), safe_cp   *)
(* (hardware failure is imminent) and skipped_checkpoints.  Machine        *)
(* information has cp_f, safe_cp_f and SCFset.                             *)
(***************************************************************************)
EXTENDS Naturals
----
(* Faulty variants of the definitions that follow.                         *)

(* Off by one.                                                             *)
DueLate(i) == ~ i.no_cp /\ i.skipped_checkpoints > IF i.safe_cp THEN i.safe_cp_f ELSE i.cp_f

(* The file is looked for only when a checkpoint is made.                  *)
LookForFailureSeldom(i, failing) ==
  IF i.safe_cp_f > 0 /\ i.skipped_checkpoints = i.cp_f THEN [i EXCEPT !.safe_cp = failing] ELSE i
----
(* /etc/bsp_failure is looked for whenever the number of skipped           *)
(* checkpoints is a multiple of the safe frequency.                        *)
LookForFailure(i, failing) ==
  IF i.safe_cp_f > 0 /\ i.skipped_checkpoints % i.safe_cp_f = 0
    THEN [i EXCEPT !.safe_cp = failing]
    ELSE i

(* Process 0 does this on entry of every bsp_sync.                         *)
UpdateCheckpointStats(i, failing) ==
  LookForFailure(IF i.no_cp THEN i ELSE [i EXCEPT !.skipped_checkpoints = @ + 1], failing)

CpFrequency(i) == IF i.safe_cp THEN i.safe_cp_f ELSE i.cp_f

(* An automatic checkpoint is to be made in this bsp_sync.                 *)
Due(i) ==
  /\ ~ i.no_cp
  /\ CpFrequency(i) > 0
  /\ i.skipped_checkpoints >= CpFrequency(i)

EnableCheckpoints(i)  == [i EXCEPT !.no_cp = FALSE]
DisableCheckpoints(i) == [i EXCEPT !.no_cp = TRUE]

(* mcbsp_set_checkpoint_frequency sets the safe one along until somebody   *)
(* has set that explicitly: in the machine information of the calling      *)
(* thread, and in the init struct that concerns it.                        *)
FrequencyInMachine(machine, f) ==
  [machine EXCEPT !.cp_f = f, !.safe_cp_f = IF machine.SCFset THEN @ ELSE f]

FrequencyInInit(i, machine, f) ==
  [i EXCEPT !.cp_f = f, !.safe_cp_f = IF machine.SCFset THEN @ ELSE f]

SafeFrequencyInMachine(machine, f) == [machine EXCEPT !.safe_cp_f = f, !.SCFset = TRUE]

SafeFrequencyInInit(i, f) == [i EXCEPT !.safe_cp_f = f]
====
