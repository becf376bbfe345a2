---- MODULE MCLifecycle ----
(* Lifecycle for TLC: a long first run in which checkpoints come due, and  *)
(* a short second one, after it or inside it.                              *)
EXTENDS Lifecycle

MCMaxSyncs == <<3, 1>>
MCManualAt == <<{1}, {}>>
MCBounds == {[processes |-> 3, runs |-> 1, settings |-> 1],
             [processes |-> 2, runs |-> 1, settings |-> 2],
             [processes |-> 2, runs |-> 2, settings |-> 0]}
MCMachineFiles == {[cp_f |-> 0, safe_cp_f |-> 0, SCFset |-> FALSE],
                   [cp_f |-> 1, safe_cp_f |-> 2, SCFset |-> TRUE],
                   [cp_f |-> 3, safe_cp_f |-> 2, SCFset |-> TRUE]}
====
