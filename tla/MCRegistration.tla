---- MODULE MCRegistration ----
(* Registration for TLC.                                                   *)
EXTENDS Registration

(* Two plain variables, one that a process has no memory for, and one that *)
(* no process has memory for.                                              *)
MCVariables == {"x", "y", "n", "z"}
MCNullAt == {<<"n", 0>>, <<"z", 0>>, <<"z", 1>>}
MCSizes == {1, 2}

(* A plain variable and one that a process has no memory for.              *)
MCTwoVariables == {"x", "n"}
MCOneNull == {<<"n", 1>>}
MCOneSize == {1}
====
