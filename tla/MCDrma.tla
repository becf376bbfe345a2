---- MODULE MCDrma ----
(* Drma for TLC: every variable of every process starts with a value of    *)
(* its own, so that a misdirected copy shows.                              *)
EXTENDS Drma

MCCells == {"x", "y"}
MCStart == [s \in Procs |-> [c \in Cells |-> <<s, c>>]]
MCValues == (Procs \X Cells) \cup {<<0, "new">>}
MCWritten == {<<0, "new">>}
MCAll == {"write", "put", "get", "hpput", "hpget", "direct_get"}
====
