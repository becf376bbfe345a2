---- MODULE FiniteMap ----
(***************************************************************************)
(* What a map from addresses to global numbers promises: the first         *)
(* insertion under a key counts until the key is removed, and a lookup     *)
(* answers with the number inserted, or None (SIZE_MAX) for an unused key. *)
(***************************************************************************)
CONSTANTS Keys, Numbers, None

VARIABLES
  map,              \* the number under each key, None if there is none
  answer            \* what the last lookup returned

Init ==
  /\ map = [k \in Keys |-> None]
  /\ answer = None

Insert(k, v) ==
  /\ map' = IF map[k] = None THEN [map EXCEPT ![k] = v] ELSE map
  /\ UNCHANGED answer

Remove(k) ==
  /\ map' = [map EXCEPT ![k] = None]
  /\ UNCHANGED answer

Get(k) ==
  /\ answer' = map[k]
  /\ UNCHANGED map

Next == \E k \in Keys : Remove(k) \/ Get(k) \/ \E v \in Numbers : Insert(k, v)

Spec == Init /\ [][Next]_<<map, answer>>
====
