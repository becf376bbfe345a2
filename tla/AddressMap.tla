---- MODULE AddressMap ----
(***************************************************************************)
(* The map from local addresses to global numbers (mcutil.c,               *)
(* struct mcbsp_util_address_map): an array of entries, searched by        *)
(* halving, into which an entry is inserted where the search ends.  One    *)
(* step is one round of the search's loop.  Indices count from 1.          *)
(***************************************************************************)
EXTENDS Integers, SequencesExt

CONSTANTS
  Keys,             \* addresses, ordered as pointers are
  Numbers,          \* global numbers
  None,             \* SIZE_MAX, returned for a key that is not there
  Capacities        \* initial capacities: 16 when initialised, 0 for a
                    \* variable set to MCBSP_UTIL_EMPTY_ADDRESS_MAP

ASSUME KeysAssumption == Keys \subseteq Int
ASSUME NoneAssumption == None \notin Numbers
ASSUME CapacitiesAssumption == Capacities \subseteq Nat

VARIABLES
  entries,          \* keys[0 .. size-1] and values[0 .. size-1]
  cap,              \* allocated length of keys and values
  pc,               \* "idle", in the "loop" of the search, or "found"
  call,             \* the function being executed and its arguments
  lo, hi, mid,      \* the search's parameters and its local variable
  answer            \* what the last mcbsp_util_address_map_get returned

vars == <<entries, cap, pc, call, lo, hi, mid, answer>>
search == <<lo, hi, mid>>

Entry == [key : Keys, value : Numbers]
Call == [op : {"insert", "remove", "get"}, key : Keys, value : Numbers]

size == Len(entries)

TypeOK ==
  /\ entries \in Seq(Entry)
  /\ cap \in Nat
  /\ pc \in {"idle", "loop", "found"}
  /\ call \in Call
  /\ lo \in Nat /\ hi \in Nat /\ mid \in Nat
  /\ answer \in Numbers \cup {None}

Init ==
  /\ entries = <<>>
  /\ cap \in Capacities
  /\ pc = "idle"
  /\ call \in Call
  /\ lo = 1 /\ hi = 1 /\ mid = 1
  /\ answer = None

(* Faulty variant: rounded up, the middle can be the upper end.            *)
MiddleUp(l, h) == l + ((h - l + 1) \div 2)

Middle(l, h) == l + ((h - l) \div 2)

(* mcbsp_util_address_map_grow                                             *)
Doubled == IF cap = 0 THEN 1 ELSE 2 * cap

(* Faulty variant: the array grows only once it is overfull.               *)
GrownLate == IF size > cap THEN Doubled ELSE cap

Grown == IF size + 1 >= cap THEN Doubled ELSE cap
----
(* Faulty variant: the search looks at its midpoints only.                 *)
BinsearchNoBoundaries(c) ==
  /\ pc = "idle"
  /\ size > 0
  /\ call' = c
  /\ lo' = 1
  /\ hi' = size
  /\ mid' = Middle(1, size)
  /\ pc' = "loop"
  /\ UNCHANGED <<entries, cap, answer>>
----
(* With no entries no search is needed: an insertion goes to the front,    *)
(* a removal warns and does nothing, a lookup fails.                       *)
CallOnEmpty(c) ==
  /\ pc = "idle"
  /\ size = 0
  /\ call' = c
  /\ IF c.op = "insert"
       THEN /\ entries' = <<[key |-> c.key, value |-> c.value]>>
            /\ cap' = Grown
       ELSE UNCHANGED <<entries, cap>>
  /\ answer' = IF c.op = "get" THEN None ELSE answer
  /\ UNCHANGED <<pc, lo, hi, mid>>

(* A function calls the search, which first looks at both ends.            *)
Binsearch(c) ==
  /\ pc = "idle"
  /\ size > 0
  /\ call' = c
  /\ lo' = 1
  /\ hi' = size
  /\ \/ /\ entries[1].key = c.key
        /\ mid' = 1
        /\ pc' = "found"
     \/ /\ entries[1].key # c.key
        /\ entries[size].key = c.key
        /\ mid' = size
        /\ pc' = "found"
     \/ /\ entries[1].key # c.key
        /\ entries[size].key # c.key
        /\ mid' = Middle(1, size)
        /\ pc' = "loop"
  /\ UNCHANGED <<entries, cap, answer>>

(* One round of the search's loop.  It ends at a hit or when the interval  *)
(* cannot be halved any more.                                              *)
Halve ==
  /\ pc = "loop"
  /\ IF entries[mid].key = call.key
       THEN /\ pc' = "found"
            /\ UNCHANGED <<lo, hi, mid>>
       ELSE /\ IF call.key < entries[mid].key
                 THEN hi' = mid /\ UNCHANGED lo
                 ELSE lo' = mid /\ UNCHANGED hi
            /\ mid' = Middle(lo', hi')
            /\ pc' = IF lo' = mid' THEN "found" ELSE "loop"
  /\ UNCHANGED <<entries, cap, call, answer>>

Hit == entries[mid].key = call.key

(* Where the search ended, or after it if the key there is smaller.        *)
InsertionPoint == IF entries[mid].key < call.key THEN mid + 1 ELSE mid

InsertEntry ==
  /\ pc = "found"
  /\ call.op = "insert"
  /\ IF Hit
       THEN UNCHANGED <<entries, cap>>
       ELSE /\ entries' = InsertAt(entries, InsertionPoint,
                                   [key |-> call.key, value |-> call.value])
            /\ cap' = Grown
  /\ pc' = "idle"
  /\ UNCHANGED <<call, lo, hi, mid, answer>>

RemoveEntry ==
  /\ pc = "found"
  /\ call.op = "remove"
  /\ entries' = IF Hit THEN RemoveAt(entries, mid) ELSE entries
  /\ pc' = "idle"
  /\ UNCHANGED <<cap, call, lo, hi, mid, answer>>

ReadEntry ==
  /\ pc = "found"
  /\ call.op = "get"
  /\ answer' = IF Hit THEN entries[mid].value ELSE None
  /\ pc' = "idle"
  /\ UNCHANGED <<entries, cap, call, lo, hi, mid>>

Next ==
  \/ \E c \in Call : CallOnEmpty(c) \/ Binsearch(c)
  \/ Halve \/ InsertEntry \/ RemoveEntry \/ ReadEntry

Spec == Init /\ [][Next]_vars
----
(* The keys do not ascend: an address above all others is inserted before  *)
(* the last.  They do ascend up to the last one, and none occurs twice.    *)
AllButLastAscend ==
  \A i, j \in 1 .. size - 1 : i < j => entries[i].key < entries[j].key

KeysDiffer ==
  \A i, j \in 1 .. size : entries[i].key = entries[j].key => i = j

(* Every entry lies within the allocated arrays.                           *)
InBounds == size <= cap

(* The search has excluded both ends of the array and whatever is outside  *)
(* of lo .. hi.                                                            *)
LoopInv ==
  pc = "loop" =>
    /\ 1 <= lo /\ lo <= hi /\ hi <= size
    /\ mid = Middle(lo, hi)
    /\ entries[1].key # call.key /\ entries[size].key # call.key
    /\ lo = 1 \/ entries[lo].key < call.key
    /\ hi = size \/ call.key < entries[hi].key
    /\ lo = hi => size = 1

(* The search ended at the key, or next to where the key belongs.          *)
FoundInv ==
  pc = "found" =>
    /\ mid \in 1 .. size
    /\ ~ Hit =>
         /\ size > 1 => mid < size
         /\ entries[size].key # call.key
         /\ \A i \in 1 .. size - 1 :
              /\ i < InsertionPoint => entries[i].key < call.key
              /\ i >= InsertionPoint => call.key < entries[i].key

(* With these the search is right although the array is not sorted.        *)
MapInv ==
  /\ TypeOK
  /\ AllButLastAscend
  /\ KeysDiffer
  /\ InBounds
  /\ LoopInv
  /\ FoundInv

(* The value under a key, wherever in the array it is.                     *)
ValueIn(s, k) ==
  IF \E i \in 1 .. Len(s) : s[i].key = k
    THEN s[CHOOSE i \in 1 .. Len(s) : s[i].key = k].value
    ELSE None

Map == INSTANCE FiniteMap WITH map <- [k \in Keys |-> ValueIn(entries, k)]

(* Insertions, removals and lookups are those of a map: no key is missed   *)
(* by the search, inserted twice or removed in another's place.            *)
ImplementsMap == Map!Spec

(* The search always ends.                                                 *)
EverySearchEnds == (pc # "idle") ~> (pc = "idle")
====
