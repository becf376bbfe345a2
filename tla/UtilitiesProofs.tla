---- MODULE UtilitiesProofs ----
(***************************************************************************)
(* Theorems about the utilities.                                           *)
(*                                                                         *)
(* For any set of addresses: the halving search of the address map finds   *)
(* every key although insertion does not keep the array sorted, no entry   *)
(* lies outside the allocated arrays, and the whole implements a map.      *)
(*                                                                         *)
(* For any machine: where the processes of a run, and of the runs nested   *)
(* in it, are pinned.                                                      *)
(*                                                                         *)
(* For any registrations and messages: the address table and the stack of  *)
(* messages implement stacks that never run out of room.                   *)
(***************************************************************************)
EXTENDS MCUtilities, SequenceTheorems, FiniteSetTheorems, WellFoundedInduction, TLAPS

(* What inserting into and removing from a sequence does to its elements. *)
LEMMA InsertAtFacts ==
  ASSUME NEW V, NEW s \in Seq(V), NEW i \in 1 .. Len(s) + 1, NEW e \in V
  PROVE  /\ InsertAt(s, i, e) \in Seq(V)
         /\ Len(InsertAt(s, i, e)) = Len(s) + 1
         /\ \A j \in 1 .. Len(s) + 1 :
              InsertAt(s, i, e)[j] = IF j < i THEN s[j] ELSE IF j = i THEN e ELSE s[j-1]
<1> DEFINE a == SubSeq(s, 1, i-1)
           b == SubSeq(s, i, Len(s))
           m == <<e>>
<1>0. Len(s) \in Nat /\ \A j \in 1 .. Len(s) : s[j] \in V
  BY LenProperties, ElementOfSeq
<1>1. /\ a \in Seq(V) /\ Len(a) = i - 1
      /\ \A j \in 1 .. i-1 : a[j] = s[j]
  <2>1. \A j \in 1 .. i-1 : s[j] \in V
    BY <1>0
  <2> QED BY <1>0, <2>1, SubSeqProperties
<1>2. /\ b \in Seq(V) /\ Len(b) = Len(s) - i + 1
      /\ \A j \in 1 .. Len(s) - i + 1 : b[j] = s[i + j - 1]
  <2>1. \A j \in i .. Len(s) : s[j] \in V
    BY <1>0
  <2> QED BY <1>0, <2>1, SubSeqProperties
<1>3. m \in Seq(V) /\ Len(m) = 1 /\ m[1] = e
  OBVIOUS
<1> HIDE DEF a, b, m
<1>4. /\ a \o m \in Seq(V) /\ Len(a \o m) = i
      /\ \A j \in 1 .. i : (a \o m)[j] = IF j < i THEN s[j] ELSE e
  <2>1. /\ a \o m \in Seq(V) /\ Len(a \o m) = Len(a) + Len(m)
        /\ \A j \in 1 .. Len(a) + Len(m) :
             (a \o m)[j] = IF j <= Len(a) THEN a[j] ELSE m[j - Len(a)]
    BY <1>1, <1>3, ConcatProperties
  <2>2. Len(a) + Len(m) = i
    BY <1>1, <1>3
  <2>3. ASSUME NEW j \in 1 .. i
        PROVE  (a \o m)[j] = IF j < i THEN s[j] ELSE e
    <3>1. CASE j < i
      BY <1>1, <2>1, <2>2, <3>1
    <3>2. CASE j = i
      <4>1. ~ (j <= Len(a)) /\ j - Len(a) = 1
        BY <1>1, <3>2
      <4> QED BY <1>3, <2>1, <2>2, <3>2, <4>1
    <3>3. j < i \/ j = i
      BY <1>0
    <3> QED BY <3>1, <3>2, <3>3
  <2> QED BY <2>1, <2>2, <2>3
<1>5. /\ (a \o m) \o b \in Seq(V) /\ Len((a \o m) \o b) = Len(s) + 1
      /\ \A j \in 1 .. Len(s) + 1 :
           ((a \o m) \o b)[j] = IF j <= i THEN (a \o m)[j] ELSE b[j - i]
  <2> DEFINE am == a \o m
  <2>0. am \in Seq(V) /\ Len(am) = i
    BY <1>4
  <2> HIDE DEF am
  <2>1. /\ am \o b \in Seq(V) /\ Len(am \o b) = Len(am) + Len(b)
        /\ \A j \in 1 .. Len(am) + Len(b) :
             (am \o b)[j] = IF j <= Len(am) THEN am[j] ELSE b[j - Len(am)]
    BY <1>2, <2>0, ConcatProperties
  <2>2. Len(am) + Len(b) = Len(s) + 1
    BY <1>0, <1>2, <2>0
  <2> QED BY <2>0, <2>1, <2>2 DEF am
<1>6. InsertAt(s, i, e) = (a \o m) \o b
  BY DEF InsertAt, a, b, m
<1> QED BY <1>0, <1>2, <1>4, <1>5, <1>6

LEMMA RemoveAtFacts ==
  ASSUME NEW V, NEW s \in Seq(V), NEW i \in 1 .. Len(s)
  PROVE  /\ RemoveAt(s, i) \in Seq(V)
         /\ Len(RemoveAt(s, i)) = Len(s) - 1
         /\ \A j \in 1 .. Len(s) - 1 :
              RemoveAt(s, i)[j] = IF j < i THEN s[j] ELSE s[j+1]
<1> DEFINE a == SubSeq(s, 1, i-1)
           b == SubSeq(s, i+1, Len(s))
<1>0. Len(s) \in Nat /\ \A j \in 1 .. Len(s) : s[j] \in V
  BY LenProperties, ElementOfSeq
<1>1. /\ a \in Seq(V) /\ Len(a) = i - 1
      /\ \A j \in 1 .. i-1 : a[j] = s[j]
  <2>1. \A j \in 1 .. i-1 : s[j] \in V
    BY <1>0
  <2> QED BY <1>0, <2>1, SubSeqProperties
<1>2. /\ b \in Seq(V) /\ Len(b) = Len(s) - i
      /\ \A j \in 1 .. Len(s) - i : b[j] = s[i + j]
  <2>1. \A j \in i+1 .. Len(s) : s[j] \in V
    BY <1>0
  <2>2. \A j \in 1 .. Len(s) - (i+1) + 1 : b[j] = s[(i+1) + j - 1]
    BY <1>0, <2>1, SubSeqProperties
  <2>3. b \in Seq(V) /\ Len(b) = Len(s) - i
    BY <1>0, <2>1, SubSeqProperties
  <2> QED BY <1>0, <2>2, <2>3
<1> HIDE DEF a, b
<1>3. /\ a \o b \in Seq(V) /\ Len(a \o b) = Len(s) - 1
      /\ \A j \in 1 .. Len(s) - 1 : (a \o b)[j] = IF j <= i - 1 THEN a[j] ELSE b[j - (i - 1)]
  <2>1. /\ a \o b \in Seq(V) /\ Len(a \o b) = Len(a) + Len(b)
        /\ \A j \in 1 .. Len(a) + Len(b) :
             (a \o b)[j] = IF j <= Len(a) THEN a[j] ELSE b[j - Len(a)]
    BY <1>1, <1>2, ConcatProperties
  <2>2. Len(a) + Len(b) = Len(s) - 1 /\ Len(a) = i - 1
    BY <1>0, <1>1, <1>2
  <2> QED BY <2>1, <2>2
<1>4. RemoveAt(s, i) = a \o b
  BY DEF RemoveAt, a, b
<1> QED BY <1>0, <1>1, <1>2, <1>3, <1>4
----
LEMMA MiddleFacts ==
  ASSUME NEW l \in Nat, NEW h \in Nat, l <= h
  PROVE  /\ Middle(l, h) \in Nat
         /\ l <= Middle(l, h) /\ Middle(l, h) <= h
         /\ l < h => Middle(l, h) < h
         /\ Middle(l, h) = l <=> h <= l + 1
BY DEF Middle

LEMMA Types ==
  ASSUME TypeOK
  PROVE  /\ size \in Nat
         /\ \A i \in 1 .. size : /\ entries[i] \in Entry
                                 /\ entries[i].key \in Keys /\ entries[i].key \in Int
                                 /\ entries[i].value \in Numbers
         /\ call.key \in Keys /\ call.key \in Int /\ call.value \in Numbers
<1>1. size \in Nat /\ \A i \in 1 .. size : entries[i] \in Entry
  BY LenProperties, ElementOfSeq DEF TypeOK, size
<1>2. \A e \in Entry : e.key \in Keys /\ e.key \in Int /\ e.value \in Numbers
  BY KeysAssumption DEF Entry
<1>3. call.key \in Keys /\ call.key \in Int /\ call.value \in Numbers
  BY KeysAssumption DEF TypeOK, Call
<1> QED BY <1>1, <1>2, <1>3

(* A search that does not hit leaves no entry with the key. *)
LEMMA NoHitNoKey ==
  ASSUME MapInv, pc = "found", ~ Hit, NEW i \in 1 .. size
  PROVE  entries[i].key # call.key
<1>1. size \in Nat /\ mid \in 1 .. size
  BY Types DEF MapInv, FoundInv
<1>2. entries[i].key \in Int /\ call.key \in Int /\ entries[mid].key \in Int
  BY <1>1, Types DEF MapInv
<1>3. InsertionPoint \in Int
  BY <1>1 DEF InsertionPoint
<1>4. CASE i = size
  BY <1>4 DEF MapInv, FoundInv
<1>5. CASE i \in 1 .. size - 1
  BY <1>2, <1>3, <1>5 DEF MapInv, FoundInv
<1> QED BY <1>1, <1>4, <1>5

LEMMA InitInv == Init => MapInv
<1> SUFFICES ASSUME Init PROVE MapInv
  OBVIOUS
<1>1. entries \in Seq(Entry) /\ size = 0
  BY EmptySeq DEF Init, size
<1>2. TypeOK
  BY <1>1, CapacitiesAssumption DEF Init, TypeOK
<1>3. AllButLastAscend /\ KeysDiffer /\ InBounds
  BY <1>1, <1>2 DEF AllButLastAscend, KeysDiffer, InBounds, TypeOK
<1> QED BY <1>2, <1>3 DEF Init, MapInv, LoopInv, FoundInv

LEMMA EmptyStep ==
  ASSUME MapInv, NEW c \in Call, CallOnEmpty(c)
  PROVE  MapInv'
<1> USE DEF CallOnEmpty
<1>1. cap \in Nat /\ pc' = "idle" /\ size = 0
  BY DEF MapInv, TypeOK
<1>2. CASE c.op = "insert"
  <2> DEFINE e == [key |-> c.key, value |-> c.value]
  <2>1. e \in Entry
    BY DEF Call, Entry
  <2>2. entries' = <<e>> /\ entries' \in Seq(Entry) /\ size' = 1
    BY <1>2, <2>1 DEF size
  <2>3. cap' \in Nat /\ cap' >= 1
    BY <1>1, <1>2 DEF Grown, Doubled
  <2>4. TypeOK'
    BY <2>2, <2>3 DEF MapInv, TypeOK
  <2>5. AllButLastAscend' /\ KeysDiffer' /\ InBounds'
    BY <2>2, <2>3 DEF AllButLastAscend, KeysDiffer, InBounds
  <2> QED BY <1>1, <2>4, <2>5 DEF MapInv, LoopInv, FoundInv
<1>3. CASE c.op # "insert"
  <2>1. TypeOK'
    BY <1>3 DEF MapInv, TypeOK
  <2>2. AllButLastAscend' /\ KeysDiffer' /\ InBounds'
    BY <1>3 DEF MapInv, AllButLastAscend, KeysDiffer, InBounds, size
  <2> QED BY <1>1, <2>1, <2>2 DEF MapInv, LoopInv, FoundInv
<1> QED BY <1>2, <1>3

LEMMA BinsearchStep ==
  ASSUME MapInv, NEW c \in Call, Binsearch(c)
  PROVE  MapInv'
<1>1. /\ size \in Nat /\ size > 0 /\ size' = size /\ entries' = entries
      /\ call' = c /\ lo' = 1 /\ hi' = size
  BY Types DEF MapInv, Binsearch, size
<1>2. AllButLastAscend' /\ KeysDiffer' /\ InBounds'
  BY <1>1 DEF Binsearch, MapInv, AllButLastAscend, KeysDiffer, InBounds
<1>3. Middle(1, size) \in Nat
  BY <1>1, MiddleFacts
<1>4. TypeOK'
  BY <1>1, <1>3 DEF MapInv, TypeOK, Binsearch
<1>5. LoopInv'
  BY <1>1 DEF Binsearch, LoopInv, Middle
<1>6. FoundInv'
  BY <1>1 DEF Binsearch, FoundInv, Hit
<1> QED BY <1>2, <1>4, <1>5, <1>6 DEF MapInv

(* Where a key belongs that is not at index l but next to it. *)
Place(l) == IF entries[l].key < call.key THEN l + 1 ELSE l

(* When the interval is used up the key belongs at one of its ends. *)
LEMMA EndOfSearch ==
  ASSUME MapInv, NEW l \in 1 .. size, NEW h \in 1 .. size, l <= h, h <= l + 1,
         l = 1 \/ entries[l].key < call.key,
         h = size \/ call.key < entries[h].key,
         entries[1].key # call.key,
         size > 1 => l < size,
         NEW i \in 1 .. size - 1
  PROVE  /\ i < Place(l) => entries[i].key < call.key
         /\ i >= Place(l) => call.key < entries[i].key
<1>1. /\ size \in Nat /\ call.key \in Int /\ entries[l].key \in Int
      /\ entries[h].key \in Int /\ entries[i].key \in Int /\ 1 \in 1 .. size
  BY Types DEF MapInv
<1>2. \A a, b \in 1 .. size - 1 : a < b => entries[a].key < entries[b].key
  BY DEF MapInv, AllButLastAscend
<1>3. l \in 1 .. size - 1
  BY <1>1
<1>4. CASE entries[l].key < call.key
  <2>1. Place(l) = l + 1
    BY <1>4 DEF Place
  <2>2. ASSUME i < l + 1 PROVE entries[i].key < call.key
    <3>1. CASE i = l
      BY <1>4, <3>1
    <3>2. CASE i < l
      BY <1>1, <1>2, <1>3, <1>4, <3>2
    <3> QED BY <2>2, <3>1, <3>2
  <2>3. ASSUME i >= l + 1 PROVE call.key < entries[i].key
    <3>1. h <= i /\ h # size /\ h \in 1 .. size - 1
      BY <1>1, <2>3
    <3>2. CASE i = h
      BY <3>1, <3>2
    <3>3. CASE h < i
      BY <1>1, <1>2, <3>1, <3>3
    <3> QED BY <3>1, <3>2, <3>3
  <2> QED BY <2>1, <2>2, <2>3
<1>5. CASE ~ (entries[l].key < call.key)
  <2>1. Place(l) = 1 /\ call.key < entries[1].key
    BY <1>1, <1>5 DEF Place
  <2>2. CASE i = 1
    BY <2>1, <2>2
  <2>3. CASE i > 1
    <3>1. 1 \in 1 .. size - 1 /\ entries[1].key \in Int
      BY <1>1, Types DEF MapInv
    <3>2. entries[1].key < entries[i].key
      BY <1>2, <2>3, <3>1
    <3>3. call.key < entries[i].key
      BY <1>1, <2>1, <3>1, <3>2
    <3> QED BY <2>1, <2>3, <3>3
  <2>4. i = 1 \/ i > 1
    OBVIOUS
  <2> QED BY <2>1, <2>2, <2>3, <2>4
<1> QED BY <1>4, <1>5

(* One round of the loop that does not hit: lo, hi and mid stay well
   placed, and when the interval is used up the key belongs next to mid. *)
LEMMA HalveStep ==
  ASSUME MapInv, Halve
  PROVE  MapInv'
<1>1. /\ size \in Nat /\ size' = size /\ entries' = entries /\ call' = call
      /\ pc = "loop" /\ lo \in Nat /\ hi \in Nat /\ mid \in Nat
  BY Types DEF MapInv, TypeOK, Halve, size
<1>2. /\ 1 <= lo /\ lo <= hi /\ hi <= size
      /\ lo = hi => size = 1
      /\ lo = 1 \/ entries[lo].key < call.key
      /\ hi = size \/ call.key < entries[hi].key
      /\ entries[1].key # call.key /\ entries[size].key # call.key
  BY <1>1 DEF MapInv, LoopInv
<1>3. /\ lo <= mid /\ mid <= hi /\ (lo < hi => mid < hi)
  BY <1>1, <1>2, MiddleFacts DEF MapInv, LoopInv
<1>4. /\ call.key \in Int
      /\ \A i \in 1 .. size : entries[i].key \in Int
  BY Types DEF MapInv
<1>5. AllButLastAscend' /\ KeysDiffer' /\ InBounds'
  BY <1>1 DEF Halve, MapInv, AllButLastAscend, KeysDiffer, InBounds
<1>6. CASE Hit
  <2>1. pc' = "found" /\ mid' = mid /\ lo' = lo /\ hi' = hi
    BY <1>6 DEF Halve, Hit
  <2>2. TypeOK'
    BY <1>1, <2>1 DEF Halve, MapInv, TypeOK
  <2>3. FoundInv'
    BY <1>1, <1>2, <1>3, <1>6, <2>1 DEF FoundInv, Hit
  <2> QED BY <1>5, <2>1, <2>2, <2>3 DEF MapInv, LoopInv
<1>7. CASE ~ Hit
  <2>1. /\ \/ call.key < entries[mid].key /\ hi' = mid /\ lo' = lo
           \/ entries[mid].key < call.key /\ lo' = mid /\ hi' = hi
        /\ mid' = Middle(lo', hi')
        /\ pc' = IF lo' = mid' THEN "found" ELSE "loop"
    <3>1. mid \in 1 .. size
      BY <1>1, <1>2, <1>3
    <3>2. entries[mid].key \in Int /\ entries[mid].key # call.key
      BY <1>4, <1>7, <3>1 DEF Hit
    <3> QED BY <1>4, <1>7, <3>2 DEF Halve, Hit
  <2>2. /\ lo' \in Nat /\ hi' \in Nat
        /\ 1 <= lo' /\ lo' <= hi' /\ hi' <= size
        /\ lo' = 1 \/ entries[lo'].key < call.key
        /\ hi' = size \/ call.key < entries[hi'].key
    BY <1>1, <1>2, <1>3, <2>1
  <2>3. /\ mid' \in Nat /\ lo' <= mid' /\ mid' <= hi'
        /\ lo' < hi' => mid' < hi'
        /\ mid' = lo' <=> hi' <= lo' + 1
    BY <2>1, <2>2, MiddleFacts
  <2>4. TypeOK'
    BY <1>1, <2>1, <2>2, <2>3 DEF Halve, MapInv, TypeOK
  <2>5. LoopInv'
    BY <1>1, <1>2, <2>1, <2>2, <2>3 DEF LoopInv
  <2>6. ASSUME pc' = "found" PROVE FoundInv'
    <3>1. mid' = lo' /\ hi' <= lo' + 1
      BY <2>1, <2>3, <2>6
    <3>2. mid' \in 1 .. size /\ (size > 1 => mid' < size)
      BY <1>1, <1>2, <1>3, <2>1, <2>2, <3>1
    <3>3. entries[lo'].key \in Int /\ entries[lo'].key # call.key
      BY <1>1, <1>2, <1>4, <2>2, <3>1, <3>2
    <3>4. \A i \in 1 .. size - 1 :
            /\ i < Place(lo') => entries[i].key < call.key
            /\ i >= Place(lo') => call.key < entries[i].key
      <4>1. lo' \in 1 .. size /\ hi' \in 1 .. size
        BY <1>1, <2>2, <3>1, <3>2
      <4> QED BY <1>2, <2>2, <3>1, <3>2, <4>1, EndOfSearch
    <3>5. InsertionPoint' = Place(lo')
      BY <1>1, <3>1 DEF InsertionPoint, Place
    <3>6. entries'[size'].key # call'.key
      BY <1>1, <1>2
    <3> QED BY <1>1, <3>2, <3>4, <3>5, <3>6 DEF FoundInv
  <2> QED BY <1>5, <2>4, <2>5, <2>6 DEF MapInv, FoundInv
<1> QED BY <1>6, <1>7

LEMMA InsertEntryStep ==
  ASSUME MapInv, InsertEntry
  PROVE  MapInv'
<1>1. /\ size \in Nat /\ cap \in Nat /\ size <= cap
      /\ pc = "found" /\ pc' = "idle" /\ call' = call
  BY Types DEF MapInv, InsertEntry, InBounds, TypeOK
<1>2. LoopInv' /\ FoundInv'
  BY <1>1 DEF LoopInv, FoundInv
<1>3. CASE Hit
  <2>1. TypeOK'
    BY <1>3 DEF InsertEntry, MapInv, TypeOK
  <2>2. AllButLastAscend' /\ KeysDiffer' /\ InBounds'
    BY <1>3 DEF InsertEntry, MapInv, AllButLastAscend, KeysDiffer, InBounds, size
  <2> QED BY <1>2, <2>1, <2>2 DEF MapInv
<1>4. CASE ~ Hit
  <2> DEFINE e == [key |-> call.key, value |-> call.value]
             ip == InsertionPoint
  <2>1. e \in Entry /\ e.key = call.key /\ call.key \in Int
    BY Types DEF MapInv, Entry
  <2>2. /\ ip \in 1 .. size + 1 /\ (size > 1 => ip <= size)
        /\ \A i \in 1 .. size - 1 : /\ i < ip => entries[i].key < call.key
                                    /\ i >= ip => call.key < entries[i].key
    BY <1>1, <1>4 DEF MapInv, FoundInv, InsertionPoint
  <2>3. entries' = InsertAt(entries, ip, e)
    BY <1>4 DEF InsertEntry
  <2> HIDE DEF e, ip
  <2>4. entries \in Seq(Entry)
    BY DEF MapInv, TypeOK
  <2>5. /\ entries' \in Seq(Entry)
        /\ size' = size + 1
        /\ \A j \in 1 .. size + 1 :
             entries'[j] = IF j < ip THEN entries[j] ELSE IF j = ip THEN e ELSE entries[j-1]
    <3>1. ip \in 1 .. Len(entries) + 1
      BY <2>2 DEF size
    <3>2. InsertAt(entries, ip, e) \in Seq(Entry)
      BY <2>1, <2>4, <3>1, InsertAtFacts
    <3>3. Len(InsertAt(entries, ip, e)) = Len(entries) + 1
      BY <2>1, <2>4, <3>1, InsertAtFacts
    <3>4. \A j \in 1 .. Len(entries) + 1 :
            InsertAt(entries, ip, e)[j] =
              IF j < ip THEN entries[j] ELSE IF j = ip THEN e ELSE entries[j-1]
      BY <2>1, <2>4, <3>1, InsertAtFacts
    <3> QED BY <2>3, <3>2, <3>3, <3>4 DEF size
  <2>6. cap' \in Nat /\ size' <= cap'
    BY <1>1, <1>4, <2>5 DEF InsertEntry, Grown, Doubled
  <2>7. TypeOK'
    BY <2>5, <2>6 DEF InsertEntry, MapInv, TypeOK
  <2>8. \A j \in 1 .. size : entries[j].key \in Int /\ entries[j].key # call.key
    BY <1>1, <1>4, NoHitNoKey, Types DEF MapInv
  <2>9. AllButLastAscend'
    <3> SUFFICES ASSUME NEW i \in 1 .. size, NEW j \in 1 .. size, i < j
                 PROVE  entries'[i].key < entries'[j].key
      BY <1>1, <2>5 DEF AllButLastAscend
    <3>1. 1 <= ip /\ ip <= size /\ ip \in Int /\ i \in Int /\ j \in Int
      BY <1>1, <2>2
    <3>2. \A a, b \in 1 .. size - 1 : a < b => entries[a].key < entries[b].key
      BY DEF MapInv, AllButLastAscend
    <3>3. /\ entries'[i] = IF i < ip THEN entries[i] ELSE IF i = ip THEN e ELSE entries[i-1]
          /\ entries'[j] = IF j < ip THEN entries[j] ELSE IF j = ip THEN e ELSE entries[j-1]
      BY <1>1, <2>5
    <3>4. CASE j < ip
      BY <1>1, <3>1, <3>2, <3>3, <3>4
    <3>5. CASE j = ip
      <4>1. i \in 1 .. size - 1 /\ i < ip
        BY <1>1, <3>1, <3>5
      <4>2. entries'[j] = e /\ entries'[i] = entries[i]
        BY <3>1, <3>3, <3>5, <4>1
      <4>3. entries[i].key < call.key
        BY <2>2, <4>1
      <4> QED BY <2>1, <4>2, <4>3
    <3>6. CASE ip < j /\ i < ip
      <4>1. i < j - 1 /\ j - 1 \in 1 .. size - 1 /\ i \in 1 .. size - 1
        BY <1>1, <3>1, <3>6
      <4> QED BY <3>1, <3>2, <3>3, <3>6, <4>1
    <3>7. CASE i = ip
      <4>1. j - 1 \in 1 .. size - 1 /\ j - 1 >= ip
        BY <1>1, <3>1, <3>7
      <4> QED BY <2>1, <2>2, <3>1, <3>3, <3>7, <4>1
    <3>8. CASE ip < i
      <4>1. i - 1 < j - 1 /\ i - 1 \in 1 .. size - 1 /\ j - 1 \in 1 .. size - 1
        BY <1>1, <3>1, <3>8
      <4> QED BY <3>1, <3>2, <3>3, <3>8, <4>1
    <3> QED BY <3>1, <3>4, <3>5, <3>6, <3>7, <3>8
  <2>10. KeysDiffer'
    <3> SUFFICES ASSUME NEW i \in 1 .. size + 1, NEW j \in 1 .. size + 1,
                        entries'[i].key = entries'[j].key
                 PROVE  i = j
      BY <1>1, <2>5 DEF KeysDiffer
    <3>1. ip \in Int /\ i \in Int /\ j \in Int /\ ip \in 1 .. size + 1
      BY <1>1, <2>2
    <3>2. \A a, b \in 1 .. size : entries[a].key = entries[b].key => a = b
      BY DEF MapInv, KeysDiffer
    <3> DEFINE Old(h) == IF h < ip THEN h ELSE h - 1
    <3>3. ASSUME NEW h \in 1 .. size + 1
          PROVE  /\ h # ip => Old(h) \in 1 .. size /\ entries'[h].key = entries[Old(h)].key
                 /\ h = ip => entries'[h].key = call.key
      BY <1>1, <2>1, <2>5, <3>1
    <3>4. CASE i # ip /\ j # ip
      <4>1. Old(i) = Old(j)
        BY <3>2, <3>3, <3>4
      <4> QED BY <3>1, <3>4, <4>1
    <3>5. CASE i = ip \/ j = ip
      BY <2>8, <3>3, <3>5
    <3> QED BY <3>4, <3>5
  <2> QED BY <1>2, <2>6, <2>7, <2>9, <2>10 DEF MapInv, InBounds
<1> QED BY <1>3, <1>4

LEMMA RemoveEntryStep ==
  ASSUME MapInv, RemoveEntry
  PROVE  MapInv'
<1>1. /\ size \in Nat /\ cap \in Nat /\ size <= cap /\ cap' = cap
      /\ pc = "found" /\ pc' = "idle" /\ call' = call
  BY Types DEF MapInv, RemoveEntry, InBounds, TypeOK
<1>2. LoopInv' /\ FoundInv'
  BY <1>1 DEF LoopInv, FoundInv
<1>3. CASE ~ Hit
  <2>1. TypeOK'
    BY <1>3 DEF RemoveEntry, MapInv, TypeOK
  <2>2. AllButLastAscend' /\ KeysDiffer' /\ InBounds'
    BY <1>3 DEF RemoveEntry, MapInv, AllButLastAscend, KeysDiffer, InBounds, size
  <2> QED BY <1>2, <2>1, <2>2 DEF MapInv
<1>4. CASE Hit
  <2> DEFINE Old(h) == IF h < mid THEN h ELSE h + 1
  <2>1. mid \in 1 .. size /\ entries' = RemoveAt(entries, mid) /\ entries \in Seq(Entry)
    BY <1>1, <1>4 DEF RemoveEntry, MapInv, TypeOK, FoundInv
  <2>2. entries' \in Seq(Entry) /\ size' = size - 1
    BY <2>1, RemoveAtFacts DEF size
  <2>3. ASSUME NEW h \in 1 .. size - 1
        PROVE  entries'[h] = entries[Old(h)]
    <3>1. entries'[h] = IF h < mid THEN entries[h] ELSE entries[h+1]
      BY <2>1, RemoveAtFacts DEF size
    <3> QED BY <3>1
  <2>4. ASSUME NEW h \in 1 .. size - 1
        PROVE  /\ Old(h) \in 1 .. size
               /\ h < size - 1 => Old(h) \in 1 .. size - 1
               /\ \A g \in 1 .. size - 1 : h < g => Old(h) < Old(g)
               /\ \A g \in 1 .. size - 1 : Old(h) = Old(g) => h = g
    BY <1>1, <2>1
  <2> HIDE DEF Old
  <2>5. TypeOK'
    BY <1>1, <2>2 DEF RemoveEntry, MapInv, TypeOK
  <2>6. AllButLastAscend'
    <3> SUFFICES ASSUME NEW g \in 1 .. size - 2, NEW h \in 1 .. size - 2, g < h
                 PROVE  entries'[g].key < entries'[h].key
      BY <1>1, <2>2 DEF AllButLastAscend
    <3>1. /\ g \in 1 .. size - 1 /\ g < size - 1
          /\ h \in 1 .. size - 1 /\ h < size - 1
      BY <1>1
    <3>2. Old(g) \in 1 .. size - 1 /\ Old(h) \in 1 .. size - 1 /\ Old(g) < Old(h)
      BY <2>4, <3>1
    <3>3. entries[Old(g)].key < entries[Old(h)].key
      BY <3>2 DEF MapInv, AllButLastAscend
    <3> QED BY <2>3, <3>1, <3>3
  <2>7. KeysDiffer'
    <3> SUFFICES ASSUME NEW g \in 1 .. size - 1, NEW h \in 1 .. size - 1,
                        entries'[g].key = entries'[h].key
                 PROVE  g = h
      BY <1>1, <2>2 DEF KeysDiffer
    <3>1. entries[Old(g)].key = entries[Old(h)].key
      BY <2>3
    <3>2. Old(g) = Old(h)
      BY <2>4, <3>1 DEF MapInv, KeysDiffer
    <3> QED BY <2>4, <3>2
  <2>8. InBounds'
    BY <1>1, <2>2 DEF InBounds
  <2> QED BY <1>2, <2>5, <2>6, <2>7, <2>8 DEF MapInv
<1> QED BY <1>3, <1>4

LEMMA ReadEntryStep ==
  ASSUME MapInv, ReadEntry
  PROVE  MapInv'
<1>1. entries' = entries /\ cap' = cap /\ call' = call /\ pc' = "idle" /\ size' = size
  BY DEF ReadEntry, size
<1>2. answer' \in Numbers \cup {None}
  <2>1. CASE Hit
    <3>1. mid \in 1 .. size
      BY DEF MapInv, FoundInv, ReadEntry
    <3> QED BY <2>1, <3>1, Types DEF MapInv, ReadEntry
  <2>2. CASE ~ Hit
    BY <2>2 DEF ReadEntry
  <2> QED BY <2>1, <2>2
<1>3. TypeOK'
  BY <1>1, <1>2 DEF MapInv, TypeOK, ReadEntry
<1>4. AllButLastAscend' /\ KeysDiffer' /\ InBounds' /\ LoopInv' /\ FoundInv'
  BY <1>1 DEF MapInv, AllButLastAscend, KeysDiffer, InBounds, LoopInv, FoundInv
<1> QED BY <1>3, <1>4 DEF MapInv

(* The search is right in every reachable state: the array ascends but for
   its last entry, holds no key twice and fits its allocation, and the
   loop of mcbsp_util_address_map_binsearch ends where the key belongs. *)
THEOREM MapInvariant == Spec => []MapInv
<1>1. ASSUME MapInv, [Next]_vars
      PROVE  MapInv'
  <2>1. ASSUME NEW c \in Call, CallOnEmpty(c) PROVE MapInv'
    BY <1>1, <2>1, EmptyStep
  <2>2. ASSUME NEW c \in Call, Binsearch(c) PROVE MapInv'
    BY <1>1, <2>2, BinsearchStep
  <2>3. CASE Halve
    BY <1>1, <2>3, HalveStep
  <2>4. CASE InsertEntry
    BY <1>1, <2>4, InsertEntryStep
  <2>5. CASE RemoveEntry
    BY <1>1, <2>5, RemoveEntryStep
  <2>6. CASE ReadEntry
    BY <1>1, <2>6, ReadEntryStep
  <2>7. CASE UNCHANGED vars
    <3>1. /\ entries' = entries /\ cap' = cap /\ pc' = pc /\ call' = call
          /\ lo' = lo /\ hi' = hi /\ mid' = mid /\ answer' = answer
      BY <2>7 DEF vars
    <3> QED
      BY <1>1, <3>1 DEF MapInv, TypeOK, AllButLastAscend, KeysDiffer, InBounds,
        LoopInv, FoundInv, Hit, InsertionPoint, size
  <2> QED BY <1>1, <2>1, <2>2, <2>3, <2>4, <2>5, <2>6, <2>7 DEF Next
<1> QED BY <1>1, InitInv, PTL DEF Spec

----
Distinct(s) == \A i, j \in 1 .. Len(s) : s[i].key = s[j].key => i = j

LEMMA ValueInFacts ==
  ASSUME NEW s, Distinct(s)
  PROVE  /\ \A i \in 1 .. Len(s) : ValueIn(s, s[i].key) = s[i].value
         /\ \A k : (\A i \in 1 .. Len(s) : s[i].key # k) => ValueIn(s, k) = None
<1>1. ASSUME NEW i \in 1 .. Len(s)
      PROVE  ValueIn(s, s[i].key) = s[i].value
  <2> DEFINE j == CHOOSE h \in 1 .. Len(s) : s[h].key = s[i].key
  <2>1. j \in 1 .. Len(s) /\ s[j].key = s[i].key
    OBVIOUS
  <2>2. j = i
    BY <2>1 DEF Distinct
  <2> QED BY <2>2 DEF ValueIn
<1>2. \A k : (\A i \in 1 .. Len(s) : s[i].key # k) => ValueIn(s, k) = None
  BY DEF ValueIn
<1> QED BY <1>1, <1>2

LEMMA ValueAfterInsert ==
  ASSUME NEW s \in Seq(Entry), NEW i \in 1 .. Len(s) + 1, NEW e \in Entry,
         Distinct(s), Distinct(InsertAt(s, i, e)),
         \A j \in 1 .. Len(s) : s[j].key # e.key,
         NEW k
  PROVE  ValueIn(InsertAt(s, i, e), k) = IF k = e.key THEN e.value ELSE ValueIn(s, k)
<1> DEFINE t == InsertAt(s, i, e)
<1>1. Len(s) \in Nat /\ Len(t) = Len(s) + 1
  BY InsertAtFacts, LenProperties
<1>2. \A j \in 1 .. Len(s) + 1 : t[j] = IF j < i THEN s[j] ELSE IF j = i THEN e ELSE s[j-1]
  BY InsertAtFacts
<1>3. t[i] = e /\ i \in 1 .. Len(t)
  BY <1>1, <1>2
<1>4. Distinct(t)
  OBVIOUS
<1> HIDE DEF t
<1>5. CASE k = e.key
  <2>1. ValueIn(t, t[i].key) = t[i].value
    BY <1>3, <1>4, ValueInFacts
  <2> QED BY <1>3, <1>5, <2>1 DEF t
<1>6. ASSUME k # e.key, NEW j \in 1 .. Len(s), s[j].key = k
      PROVE  ValueIn(t, k) = ValueIn(s, k)
  <2>1. PICK h \in 1 .. Len(t) : t[h] = s[j]
    <3>1. CASE j < i
      <4>1. t[j] = s[j] /\ j \in 1 .. Len(t)
        BY <1>1, <1>2, <3>1
      <4> QED BY <4>1
    <3>2. CASE j >= i
      <4>1. t[j+1] = s[j] /\ j + 1 \in 1 .. Len(t)
        BY <1>1, <1>2, <3>2
      <4> QED BY <4>1
    <3> QED BY <1>1, <3>1, <3>2
  <2>2. ValueIn(t, k) = t[h].value
    BY <1>4, <1>6, <2>1, ValueInFacts
  <2>3. ValueIn(s, k) = s[j].value
    BY <1>6, ValueInFacts
  <2> QED BY <2>1, <2>2, <2>3
<1>7. ASSUME k # e.key, \A j \in 1 .. Len(s) : s[j].key # k
      PROVE  ValueIn(t, k) = ValueIn(s, k)
  <2>1. ASSUME NEW h \in 1 .. Len(t) PROVE t[h].key # k
    <3>1. CASE h < i
      BY <1>1, <1>2, <1>7, <3>1
    <3>2. CASE h = i
      BY <1>3, <1>7, <3>2
    <3>3. CASE h > i
      <4>1. t[h] = s[h-1] /\ h - 1 \in 1 .. Len(s)
        BY <1>1, <1>2, <3>3
      <4> QED BY <1>7, <4>1
    <3> QED BY <1>1, <3>1, <3>2, <3>3
  <2> QED BY <1>4, <1>7, <2>1, ValueInFacts
<1> QED BY <1>5, <1>6, <1>7 DEF t

LEMMA ValueAfterRemove ==
  ASSUME NEW s \in Seq(Entry), NEW i \in 1 .. Len(s),
         Distinct(s), Distinct(RemoveAt(s, i)),
         NEW k
  PROVE  ValueIn(RemoveAt(s, i), k) = IF k = s[i].key THEN None ELSE ValueIn(s, k)
<1> DEFINE t == RemoveAt(s, i)
<1>1. Len(s) \in Nat /\ Len(t) = Len(s) - 1
  BY RemoveAtFacts, LenProperties
<1>2. \A j \in 1 .. Len(s) - 1 : t[j] = IF j < i THEN s[j] ELSE s[j+1]
  BY RemoveAtFacts
<1>3. Distinct(t)
  OBVIOUS
<1> HIDE DEF t
<1>4. ASSUME NEW h \in 1 .. Len(t)
      PROVE  \E j \in 1 .. Len(s) : j # i /\ t[h] = s[j]
  <2>1. CASE h < i
    <3>1. t[h] = s[h] /\ h \in 1 .. Len(s)
      BY <1>1, <1>2, <2>1
    <3> QED BY <2>1, <3>1
  <2>2. CASE h >= i
    <3>1. t[h] = s[h+1] /\ h + 1 \in 1 .. Len(s) /\ h + 1 # i
      BY <1>1, <1>2, <2>2
    <3> QED BY <3>1
  <2> QED BY <1>1, <2>1, <2>2
<1>5. CASE k = s[i].key
  <2>1. ASSUME NEW h \in 1 .. Len(t) PROVE t[h].key # k
    BY <1>4, <1>5 DEF Distinct
  <2> QED BY <1>3, <1>5, <2>1, ValueInFacts DEF t
<1>6. ASSUME k # s[i].key, NEW j \in 1 .. Len(s), s[j].key = k
      PROVE  ValueIn(t, k) = ValueIn(s, k)
  <2>1. PICK h \in 1 .. Len(t) : t[h] = s[j]
    <3>1. CASE j < i
      <4>1. t[j] = s[j] /\ j \in 1 .. Len(t)
        BY <1>1, <1>2, <3>1
      <4> QED BY <4>1
    <3>2. CASE j > i
      <4>1. t[j-1] = s[j] /\ j - 1 \in 1 .. Len(t)
        BY <1>1, <1>2, <3>2
      <4> QED BY <4>1
    <3>3. j < i \/ j > i
      BY <1>1, <1>6
    <3> QED BY <3>1, <3>2, <3>3
  <2>2. ValueIn(t, k) = t[h].value
    BY <1>3, <1>6, <2>1, ValueInFacts
  <2>3. ValueIn(s, k) = s[j].value
    BY <1>6, ValueInFacts
  <2> QED BY <2>1, <2>2, <2>3
<1>7. ASSUME \A j \in 1 .. Len(s) : s[j].key # k
      PROVE  ValueIn(t, k) = ValueIn(s, k)
  <2>1. \A h \in 1 .. Len(t) : t[h].key # k
    BY <1>4, <1>7
  <2>2. ValueIn(t, k) = None
    BY <1>3, <2>1, ValueInFacts
  <2>3. ValueIn(s, k) = None
    BY <1>7, ValueInFacts
  <2> QED BY <2>2, <2>3
<1> QED BY <1>5, <1>6, <1>7 DEF t

(* The entries as a map. *)
Contents(s) == [k \in Keys |-> ValueIn(s, k)]

LEMMA Unchanged ==
  ASSUME entries' = entries, answer' = answer
  PROVE  UNCHANGED <<Contents(entries), answer>>
BY DEF Contents

LEMMA EmptyCallRefines ==
  ASSUME MapInv, NEW c \in Call, CallOnEmpty(c)
  PROVE  Map!Next \/ UNCHANGED <<Contents(entries), answer>>
<1>1. c.key \in Keys /\ c.value \in Numbers /\ size = 0
  BY DEF Call, CallOnEmpty
<1>2. \A k \in Keys : ValueIn(entries, k) = None
  BY <1>1 DEF ValueIn, size
<1>3. CASE c.op = "insert"
  <2> DEFINE e == [key |-> c.key, value |-> c.value]
             t == <<e>>
  <2>1. entries' = t /\ answer' = answer
    BY <1>3 DEF CallOnEmpty
  <2>2. Len(t) = 1 /\ t[1] = e /\ e.key = c.key /\ e.value = c.value
    OBVIOUS
  <2> HIDE DEF e, t
  <2>3. Distinct(t)
    BY <2>2 DEF Distinct
  <2>4. \A k \in Keys : ValueIn(t, k) = IF k = c.key THEN c.value ELSE None
    <3>1. ValueIn(t, c.key) = c.value
      <4>1. ValueIn(t, t[1].key) = t[1].value
        BY SMTT(30), <2>2, <2>3, ValueInFacts
      <4> QED BY <2>2, <4>1
    <3>2. ASSUME NEW k \in Keys, k # c.key PROVE ValueIn(t, k) = None
      <4>1. \A i \in 1 .. Len(t) : t[i].key # k
        BY <2>2, <3>2
      <4> QED BY <2>3, <4>1, ValueInFacts
    <3> QED BY <3>1, <3>2
  <2>5. Map!Insert(c.key, c.value)
    BY <1>1, <1>2, <2>1, <2>4 DEF Map!Insert
  <2> QED BY <1>1, <2>5 DEF Map!Next
<1>4. CASE c.op = "remove"
  BY <1>4, Unchanged DEF CallOnEmpty
<1>5. CASE c.op = "get"
  <2>1. Map!Get(c.key)
    BY <1>1, <1>2, <1>5 DEF CallOnEmpty, Map!Get
  <2> QED BY <1>1, <2>1 DEF Map!Next
<1> QED BY <1>3, <1>4, <1>5 DEF Call

LEMMA InsertRefines ==
  ASSUME MapInv, MapInv', InsertEntry
  PROVE  Map!Next \/ UNCHANGED <<Contents(entries), answer>>
<1>1. CASE Hit
  BY <1>1, Unchanged DEF InsertEntry
<1>2. CASE ~ Hit
  <2> DEFINE e == [key |-> call.key, value |-> call.value]
             ip == InsertionPoint
  <2>1. /\ call.key \in Keys /\ call.value \in Numbers /\ e \in Entry
        /\ e.key = call.key /\ e.value = call.value
    BY Types DEF MapInv, Entry
  <2>2. entries' = InsertAt(entries, ip, e) /\ answer' = answer /\ pc = "found"
    BY <1>2 DEF InsertEntry
  <2> HIDE DEF e
  <2>3. mid \in 1 .. size /\ size \in Nat
    BY <2>2, Types DEF MapInv, FoundInv
  <2>4. ip \in 1 .. Len(entries) + 1 /\ entries \in Seq(Entry)
    BY <2>3 DEF InsertionPoint, MapInv, TypeOK, size
  <2> HIDE DEF ip
  <2>5. Distinct(entries) /\ Distinct(InsertAt(entries, ip, e))
    BY <2>2 DEF MapInv, KeysDiffer, Distinct, size
  <2>6. \A i \in 1 .. Len(entries) : entries[i].key # e.key
    BY <1>2, <2>1, <2>2, NoHitNoKey DEF size
  <2>7. ASSUME NEW k \in Keys
        PROVE  ValueIn(entries', k) = IF k = call.key THEN call.value ELSE ValueIn(entries, k)
    <3>1. ValueIn(InsertAt(entries, ip, e), k) = IF k = e.key THEN e.value ELSE ValueIn(entries, k)
      BY <2>1, <2>4, <2>5, <2>6, ValueAfterInsert
    <3> QED BY <2>1, <2>2, <3>1
  <2>8. ValueIn(entries, call.key) = None
    BY <2>1, <2>5, <2>6, ValueInFacts
  <2>9. Map!Insert(call.key, call.value)
    BY <2>1, <2>2, <2>7, <2>8 DEF Map!Insert
  <2> QED BY <2>1, <2>9 DEF Map!Next
<1> QED BY <1>1, <1>2

LEMMA RemoveRefines ==
  ASSUME MapInv, MapInv', RemoveEntry
  PROVE  Map!Next \/ UNCHANGED <<Contents(entries), answer>>
<1>1. CASE ~ Hit
  BY <1>1, Unchanged DEF RemoveEntry
<1>2. CASE Hit
  <2>1. entries' = RemoveAt(entries, mid) /\ answer' = answer /\ pc = "found"
    BY <1>2 DEF RemoveEntry
  <2>2. mid \in 1 .. Len(entries) /\ entries \in Seq(Entry) /\ entries[mid].key = call.key
    BY <1>2, <2>1 DEF MapInv, FoundInv, TypeOK, Hit, size
  <2>3. Distinct(entries) /\ Distinct(RemoveAt(entries, mid))
    BY <2>1 DEF MapInv, KeysDiffer, Distinct, size
  <2>4. ASSUME NEW k \in Keys
        PROVE  ValueIn(entries', k) = IF k = call.key THEN None ELSE ValueIn(entries, k)
    <3>1. ValueIn(RemoveAt(entries, mid), k) = IF k = entries[mid].key THEN None ELSE ValueIn(entries, k)
      BY <2>2, <2>3, ValueAfterRemove
    <3> QED BY <2>1, <2>2, <3>1
  <2>5. call.key \in Keys
    BY Types DEF MapInv
  <2>6. Map!Remove(call.key)
    BY <2>1, <2>4, <2>5 DEF Map!Remove
  <2> QED BY <2>5, <2>6 DEF Map!Next
<1> QED BY <1>1, <1>2

LEMMA GetRefines ==
  ASSUME MapInv, ReadEntry
  PROVE  Map!Next
<1>1. entries' = entries /\ pc = "found" /\ call.key \in Keys
  BY Types DEF ReadEntry, MapInv
<1>2. Distinct(entries)
  BY DEF MapInv, KeysDiffer, Distinct, size
<1>3. answer' = ValueIn(entries, call.key)
  <2>1. CASE Hit
    <3>1. mid \in 1 .. Len(entries)
      BY <1>1 DEF MapInv, FoundInv, size
    <3>2. ValueIn(entries, entries[mid].key) = entries[mid].value
      BY <1>2, <3>1, ValueInFacts
    <3> QED BY <2>1, <3>2 DEF ReadEntry, Hit
  <2>2. CASE ~ Hit
    <3>1. \A i \in 1 .. Len(entries) : entries[i].key # call.key
      BY <1>1, <2>2, NoHitNoKey DEF size
    <3> QED BY <1>2, <2>2, <3>1, ValueInFacts DEF ReadEntry
  <2> QED BY <2>1, <2>2
<1>4. Map!Get(call.key)
  BY <1>1, <1>3 DEF Map!Get
<1> QED BY <1>1, <1>4 DEF Map!Next

(* mcbsp_util_address_map_insert, _remove and _get are the operations of a
   map: every lookup returns what was inserted first since the key was
   last removed, for any addresses inserted in any order. *)
THEOREM MapRefinement == Spec => ImplementsMap
<1>1. Init => Map!Init
  <2> SUFFICES ASSUME Init PROVE Map!Init
    OBVIOUS
  <2>1. \A k \in Keys : ValueIn(entries, k) = None
    BY DEF Init, ValueIn
  <2> QED BY <2>1 DEF Init, Map!Init
<1>2. ASSUME MapInv, MapInv', [Next]_vars
      PROVE  Map!Next \/ UNCHANGED <<Contents(entries), answer>>
  <2>1. ASSUME NEW c \in Call, CallOnEmpty(c)
        PROVE  Map!Next \/ UNCHANGED <<Contents(entries), answer>>
    BY <1>2, <2>1, EmptyCallRefines
  <2>2. ASSUME NEW c \in Call, Binsearch(c)
        PROVE  UNCHANGED <<Contents(entries), answer>>
    BY <2>2, Unchanged DEF Binsearch
  <2>3. CASE Halve
    BY <2>3, Unchanged DEF Halve
  <2>4. CASE InsertEntry
    BY <1>2, <2>4, InsertRefines
  <2>5. CASE RemoveEntry
    BY <1>2, <2>5, RemoveRefines
  <2>6. CASE ReadEntry
    BY <1>2, <2>6, GetRefines
  <2>7. CASE UNCHANGED vars
    BY <2>7, Unchanged DEF vars
  <2> QED BY <1>2, <2>1, <2>2, <2>3, <2>4, <2>5, <2>6, <2>7 DEF Next
<1>3. MapInv /\ MapInv' /\ [Next]_vars
        => [Map!Next]_<<[k \in Keys |-> ValueIn(entries, k)], answer>>
  BY <1>2 DEF Contents
<1> QED BY <1>1, <1>3, MapInvariant, PTL DEF Spec, ImplementsMap, Map!Spec
----
(* Pinning.  First the arithmetic. *)

LEMMA LeastNumber ==
  ASSUME NEW T, T \subseteq Nat, T # {}
  PROVE  \E m \in T : \A k \in T : m <= k
<1>1. PICK m \in T : \A k \in T : <<k, m>> \notin OpToRel(<, Nat)
  BY WFMin, NatLessThanWellFounded, Zenon
<1>2. \A k \in T : ~ (k < m)
  BY <1>1, Zenon DEF OpToRel
<1> QED BY <1>2

(* Division with remainder. *)
LEMMA DivMod ==
  ASSUME NEW a \in Nat, NEW d \in Nat \ {0}
  PROVE  /\ a \div d \in Nat /\ a % d \in 0 .. d-1
         /\ a = d * (a \div d) + (a % d)
OBVIOUS

LEMMA DivModIs ==
  ASSUME NEW d \in Nat \ {0}, NEW q \in Nat, NEW r \in 0 .. d-1
  PROVE  (d * q + r) % d = r /\ (d * q + r) \div d = q
OBVIOUS

(* The quotient is the largest number whose product is not larger. *)
LEMMA QuotientIs ==
  ASSUME NEW a \in Nat, NEW d \in Nat \ {0}, NEW q \in Nat
  PROVE  q <= a \div d <=> d * q <= a
<1>1. PICK u \in Nat, r \in 0 .. d-1 : a = d * u + r /\ u = a \div d
  BY DivMod
<1>2. ASSUME q <= u
      PROVE  d * q <= d * u
  <2>1. PICK v \in Nat : u = q + v
    BY <1>2
  <2>2. d * u = d * q + d * v /\ d * v \in Nat
    BY <2>1
  <2> QED BY <2>2
<1>3. ASSUME u < q
      PROVE  d * u + d <= d * q
  <2>1. PICK v \in Nat : q = u + 1 + v
    <3> DEFINE v == q - u - 1
    <3>1. v \in Nat /\ q = u + 1 + v
      BY <1>3
    <3> QED BY <3>1
  <2>2. d * q = d * u + d + d * v /\ d * v \in Nat
    BY <2>1
  <2> QED BY <2>2
<1>4. d * q \in Nat /\ d * u \in Nat
  OBVIOUS
<1> QED BY <1>1, <1>2, <1>3, <1>4

LEMMA QuotientBelow ==
  ASSUME NEW a \in Nat, NEW d \in Nat \ {0}, NEW q \in Nat, a < d * q
  PROVE  a \div d < q
<1>1. d * q \in Nat /\ ~ (d * q <= a)
  OBVIOUS
<1>2. ~ (q <= a \div d)
  BY <1>1, QuotientIs
<1> QED BY <1>2, DivMod

LEMMA QuotientsGrow ==
  ASSUME NEW a \in Nat, NEW b \in Nat, NEW d \in Nat \ {0}, a <= b
  PROVE  a \div d <= b \div d
<1>1. a \div d \in Nat /\ d * (a \div d) <= a /\ d * (a \div d) \in Nat
  BY DivMod
<1>2. d * (a \div d) <= b
  BY <1>1
<1> QED BY <1>1, <1>2, QuotientIs

(* The scattered starts of n processes on M threads are M \div n apart. *)
LEMMA ScatterGrows ==
  ASSUME NEW M \in Nat, NEW n \in Nat \ {0}, NEW s \in Nat, NEW t \in Nat, s < t
  PROVE  ((s * M) \div n) + (M \div n) <= (t * M) \div n
<1> DEFINE x == (s * M) \div n
           y == M \div n
<1>1. s * M \in Nat /\ t * M \in Nat
  OBVIOUS
<1>2. x \in Nat /\ n * x <= s * M /\ n * x \in Nat
  BY <1>1, DivMod
<1>3. y \in Nat /\ n * y <= M /\ n * y \in Nat
  BY DivMod
<1>4. n * (x + y) = n * x + n * y
  BY <1>2, <1>3
<1>5. s * M + M <= t * M
  <2>1. PICK v \in Nat : t = s + 1 + v
    <3> DEFINE v == t - s - 1
    <3>1. v \in Nat /\ t = s + 1 + v
      OBVIOUS
    <3> QED BY <3>1
  <2>2. t * M = s * M + M + v * M /\ v * M \in Nat
    BY <2>1
  <2> QED BY <1>1, <2>2
<1>6. n * (x + y) <= t * M
  BY <1>1, <1>2, <1>3, <1>4, <1>5
<1>7. x + y \in Nat
  BY <1>2, <1>3
<1> HIDE DEF x, y
<1>8. x + y <= (t * M) \div n
  BY <1>1, <1>6, <1>7, QuotientIs
<1> QED BY <1>8 DEF x, y

(* They end at the last thread. *)
LEMMA ScatterFits ==
  ASSUME NEW M \in Nat, NEW n \in Nat \ {0}, NEW s \in 0 .. n-1
  PROVE  /\ (s * M) \div n \in Nat
         /\ M \div n \in Nat
         /\ ((s * M) \div n) + (M \div n) <= M
<1>1. ((s * M) \div n) + (M \div n) <= (n * M) \div n
  BY ScatterGrows
<1>2. (n * M + 0) \div n = M /\ n * M + 0 = n * M
  BY DivModIs
<1>3. s * M \in Nat
  OBVIOUS
<1> QED BY <1>1, <1>2, <1>3, DivMod
----
(* The list of reserved cores, in order. *)

InOrder(list) == \A i, j \in 1 .. Len(list) : i < j => list[i] <= list[j]

(* p arranges the list in ascending order. *)
Arranges(p, list) ==
  /\ p \in [1 .. Len(list) -> 1 .. Len(list)]
  /\ \A i, j \in 1 .. Len(list) : p[i] = p[j] => i = j
  /\ \A i, j \in 1 .. Len(list) : i < j => list[p[i]] <= list[p[j]]

(* One more element is inserted before the first that is not smaller. *)
LEMMA ArrangeOneMore ==
  ASSUME NEW n \in Nat, NEW list \in Seq(Nat), Len(list) = n + 1,
         NEW q, Arranges(q, SubSeq(list, 1, n))
  PROVE  \E p : Arranges(p, list)
<1> DEFINE front == SubSeq(list, 1, n)
           x == list[n+1]
           T == {k \in 1 .. n+1 : k = n+1 \/ x <= list[q[k]]}
<1>1. Len(front) = n /\ \A i \in 1 .. n : front[i] = list[i]
  OBVIOUS
<1>2. /\ q \in [1 .. n -> 1 .. n]
      /\ \A i, j \in 1 .. n : q[i] = q[j] => i = j
      /\ \A i, j \in 1 .. n : i < j => list[q[i]] <= list[q[j]]
  BY <1>1 DEF Arranges
<1>3. x \in Nat /\ \A i \in 1 .. n+1 : list[i] \in Nat
  OBVIOUS
<1>q. \A k \in 1 .. n : q[k] \in 1 .. n /\ q[k] \in 1 .. n+1 /\ list[q[k]] \in Nat
  <2> HIDE DEF front, x, T
  <2> SUFFICES ASSUME NEW k \in 1 .. n
               PROVE  q[k] \in 1 .. n /\ q[k] \in 1 .. n+1 /\ list[q[k]] \in Nat
    OBVIOUS
  <2>1. q[k] \in 1 .. n
    BY <1>2
  <2>2. q[k] \in 1 .. n+1
    BY <2>1
  <2> QED BY <1>3, <2>1, <2>2
<1>4. PICK z \in T : \A k \in T : z <= k
  <2>1. T \subseteq Nat /\ n + 1 \in T
    OBVIOUS
  <2> QED BY <2>1, LeastNumber
<1> DEFINE p == [i \in 1 .. n+1 |-> IF i < z THEN q[i] ELSE IF i = z THEN n + 1 ELSE q[i-1]]
<1> HIDE DEF front
<1>5. z \in 1 .. n+1 /\ \A k \in 1 .. n : (k < z => list[q[k]] <= x) /\ (k >= z => x <= list[q[k]])
  <2>1. z \in 1 .. n+1
    OBVIOUS
  <2>2. ASSUME NEW k \in 1 .. n, k < z
        PROVE  list[q[k]] <= x
    <3>1. k \notin T
      BY <1>4, <2>1, <2>2
    <3>2. list[q[k]] \in Nat
      BY <1>q
    <3> QED BY <1>3, <3>1, <3>2
  <2>3. ASSUME NEW k \in 1 .. n, k >= z
        PROVE  x <= list[q[k]]
    <3>1. x <= list[q[z]] /\ z \in 1 .. n
      BY <2>1, <2>3
    <3>2. z = k \/ list[q[z]] <= list[q[k]]
      BY SMTT(30), <1>2, <2>3, <3>1
    <3>3. list[q[z]] \in Nat /\ list[q[k]] \in Nat
      BY <1>q, <3>1
    <3> QED BY <1>3, <3>1, <3>2, <3>3
  <2> QED BY <2>1, <2>2, <2>3
<1> HIDE DEF T, x
<1>6. p \in [1 .. n+1 -> 1 .. n+1]
  BY <1>2, <1>5
<1>7. ASSUME NEW i \in 1 .. n+1, NEW j \in 1 .. n+1, p[i] = p[j]
      PROVE  i = j
  <2> DEFINE from(k) == IF k < z THEN k ELSE k - 1
  <2>1. \A k \in 1 .. n+1 : k # z => from(k) \in 1 .. n /\ p[k] = q[from(k)]
    BY <1>5
  <2>2. p[z] = n + 1
    BY <1>5
  <2>3. CASE i # z /\ j # z
    <3>1. from(i) = from(j)
      BY <1>2, <1>7, <2>1, <2>3
    <3> QED BY <1>5, <2>3, <3>1
  <2>4. \A k \in 1 .. n+1 : k # z => p[k] # p[z]
    BY <1>q, <2>1, <2>2
  <2> QED BY <1>7, <2>3, <2>4
<1>8. ASSUME NEW i \in 1 .. n+1, NEW j \in 1 .. n+1, i < j
      PROVE  list[p[i]] <= list[p[j]]
  <2>0. p[i] \in 1 .. n+1 /\ p[j] \in 1 .. n+1
    BY <1>6
  <2>1. CASE j < z
    <3>1. i \in 1 .. n /\ j \in 1 .. n /\ p[i] = q[i] /\ p[j] = q[j]
      BY <1>5, <1>8, <2>1
    <3> QED BY <1>2, <1>8, <3>1
  <2>2. CASE j = z
    <3>1. i \in 1 .. n /\ list[q[i]] <= x
      BY <1>5, <1>8, <2>2
    <3>2. p[i] = q[i] /\ p[j] = n + 1
      BY <1>8, <2>2
    <3> QED BY <3>1, <3>2 DEF x
  <2>3. CASE j > z /\ i = z
    <3>1. j - 1 \in 1 .. n /\ x <= list[q[j-1]]
      BY <1>5, <2>3
    <3>2. p[i] = n + 1 /\ p[j] = q[j-1]
      BY <1>5, <2>3
    <3> QED BY <3>1, <3>2 DEF x
  <2>4. CASE j > z /\ i < z
    <3>1. i \in 1 .. n /\ j - 1 \in 1 .. n /\ i <= j - 1
      BY <1>5, <2>4
    <3>2. p[i] = q[i] /\ p[j] = q[j-1]
      BY <1>5, <2>4
    <3>3. i = j - 1 \/ list[q[i]] <= list[q[j-1]]
      BY SMTT(30), <1>2, <3>1
    <3>4. list[q[j-1]] <= list[q[j-1]]
      BY <1>q, <3>1
    <3> HIDE DEF p
    <3> QED BY <3>2, <3>3, <3>4
  <2>5. CASE j > z /\ i > z
    <3>1. i - 1 \in 1 .. n /\ j - 1 \in 1 .. n /\ i - 1 < j - 1
      BY <1>5, <1>8, <2>5
    <3>2. p[i] = q[i-1] /\ p[j] = q[j-1]
      BY <1>5, <2>5
    <3>3. list[q[i-1]] <= list[q[j-1]]
      BY <1>2, <3>1
    <3> HIDE DEF p
    <3> QED BY <3>2, <3>3
  <2> QED BY <1>5, <2>1, <2>2, <2>3, <2>4, <2>5
<1> HIDE DEF p
<1> QED BY <1>6, <1>7, <1>8 DEF Arranges

LEMMA Arrangement ==
  ASSUME NEW list \in Seq(Nat)
  PROVE  \E p : Arranges(p, list)
<1> DEFINE Fails(n) == \E l \in Seq(Nat) : Len(l) = n /\ ~ \E p : Arranges(p, l)
           T == {n \in Nat : Fails(n)}
<1>1. ASSUME T # {}
      PROVE  FALSE
  <2>1. PICK n \in T : \A k \in T : n <= k
    <3>1. T \subseteq Nat
      OBVIOUS
    <3> QED BY <1>1, <3>1, LeastNumber
  <2>2. PICK l \in Seq(Nat) : Len(l) = n /\ ~ \E p : Arranges(p, l)
    OBVIOUS
  <2>3. CASE n = 0
    <3>1. Arranges(<<>>, l)
      BY <2>2, <2>3 DEF Arranges
    <3> QED BY <2>2, <3>1
  <2>4. CASE n # 0
    <3> DEFINE m == n - 1
               front == SubSeq(l, 1, m)
    <3>1. m \in Nat /\ n = m + 1 /\ m \notin T
      BY <2>1, <2>4
    <3>2. front \in Seq(Nat) /\ Len(front) = m
      BY <2>2, <3>1
    <3>3. \E q : Arranges(q, front)
      <4> HIDE DEF front
      <4>1. ~ Fails(m)
        BY <3>1
      <4> QED BY <3>2, <4>1
    <3>4. PICK q : Arranges(q, front)
      BY <3>3
    <3>5. \E p : Arranges(p, l)
      BY <2>2, <3>1, <3>4, ArrangeOneMore
    <3> QED BY <2>2, <3>5
  <2> QED BY <2>3, <2>4
<1>2. Len(list) \in Nat /\ ~ Fails(Len(list))
  BY <1>1
<1> QED BY <1>2

(* Sorting: the same elements, in order. *)
LEMMA AscendingFacts ==
  ASSUME NEW list \in Seq(Nat)
  PROVE  \E p : /\ Arranges(p, list)
                /\ Pin!Ascending(list) = [i \in 1 .. Len(list) |-> list[p[i]]]
<1> DEFINE places == 1 .. Len(list)
           Good(p) == /\ Pin!IsInjective(p)
                      /\ \A i, j \in places : i < j => list[p[i]] <= list[p[j]]
           order == CHOOSE p \in [places -> places] : Good(p)
<1>1. PICK q : Arranges(q, list)
  BY Arrangement
<1>2. q \in [places -> places] /\ Good(q)
  BY <1>1 DEF Arranges, Pin!IsInjective
<1>3. order \in [places -> places] /\ Good(order)
  BY <1>2
<1> HIDE DEF order
<1>4. Arranges(order, list)
  BY <1>3 DEF Arranges, Pin!IsInjective
<1> USE DEF order
<1>5. Pin!Ascending(list) = [i \in places |-> list[order[i]]]
  BY DEF Pin!Ascending
<1> HIDE DEF order
<1> QED BY <1>4, <1>5

LEMMA AscendingInOrder ==
  ASSUME NEW list \in Seq(Nat)
  PROVE  /\ Pin!Ascending(list) \in Seq(Nat)
         /\ Len(Pin!Ascending(list)) = Len(list)
         /\ InOrder(Pin!Ascending(list))
<1>1. PICK p : /\ Arranges(p, list)
               /\ Pin!Ascending(list) = [i \in 1 .. Len(list) |-> list[p[i]]]
  BY AscendingFacts
<1> DEFINE r == [i \in 1 .. Len(list) |-> list[p[i]]]
<1>2. \A i \in 1 .. Len(list) : p[i] \in 1 .. Len(list) /\ list[p[i]] \in Nat
  BY <1>1 DEF Arranges
<1>3. r \in Seq(Nat) /\ Len(r) = Len(list)
  BY <1>2, IsASeq
<1>4. InOrder(r)
  BY <1>1, <1>3 DEF InOrder, Arranges
<1> QED BY <1>1, <1>3, <1>4

Collides(g, a, b) == \E x, y \in a .. b : x # y /\ g[x] = g[y]

LEMMA TooFew ==
  ASSUME NEW a \in Int, NEW b \in Int, NEW c \in Int, NEW d \in Int,
         a <= b, d - c < b - a, NEW g \in [a .. b -> c .. d]
  PROVE  Collides(g, a, b)
<1>1. IsFiniteSet(a .. b) /\ Cardinality(a .. b) = b - a + 1
  BY FS_Interval
<1>2. IsFiniteSet(c .. d) /\ Cardinality(c .. d) = IF c > d THEN 0 ELSE d - c + 1
  BY FS_Interval
<1>3. Cardinality(c .. d) < Cardinality(a .. b)
  BY <1>1, <1>2
<1> QED BY <1>1, <1>2, <1>3, FS_PigeonHole DEF Collides

(* No arrangement of a list in order changes it. *)
LEMMA Unscrambled ==
  ASSUME NEW r \in Seq(Nat), InOrder(r), NEW p, Arranges(p, r), NEW i \in 1 .. Len(r)
  PROVE  r[p[i]] = r[i]
<1> DEFINE n == Len(r)
<1>a. /\ n \in Nat /\ p \in [1 .. n -> 1 .. n]
      /\ \A k \in 1 .. n : r[k] \in Nat
      /\ \A j, k \in 1 .. n : p[j] = p[k] => j = k
  BY DEF Arranges
<1>b. \A k \in 1 .. n : p[k] \in 1 .. n /\ r[p[k]] \in Nat
  BY <1>a
<1>c. \A j, k \in 1 .. n : j <= k => r[j] <= r[k] /\ r[p[j]] <= r[p[k]]
  <2> SUFFICES ASSUME NEW j \in 1 .. n, NEW k \in 1 .. n, j <= k
               PROVE  r[j] <= r[k] /\ r[p[j]] <= r[p[k]]
    OBVIOUS
  <2>0. r[j] \in Nat /\ r[p[j]] \in Nat
    BY <1>a, <1>b
  <2>1. CASE j = k
    BY <2>0, <2>1
  <2>2. CASE j < k
    <3>1. r[j] <= r[k]
      BY <2>2 DEF InOrder, n
    <3>2. r[p[j]] <= r[p[k]]
      BY <2>2 DEF Arranges, n
    <3> QED BY <3>1, <3>2
  <2>3. j \in Int /\ k \in Int
    OBVIOUS
  <2> QED BY <2>1, <2>2, <2>3
<1>0. /\ n \in Nat
      /\ \A k \in 1 .. n : r[k] \in Nat /\ r[p[k]] \in Nat /\ p[k] \in 1 .. n
      /\ \A j, k \in 1 .. n : p[j] = p[k] => j = k
      /\ \A j, k \in 1 .. n : j <= k => r[j] <= r[k] /\ r[p[j]] <= r[p[k]]
  BY <1>a, <1>b, <1>c
<1> HIDE DEF n
<1>i. i \in 1 .. n
  BY DEF n
<1>1. ASSUME r[p[i]] < r[i]
      PROVE  FALSE
  <2> DEFINE g == [j \in 1 .. i |-> p[j]]
  <2>1. ASSUME NEW j \in 1 .. i
        PROVE  p[j] \in 1 .. i - 1
    <3>0. j \in 1 .. n /\ j <= i
      BY <1>0, <1>i
    <3>1. r[p[j]] < r[i] /\ p[j] \in 1 .. n /\ j \in 1 .. n
      BY SMTT(30), <1>0, <1>1, <1>i, <3>0
    <3>2. ~ (i <= p[j])
      BY <1>0, <1>i, <3>1
    <3> QED BY <1>i, <3>1, <3>2
  <2>2. g \in [1 .. i -> 1 .. i - 1]
    BY <2>1
  <2>3. Collides(g, 1, i)
    <3>1. 1 \in Int /\ i \in Int /\ i - 1 \in Int /\ 1 <= i /\ (i - 1) - 1 < i - 1
      BY <1>0, <1>i
    <3> HIDE DEF g
    <3> QED BY <2>2, <3>1, TooFew, Zenon
  <2> QED BY <1>0, <1>i, <2>3 DEF Collides
<1>2. ASSUME r[i] < r[p[i]]
      PROVE  FALSE
  <2> DEFINE g == [j \in i .. n |-> p[j]]
  <2>1. ASSUME NEW j \in i .. n
        PROVE  p[j] \in i + 1 .. n
    <3>0. j \in 1 .. n /\ i <= j
      BY <1>0, <1>i
    <3>1. r[i] < r[p[j]] /\ p[j] \in 1 .. n /\ j \in 1 .. n
      BY <1>0, <1>2, <1>i, <3>0
    <3>2. ~ (p[j] <= i)
      BY <1>0, <1>i, <3>1
    <3> QED BY <1>i, <3>1, <3>2
  <2>2. g \in [i .. n -> i + 1 .. n]
    BY <2>1
  <2>3. Collides(g, i, n)
    <3>1. n - (i + 1) < n - i /\ i <= n /\ i \in Int /\ i + 1 \in Int /\ n \in Int
      BY <1>0, <1>i
    <3> HIDE DEF g
    <3> QED BY <2>2, <3>1, TooFew, Zenon
  <2> QED BY <1>0, <1>i, <2>3 DEF Collides
<1> QED BY <1>0, <1>1, <1>2, <1>i
----
(* The lower bound.  mcbsp_util_array_sizet_lbound halves a range of
   indices; the function that says what it returns for each range exists,
   as every range is halved into a shorter one. *)

AtIndex(list, k) == IF k < Len(list) THEN list[k + 1] ELSE stray

MiddleOf(b) == b[1] + ((b[2] - b[1]) \div 2)

HalfOf(list, key, b) ==
  IF AtIndex(list, MiddleOf(b)) > key THEN <<b[1], MiddleOf(b)>> ELSE <<MiddleOf(b), b[2]>>

Found(list, key, h, b) ==
  IF AtIndex(list, MiddleOf(b)) = key THEN MiddleOf(b)
  ELSE IF HalfOf(list, key, b)[2] - HalfOf(list, key, b)[1] <= 1 THEN HalfOf(list, key, b)[1]
  ELSE h[HalfOf(list, key, b)]

Ranges(list) == (0 .. Len(list)) \X (0 .. Len(list))

IsSearch(list, key, h) == h = [b \in Ranges(list) |-> Found(list, key, h, b)]

LEMMA HalfFacts ==
  ASSUME NEW list, Len(list) \in Nat, NEW key, NEW b \in Ranges(list)
  PROVE  LET c == HalfOf(list, key, b)
         IN  c[2] - c[1] <= 1 \/ (c \in Ranges(list) /\ c[2] - c[1] < b[2] - b[1])
<1>1. PICK x \in 0 .. Len(list), y \in 0 .. Len(list) : b = <<x, y>>
  BY DEF Ranges
<1>2. b[1] = x /\ b[2] = y
  BY <1>1
<1> DEFINE m == x + ((y - x) \div 2)
<1>3. m \in Int /\ MiddleOf(b) = m
  BY <1>2 DEF MiddleOf
<1>4. CASE y - x <= 1
  <2>1. m - x <= 1 /\ y - m <= 1
    BY <1>4
  <2> QED BY <1>2, <1>3, <2>1 DEF HalfOf
<1>5. CASE y - x >= 2
  <2>1. m \in 0 .. Len(list) /\ x < m /\ m < y
    BY <1>5
  <2> HIDE DEF m
  <2>2. CASE AtIndex(list, m) > key
    <3>1. HalfOf(list, key, b) = <<x, m>>
      BY <1>2, <1>3, <2>2 DEF HalfOf
    <3>2. <<x, m>> \in Ranges(list) /\ m - x < y - x
      BY <2>1 DEF Ranges
    <3> QED BY <1>2, <3>1, <3>2
  <2>3. CASE ~ (AtIndex(list, m) > key)
    <3>1. HalfOf(list, key, b) = <<m, y>>
      BY <1>2, <1>3, <2>3 DEF HalfOf
    <3>2. <<m, y>> \in Ranges(list) /\ y - m < y - x
      BY <2>1 DEF Ranges
    <3> QED BY <1>2, <3>1, <3>2
  <2> QED BY <2>2, <2>3
<1> QED BY <1>4, <1>5

SearchesUpTo(list, key, h, w) ==
  \A b \in Ranges(list) : b[2] - b[1] <= w => h[b] = Found(list, key, h, b)

LEMMA WidthType ==
  ASSUME NEW list, Len(list) \in Nat, NEW b \in Ranges(list)
  PROVE  b[2] - b[1] \in Int /\ b[2] - b[1] <= Len(list)
BY DEF Ranges

LEMMA SearchFurther ==
  ASSUME NEW list, Len(list) \in Nat, NEW key, NEW w \in Nat,
         NEW h, SearchesUpTo(list, key, h, w)
  PROVE  \E g : SearchesUpTo(list, key, g, w + 1)
<1> DEFINE g == [b \in Ranges(list) |-> IF b[2] - b[1] <= w THEN h[b] ELSE Found(list, key, h, b)]
<1>1. ASSUME NEW b \in Ranges(list), b[2] - b[1] <= w + 1
      PROVE  Found(list, key, h, b) = Found(list, key, g, b)
  <2> DEFINE c == HalfOf(list, key, b)
  <2>1. CASE c[2] - c[1] <= 1
    BY <2>1 DEF Found
  <2>2. CASE c \in Ranges(list) /\ c[2] - c[1] < b[2] - b[1]
    <3>1. c[2] - c[1] <= w
      BY <1>1, <2>2, WidthType
    <3>2. g[c] = h[c]
      BY <2>2, <3>1
    <3> HIDE DEF g
    <3> QED BY <3>2 DEF Found
  <2> QED BY <2>1, <2>2, HalfFacts
<1>2. ASSUME NEW b \in Ranges(list), b[2] - b[1] <= w + 1
      PROVE  g[b] = Found(list, key, h, b)
  BY DEF SearchesUpTo
<1> HIDE DEF g
<1>3. SearchesUpTo(list, key, g, w + 1)
  BY <1>1, <1>2 DEF SearchesUpTo
<1> QED BY <1>3

LEMMA SearchOfAny ==
  ASSUME NEW list, Len(list) \in Nat, NEW key, NEW w \in Nat
  PROVE  \E h : SearchesUpTo(list, key, h, w)
<1> DEFINE Has(u) == \E h : SearchesUpTo(list, key, h, u)
           T == {u \in Nat : ~ Has(u)}
<1>1. Has(0)
  <2> DEFINE h == [b \in Ranges(list) |-> Found(list, key, <<>>, b)]
  <2>1. ASSUME NEW b \in Ranges(list), b[2] - b[1] <= 0
        PROVE  h[b] = Found(list, key, h, b)
    <3> DEFINE c == HalfOf(list, key, b)
    <3>1. c[2] - c[1] <= 1
      <4>1. CASE c \in Ranges(list) /\ c[2] - c[1] < b[2] - b[1]
        BY <2>1, <4>1, WidthType
      <4> QED BY <4>1, HalfFacts
    <3>2. Found(list, key, <<>>, b) = Found(list, key, h, b)
      BY <3>1 DEF Found
    <3> QED BY <3>2
  <2> HIDE DEF h
  <2> QED BY <2>1 DEF SearchesUpTo
<1>2. ASSUME T # {}
      PROVE  FALSE
  <2>1. PICK u \in T : \A k \in T : u <= k
    <3>1. T \subseteq Nat
      OBVIOUS
    <3> QED BY <1>2, <3>1, LeastNumber
  <2>2. u \in Nat /\ ~ Has(u)
    OBVIOUS
  <2> DEFINE v == u - 1
  <2>3. u # 0
    BY <1>1, <2>2
  <2>4. v \in Nat /\ u = v + 1 /\ v \notin T
    BY <2>1, <2>2, <2>3
  <2>5. Has(v)
    BY <2>4
  <2> HIDE DEF v
  <2>6. Has(v + 1)
    BY <2>4, <2>5, SearchFurther
  <2> QED BY <2>2, <2>4, <2>6
<1> QED BY <1>2

LEMMA SearchExists ==
  ASSUME NEW list, Len(list) \in Nat, NEW key
  PROVE  \E h : IsSearch(list, key, h)
<1>1. PICK g : SearchesUpTo(list, key, g, Len(list))
  BY SearchOfAny
<1> DEFINE h == [b \in Ranges(list) |-> g[b]]
<1>2. ASSUME NEW b \in Ranges(list)
      PROVE  h[b] = Found(list, key, h, b)
  <2>1. h[b] = Found(list, key, g, b)
    BY <1>1, WidthType DEF SearchesUpTo
  <2> DEFINE c == HalfOf(list, key, b)
  <2>2. c[2] - c[1] <= 1 \/ h[c] = g[c]
    BY HalfFacts
  <2>3. Found(list, key, g, b) = Found(list, key, h, b)
    <3> HIDE DEF h
    <3> QED BY <2>2 DEF Found
  <2> QED BY <2>1, <2>3
<1>3. h = [b \in Ranges(list) |-> Found(list, key, h, b)]
  BY <1>2
<1> HIDE DEF h
<1> QED BY <1>3 DEF IsSearch

(* Where the search ends: at the key, or before the first larger element. *)
Splits(list, key, k) ==
  /\ k \in 0 .. Len(list) - 1
  /\ list[k + 1] = key \/ (list[k + 1] < key /\ key < AtIndex(list, k + 1))

LEMMA HalfBetween ==
  ASSUME NEW u \in Nat, NEW v \in Nat, u < v
  PROVE  u + ((v - u) \div 2) \in u .. v - 1
  OBVIOUS

LEMMA SearchSplits ==
  ASSUME NEW list \in Seq(Nat), stray \in Nat, NEW key \in Nat, NEW h, IsSearch(list, key, h),
         NEW x \in 0 .. Len(list), NEW y \in 0 .. Len(list), x < y,
         AtIndex(list, x) < key, key < AtIndex(list, y)
  PROVE  Splits(list, key, h[<<x, y>>])
<1> DEFINE n == Len(list)
           Good(u, v) == AtIndex(list, u) < key /\ key < AtIndex(list, v)
           T == {w \in Nat : \E u \in 0 .. n, v \in 0 .. n :
                   u < v /\ v - u = w /\ Good(u, v) /\ ~ Splits(list, key, h[<<u, v>>])}
<1>0. n \in Nat /\ \A k \in 0 .. n : AtIndex(list, k) \in Nat
  BY DEF AtIndex
<1>1. ASSUME T # {}
      PROVE  FALSE
  <2>1. PICK w \in T : \A k \in T : w <= k
    <3>1. T \subseteq Nat
      OBVIOUS
    <3> QED BY <1>1, <3>1, LeastNumber
  <2>2. PICK u \in 0 .. n, v \in 0 .. n :
          u < v /\ v - u = w /\ Good(u, v) /\ ~ Splits(list, key, h[<<u, v>>])
    OBVIOUS
  <2> DEFINE b == <<u, v>>
             m == u + ((v - u) \div 2)
  <2>3. b \in Ranges(list) /\ b[1] = u /\ b[2] = v
    BY DEF Ranges
  <2>4. h[b] = Found(list, key, h, b)
    BY <2>3 DEF IsSearch
  <2>5. MiddleOf(b) = m /\ m \in u .. v - 1 /\ m \in 0 .. n
    <3>0. u \in Nat /\ v \in Nat /\ u < v
      BY <1>0, <2>2
    <3>1. m \in u .. v - 1
      <4> HIDE DEF T, Good, n
      <4> QED BY <3>0, HalfBetween
    <3> HIDE DEF n
    <3> QED BY <1>0, <2>2, <3>1 DEF MiddleOf
  <2>6. ASSUME NEW s \in 0 .. n, NEW t \in 0 .. n, s < t, t - s < w, Good(s, t)
        PROVE  Splits(list, key, h[<<s, t>>])
    <3> DEFINE d == t - s
    <3>1. d \in Nat /\ ~ (w <= d)
      BY <2>2, <2>6
    <3>2. d \notin T
      <4> HIDE DEF T, d
      <4> QED BY <2>1, <3>1
    <3> HIDE DEF n, Good
    <3> QED BY <2>6, <3>1, <3>2
  <2> HIDE DEF T, b, m
  <2>7. CASE AtIndex(list, m) = key
    <3>1. h[b] = m
      BY <2>4, <2>5, <2>7 DEF Found
    <3>2. m \in 0 .. n - 1 /\ AtIndex(list, m) = list[m + 1]
      BY SMTT(30), <1>0, <2>2, <2>5 DEF AtIndex
    <3> QED BY <2>2, <2>7, <3>1, <3>2 DEF Splits, b
  <2>8. CASE AtIndex(list, m) > key
    <3>1. HalfOf(list, key, b) = <<u, m>>
      BY <2>3, <2>5, <2>8 DEF HalfOf
    <3>2. u < m /\ m < v /\ m \in 0 .. n /\ Good(u, m) /\ AtIndex(list, m) # key
      <4>1. m # u
        BY <1>0, <2>2, <2>8
      <4> QED BY <1>0, <2>2, <2>5, <2>8, <4>1
    <3>3. CASE m - u <= 1
      <4>1. h[b] = u
        BY <2>4, <2>5, <3>1, <3>2, <3>3 DEF Found
      <4>2. m = u + 1 /\ u \in 0 .. n - 1 /\ AtIndex(list, u) = list[u + 1]
        BY <1>0, <3>2, <3>3 DEF AtIndex
      <4> QED BY <2>2, <3>2, <4>1, <4>2 DEF Splits, b
    <3>4. CASE ~ (m - u <= 1)
      <4>1. h[b] = h[<<u, m>>]
        BY <2>4, <2>5, <3>1, <3>2, <3>4 DEF Found
      <4>2. m - u < w
        BY <2>2, <3>2
      <4> QED BY <2>2, <2>6, <3>2, <4>1, <4>2 DEF b
    <3> QED BY <3>3, <3>4
  <2>9. CASE AtIndex(list, m) < key
    <3>1. HalfOf(list, key, b) = <<m, v>>
      <4>0. AtIndex(list, m) \in Nat
        BY <1>0, <2>5
      <4>1. ~ (AtIndex(list, m) > key)
        BY <2>9, <4>0
      <4> QED BY <2>3, <2>5, <4>1 DEF HalfOf
    <3>2. m < v /\ m \in 0 .. n /\ Good(m, v) /\ AtIndex(list, m) # key
      BY <1>0, <2>2, <2>5, <2>9
    <3>3. CASE v - m <= 1
      <4>1. h[b] = m
        BY <2>4, <2>5, <3>1, <3>2, <3>3 DEF Found
      <4>2. v = m + 1 /\ m \in 0 .. n - 1 /\ AtIndex(list, m) = list[m + 1]
        BY <1>0, <3>2, <3>3 DEF AtIndex
      <4> QED BY <2>2, <3>2, <4>1, <4>2 DEF Splits, b
    <3>4. CASE ~ (v - m <= 1)
      <4>1. h[b] = h[<<m, v>>]
        BY <2>4, <2>5, <3>1, <3>2, <3>4 DEF Found
      <4>2. v - m < w
        <5>1. m # u
          BY <2>2, <2>5, <3>4 DEF m
        <5> QED BY <2>2, <2>5, <3>2, <5>1
      <4> QED BY <2>2, <2>6, <3>2, <4>1, <4>2 DEF b
    <3> QED BY <3>3, <3>4
  <2> QED
    <3>1. AtIndex(list, m) \in Nat
      BY <1>0, <2>5
    <3> QED BY <2>7, <2>8, <2>9, <3>1
<1>2. y - x \in Nat
  BY <1>0
<1>3. y - x \notin T
  <2> HIDE DEF T
  <2> QED BY <1>1
<1> QED BY <1>2, <1>3

LEMMA LowerBoundFacts ==
  ASSUME NEW list \in Seq(Nat), Len(list) # 0, NEW key \in Nat, stray \in Nat, key < stray
  PROVE  \/ Pin!LowerBound(list, key) = -1 /\ key < list[1]
         \/ Splits(list, key, Pin!LowerBound(list, key))
<1> DEFINE n == Len(list)
           h == CHOOSE g : IsSearch(list, key, g)
           L == Pin!LowerBound(list, key)
<1>1. IsSearch(list, key, h)
  BY SearchExists
<1>2. L = IF AtIndex(list, 0) > key THEN -1
          ELSE IF AtIndex(list, 0) = key THEN 0
          ELSE IF AtIndex(list, n) = key THEN n
          ELSE h[<<0, n>>]
  BY DEF Pin!LowerBound, IsSearch, Found, HalfOf, MiddleOf, AtIndex, Ranges
<1> HIDE DEF h, L
<1>3. AtIndex(list, 0) = list[1] /\ list[1] \in Nat /\ n \in Nat /\ n # 0 /\ AtIndex(list, n) = stray
  BY DEF AtIndex
<1>4. CASE list[1] > key
  BY <1>2, <1>3, <1>4 DEF L
<1>5. CASE list[1] = key
  BY <1>2, <1>3, <1>5 DEF L, Splits
<1>6. CASE list[1] < key
  <2>1. L = h[<<0, n>>]
    BY <1>2, <1>3, <1>6
  <2>2. 0 \in 0 .. Len(list) /\ n \in 0 .. Len(list) /\ 0 < n
        /\ AtIndex(list, 0) < key /\ key < AtIndex(list, n)
    BY <1>3, <1>6
  <2>3. Splits(list, key, h[<<0, n>>])
    BY <1>1, <2>2, SearchSplits
  <2> QED BY <2>1, <2>3 DEF L
<1> QED BY <1>3, <1>4, <1>5, <1>6
----
(* Where the processes come to. *)

MachineOK(m) ==
  /\ m.cores \in Nat
  /\ m.threads_per_core \in Nat \ {0}
  /\ m.reserved_cores \in Seq(Nat)

LEMMA LaterKey ==
  ASSUME NEW list \in Seq(Nat), Len(list) # 0, InOrder(list), stray \in Nat,
         NEW a \in Nat, NEW b \in Nat, a < b, b < stray
  PROVE  /\ Pin!LowerBound(list, a) \in -1 .. Len(list) - 1
         /\ Pin!LowerBound(list, b) \in -1 .. Len(list) - 1
         /\ Pin!LowerBound(list, a) <= Pin!LowerBound(list, b)
<1> DEFINE x == Pin!LowerBound(list, a)
           y == Pin!LowerBound(list, b)
           n == Len(list)
<1>0. n \in Nat /\ n # 0 /\ \A k \in 1 .. n : list[k] \in Nat
  OBVIOUS
<1>1. (x = -1 /\ a < list[1]) \/ Splits(list, a, x)
  <2>1. a < stray
    OBVIOUS
  <2> HIDE DEF x, y, n
  <2> QED BY <2>1, LowerBoundFacts DEF x
<1>2. (y = -1 /\ b < list[1]) \/ Splits(list, b, y)
  BY LowerBoundFacts
<1> HIDE DEF x, y
<1>3. CASE x = -1
  BY <1>0, <1>2, <1>3 DEF Splits, x, y
<1>4. CASE Splits(list, a, x)
  <2>1. x \in 0 .. n-1 /\ list[x + 1] <= a
    BY <1>0, <1>4 DEF Splits
  <2>2. list[1] <= list[x + 1]
    <3>1. 1 \in 1 .. n /\ x + 1 \in 1 .. n /\ (x + 1 = 1 \/ 1 < x + 1)
      BY <1>0, <2>1
    <3> QED BY <1>0, <3>1 DEF InOrder
  <2>3. list[x + 1] \in Nat /\ list[1] \in Nat
    BY <1>0, <2>1
  <2>4. Splits(list, b, y)
    BY <1>2, <2>1, <2>2, <2>3
  <2>5. y \in 0 .. n-1
    BY <2>4 DEF Splits
  <2>6. ASSUME y < x
        PROVE  FALSE
    <3>1. y + 1 \in 1 .. n /\ y + 2 \in 1 .. n /\ x + 1 \in 1 .. n
      BY <1>0, <2>1, <2>5, <2>6
    <3>2. list[y + 1] <= list[x + 1]
      BY <2>1, <2>5, <2>6, <3>1 DEF InOrder
    <3>3. list[y + 1] \in Nat /\ list[y + 2] \in Nat
      BY <1>0, <3>1
    <3>4. list[y + 1] # b
      BY <2>1, <2>3, <3>2, <3>3
    <3>5. b < AtIndex(list, y + 1)
      BY <2>4, <3>4 DEF Splits
    <3>6. AtIndex(list, y + 1) = list[y + 2]
      BY <1>0, <2>5, <3>1 DEF AtIndex
    <3>7. y + 2 = x + 1 \/ y + 2 < x + 1
      BY <2>1, <2>5, <2>6
    <3>8. list[y + 2] <= list[x + 1]
      BY <2>3, <3>1, <3>7 DEF InOrder
    <3> QED BY <2>1, <2>3, <3>3, <3>5, <3>6, <3>8
  <2> QED BY <2>1, <2>5, <2>6 DEF x, y
<1> QED BY <1>1, <1>3, <1>4

LEMMA ShiftType ==
  ASSUME NEW list \in Seq(Nat), Len(list) # 0, stray \in Nat, NEW a \in Nat, a < stray
  PROVE  Pin!LowerBound(list, a) \in Int /\ Pin!LowerBound(list, a) + 1 \in Nat
<1>1. Pin!LowerBound(list, a) = -1 \/ Splits(list, a, Pin!LowerBound(list, a))
  BY LowerBoundFacts
<1> QED BY <1>1 DEF Splits

(* The core of a thread of the machine. *)
LEMMA CoreExists ==
  ASSUME NEW m, MachineOK(m), NEW a \in Nat, a < m.cores * m.threads_per_core
  PROVE  a \div m.threads_per_core \in 0 .. m.cores - 1
<1>1. m.cores \in Nat /\ m.threads_per_core \in Nat \ {0}
  BY DEF MachineOK
<1>2. m.cores * m.threads_per_core = m.threads_per_core * m.cores
  BY <1>1
<1>3. a \div m.threads_per_core < m.cores
  BY <1>1, <1>2, QuotientBelow
<1>4. a \div m.threads_per_core \in Nat
  BY <1>1, DivMod
<1> QED BY <1>1, <1>3, <1>4

LEMMA FilteredType ==
  ASSUME NEW m, MachineOK(m), stray \in Nat, m.cores <= stray,
         NEW a \in Nat, a < m.cores * m.threads_per_core
  PROVE  Pin!Filtered(m, a) \in Nat
<1> DEFINE d == m.threads_per_core
           k == a \div d
<1>1. m.cores \in Nat /\ d \in Nat \ {0} /\ m.reserved_cores \in Seq(Nat)
  BY DEF MachineOK
<1>2. k \in Nat /\ k < stray
  BY <1>1, CoreExists
<1>3. CASE m.reserved_cores = <<>>
  BY <1>3 DEF Pin!Filtered
<1>4. CASE m.reserved_cores # <<>>
  <2>1. Len(m.reserved_cores) # 0
    BY <1>1, <1>4
  <2> DEFINE x == Pin!LowerBound(m.reserved_cores, k) + 1
  <2> HIDE DEF k
  <2>2. x \in Nat
    BY <1>1, <1>2, <2>1, ShiftType
  <2>3. Pin!Filtered(m, a) = a + x * d
    BY <1>4 DEF Pin!Filtered, k
  <2> HIDE DEF x, d
  <2>4. x * d \in Nat
    BY <1>1, <2>2
  <2> QED BY <2>3, <2>4
<1> QED BY <1>3, <1>4

LEMMA FilteredGrows ==
  ASSUME NEW m, MachineOK(m), InOrder(m.reserved_cores), stray \in Nat, m.cores <= stray,
         NEW a \in Nat, NEW b \in Nat, a < b, b < m.cores * m.threads_per_core
  PROVE  Pin!Filtered(m, a) # Pin!Filtered(m, b)
<1> DEFINE d == m.threads_per_core
           list == m.reserved_cores
           k == a \div d
           l == b \div d
<1>1. m.cores \in Nat /\ d \in Nat \ {0} /\ list \in Seq(Nat)
  BY DEF MachineOK
<1>2. m.cores * d \in Nat
  BY <1>1
<1>3. a < m.cores * d
  BY <1>2
<1>4. k \in Nat /\ l \in Nat /\ k <= l /\ l < stray
  <2>1. l \in 0 .. m.cores - 1
    BY CoreExists
  <2>2. k \in 0 .. m.cores - 1
    BY <1>3, CoreExists
  <2>3. k <= l
    BY <1>1, QuotientsGrow
  <2> QED BY <1>1, <2>1, <2>2, <2>3
<1>5. CASE list = <<>>
  BY <1>5 DEF Pin!Filtered
<1>6. CASE list # <<>>
  <2> DEFINE x == Pin!LowerBound(list, k)
             y == Pin!LowerBound(list, l)
  <2>1. Len(list) # 0
    BY <1>1, <1>6
  <2>2. Pin!Filtered(m, a) = a + (x + 1) * d /\ Pin!Filtered(m, b) = b + (y + 1) * d
    BY <1>6 DEF Pin!Filtered
  <2> HIDE DEF k, l
  <2>3. x + 1 \in Nat /\ y + 1 \in Nat /\ x \in Int /\ y \in Int
    <3>1. k < stray
      BY <1>4
    <3> HIDE DEF list
    <3> QED BY <1>1, <1>4, <2>1, <3>1, ShiftType
  <2>4. x <= y
    <3>1. CASE k = l
      BY <2>3, <3>1
    <3>2. CASE k < l
      <4>1. InOrder(list)
        OBVIOUS
      <4> HIDE DEF list
      <4> QED BY <1>1, <1>4, <2>1, <3>2, <4>1, LaterKey
    <3> QED BY <1>4, <3>1, <3>2
  <2> HIDE DEF x, y, d
  <2>5. \E v \in Nat : y + 1 = (x + 1) + v
    <3>1. (y + 1) - (x + 1) \in Nat
      <4> DEFINE z == y + 1
                 w == x + 1
      <4>1. z \in Nat /\ w \in Nat /\ w <= z
        BY <2>3, <2>4 DEF x, y
      <4> QED BY <4>1
    <3> QED BY <2>3, <3>1
  <2> DEFINE w == x + 1
             z == y + 1
  <2>6. PICK v \in Nat : z = w + v
    BY <2>5
  <2>7. w \in Nat /\ z \in Nat
    BY <2>3
  <2>8. Pin!Filtered(m, a) = a + w * d /\ Pin!Filtered(m, b) = b + z * d
    BY <2>2
  <2> HIDE DEF w, z
  <2>9. z * d = w * d + v * d /\ v * d \in Nat /\ w * d \in Nat
    BY <1>1, <2>6, <2>7
  <2> QED BY <2>8, <2>9
<1> QED BY <1>5, <1>6

(* Thread x of the consecutive numbering has a number in the machine's own
   from which its core can be told. *)
LEMMA TranslatedFacts ==
  ASSUME NEW m, MachineOK(m), NEW a \in Nat, a < m.cores * m.threads_per_core
  PROVE  /\ Pin!Translated(m, a) \in Nat
         /\ Pin!Translated(m, a) < m.cores * m.threads_per_core
         /\ Pin!CoreOf(m, Pin!Translated(m, a)) = a \div m.threads_per_core
<1> DEFINE d == m.threads_per_core
           c == m.cores
           q == a \div d
           r == a % d
<1>1. c \in Nat /\ d \in Nat \ {0}
  BY DEF MachineOK
<1>2. q \in 0 .. c-1 /\ c \in Nat \ {0}
  BY <1>1, CoreExists
<1>3. r \in 0 .. d-1
  BY <1>1, DivMod
<1>4. CASE m.thread_numbering = "consecutive"
  BY <1>4 DEF Pin!Translated, Pin!CoreOf
<1>5. CASE m.thread_numbering # "consecutive"
  <2>1. Pin!Translated(m, a) = q + r * c
    BY <1>5 DEF Pin!Translated
  <2>2. \A t : Pin!CoreOf(m, t) = t % c
    BY <1>5 DEF Pin!CoreOf
  <2> HIDE DEF q, r, c, d
  <2>3. r \in Nat /\ q \in Nat /\ r * c = c * r /\ r * c \in Nat
    BY <1>2, <1>3
  <2>4. (c * r + q) % c = q
    BY <1>2, <2>3, DivModIs
  <2>5. q + r * c = c * r + q
    BY <2>3
  <2>6. r * c + c <= c * d
    <3>1. PICK v \in Nat : d = r + 1 + v
      <4> DEFINE v == d - r - 1
      <4>1. v \in Nat /\ d = r + 1 + v
        BY <1>1, <1>3
      <4> QED BY <4>1
    <3>2. c * d = c * r + c + c * v /\ c * v \in Nat
      BY <1>1, <2>3, <3>1
    <3> QED BY <1>1, <2>3, <3>2
  <2>7. q + r * c \in Nat /\ q + r * c < c * d
    BY <1>1, <1>2, <2>3, <2>6
  <2> QED BY <2>1, <2>2, <2>4, <2>5, <2>7 DEF q, c, d
<1> QED BY <1>4, <1>5

(* Different threads keep different numbers. *)
Fits(m, a) ==
  \/ m.thread_numbering = "consecutive"
  \/ m.threads_per_core = 1
  \/ a < m.cores * m.threads_per_core

LEMMA TranslatedApart ==
  ASSUME NEW m, MachineOK(m), NEW a \in Nat, NEW b \in Nat, a # b, Fits(m, a), Fits(m, b)
  PROVE  Pin!Translated(m, a) # Pin!Translated(m, b)
<1> DEFINE d == m.threads_per_core
           c == m.cores
<1>1. c \in Nat /\ d \in Nat \ {0}
  BY DEF MachineOK
<1>2. CASE m.thread_numbering = "consecutive"
  BY <1>2 DEF Pin!Translated
<1>3. CASE m.thread_numbering # "consecutive" /\ d = 1
  <2>1. \A x \in Nat : x \div 1 = x /\ x % 1 = 0
    OBVIOUS
  <2>2. \A x \in Nat : Pin!Translated(m, x) = x + 0 * c
    BY <1>3, <2>1 DEF Pin!Translated
  <2>3. 0 * c = 0
    BY <1>1
  <2> QED BY <2>2, <2>3
<1>4. CASE m.thread_numbering # "consecutive" /\ a < c * d /\ b < c * d
  <2>1. \A x \in Nat : Pin!Translated(m, x) = (x \div d) + (x % d) * c
    BY <1>4 DEF Pin!Translated
  <2>2. a \div d \in 0 .. c-1 /\ b \div d \in 0 .. c-1 /\ c \in Nat \ {0}
    BY <1>1, <1>4, CoreExists
  <2>3. a % d \in 0 .. d-1 /\ b % d \in 0 .. d-1 /\ a = d * (a \div d) + (a % d)
        /\ b = d * (b \div d) + (b % d)
    BY <1>1, DivMod
  <2> DEFINE q == a \div d
             r == a % d
             s == b \div d
             t == b % d
  <2>4. Pin!Translated(m, a) = q + r * c /\ Pin!Translated(m, b) = s + t * c
    BY <2>1
  <2>5. a = d * q + r /\ b = d * s + t
    BY <2>3
  <2>6. q \in 0 .. c-1 /\ s \in 0 .. c-1 /\ r \in Nat /\ t \in Nat
    BY <1>1, <2>2, <2>3
  <2> HIDE DEF q, r, s, t, c, d
  <2>7. q + r * c = c * r + q /\ s + t * c = c * t + s
    BY <2>2, <2>6
  <2>8. /\ (c * r + q) % c = q /\ (c * r + q) \div c = r
        /\ (c * t + s) % c = s /\ (c * t + s) \div c = t
    BY <2>2, <2>6, DivModIs
  <2> QED BY <2>4, <2>5, <2>7, <2>8
<1> QED BY <1>2, <1>3, <1>4 DEF Fits
----
(* The parts of a run, and the parts of the runs nested in it. *)

GoodPart(m, part) ==
  /\ part.start \in Nat /\ part.end \in Nat /\ part.stride \in Nat \ {0}
  /\ part.end < m.cores * m.threads_per_core + part.stride
  /\ m.affinity = "scatter" => part.stride = 1

Room(part, P) == P \in Nat \ {0} /\ P * part.stride <= part.end - part.start

(* The threads of a scattered part lie together, those of a compact one a
   stride apart. *)
InPart(m, part, x) ==
  /\ x \in Nat /\ x < m.cores * m.threads_per_core
  /\ m.affinity = "scatter" => part.start <= x /\ x < part.end
  /\ m.affinity # "scatter" => \E u \in Nat : x = part.start + u * part.stride

PartOf(m, part, P, s) ==
  IF m.affinity = "scatter" THEN Pin!ScatterPart(part, P, s) ELSE Pin!CompactPart(part, P, s)

LEMMA LaterProduct ==
  ASSUME NEW s \in Nat, NEW t \in Nat, s < t, NEW d \in Nat
  PROVE  s * d + d <= t * d
<1> DEFINE v == t - s - 1
<1>1. v \in Nat /\ t = s + 1 + v
  OBVIOUS
<1> HIDE DEF v
<1>2. t * d = s * d + d + v * d /\ v * d \in Nat /\ s * d \in Nat
  BY <1>1
<1> QED BY <1>2

LEMMA ScatterPartIs ==
  ASSUME NEW part, part.start \in Nat, part.end \in Nat, part.stride = 1,
         NEW P \in Nat \ {0}, P <= part.end - part.start, NEW s \in 0 .. P-1
  PROVE  LET W == part.end - part.start
             q == Pin!ScatterPart(part, P, s)
         IN  /\ W \in Nat
             /\ q.start = part.start + ((s * W) \div P)
             /\ q.stride = 1
             /\ q.end = part.start + ((s * W) \div P) + (W \div P)
             /\ (s * W) \div P \in Nat /\ W \div P \in Nat \ {0}
             /\ ((s * W) \div P) + (W \div P) <= W
<1> DEFINE W == part.end - part.start
<1>1. W \in Nat /\ P <= W
  OBVIOUS
<1>2. W \div 1 = W
  BY <1>1
<1> HIDE DEF W
<1>3. s * 1 = s /\ 1 * W = W
  BY <1>1
<1>4. LET q == Pin!ScatterPart(part, P, s)
      IN  /\ q.start = part.start + ((s * W) \div P)
          /\ q.stride = 1
          /\ q.end = part.start + ((s * W) \div P) + (W \div P)
  BY <1>1, <1>2, <1>3 DEF Pin!ScatterPart, W
<1>5. /\ (s * W) \div P \in Nat /\ W \div P \in Nat
      /\ ((s * W) \div P) + (W \div P) <= W
  BY <1>1, ScatterFits
<1>6. 1 <= W \div P
  <2>1. 1 \in Nat /\ P * 1 <= W
    BY <1>1
  <2> QED BY <1>1, <2>1, QuotientIs
<1>7. W \div P \in Nat \ {0}
  BY <1>5, <1>6
<1> QED BY <1>1, <1>4, <1>5, <1>7 DEF W

LEMMA CompactPartIs ==
  ASSUME NEW part, NEW P, NEW s
  PROVE  LET q == Pin!CompactPart(part, P, s)
         IN  /\ q.start = part.start + s * part.stride
             /\ q.stride = part.stride * P
             /\ q.end = q.start + ((part.end - part.start) \div q.stride) * q.stride
BY DEF Pin!CompactPart

LEMMA PartStarts ==
  ASSUME NEW m, MachineOK(m), NEW part, GoodPart(m, part), NEW P, Room(part, P),
         NEW s \in 0 .. P-1
  PROVE  InPart(m, part, PartOf(m, part, P, s).start)
<1> DEFINE W == part.end - part.start
           M == m.cores * m.threads_per_core
           x == PartOf(m, part, P, s).start
<1>1. /\ P \in Nat \ {0} /\ part.start \in Nat /\ part.end \in Nat
      /\ part.stride \in Nat \ {0} /\ M \in Nat
  BY DEF Room, GoodPart, MachineOK
<1>2. CASE m.affinity = "scatter"
  <2>1. part.stride = 1 /\ part.end <= M /\ P <= W
    BY <1>1, <1>2 DEF GoodPart, Room
  <2> DEFINE a == (s * W) \div P
             b == W \div P
  <2>2. W \in Nat /\ Pin!ScatterPart(part, P, s).start = part.start + a
        /\ a \in Nat /\ b \in Nat \ {0} /\ a + b <= W
    BY <1>1, <2>1, ScatterPartIs
  <2>3. x = part.start + a
    BY <1>2, <2>2 DEF PartOf
  <2> HIDE DEF x, a, b
  <2>4. part.start <= x /\ x < part.end /\ x \in Nat /\ x < M
    BY <1>1, <2>1, <2>2, <2>3
  <2> QED BY <1>2, <2>4 DEF InPart, x, M
<1>3. CASE m.affinity # "scatter"
  <2>1. x = part.start + s * part.stride
    BY <1>3, CompactPartIs DEF PartOf
  <2>2. s \in Nat /\ s < P
    BY <1>1
  <2> HIDE DEF x
  <2>3. s * part.stride + part.stride <= P * part.stride
    BY <1>1, <2>2, LaterProduct
  <2>4. s * part.stride \in Nat /\ P * part.stride \in Nat
    BY <1>1
  <2>5. P * part.stride <= W /\ part.end < M + part.stride
    BY DEF Room, GoodPart
  <2>6. x \in Nat /\ x < M
    BY <1>1, <2>1, <2>3, <2>4, <2>5
  <2> QED BY <1>3, <2>1, <2>2, <2>6 DEF InPart, x, M
<1> QED BY <1>2, <1>3

LEMMA StartsApart ==
  ASSUME NEW m, MachineOK(m), NEW part, GoodPart(m, part), NEW P, Room(part, P),
         NEW s \in 0 .. P-1, NEW t \in 0 .. P-1, s < t
  PROVE  /\ PartOf(m, part, P, s).start < PartOf(m, part, P, t).start
         /\ m.affinity = "scatter" => PartOf(m, part, P, s).end <= PartOf(m, part, P, t).start
<1> DEFINE W == part.end - part.start
<1>1. /\ P \in Nat \ {0} /\ part.start \in Nat /\ part.end \in Nat
      /\ part.stride \in Nat \ {0} /\ s \in Nat /\ t \in Nat
  BY DEF Room, GoodPart
<1>2. CASE m.affinity = "scatter"
  <2>1. part.stride = 1 /\ P <= W
    BY <1>1, <1>2 DEF GoodPart, Room
  <2> DEFINE a == (s * W) \div P
             b == W \div P
             c == (t * W) \div P
  <2>2. /\ W \in Nat /\ PartOf(m, part, P, s).start = part.start + a
        /\ PartOf(m, part, P, s).end = part.start + a + b
        /\ a \in Nat /\ b \in Nat \ {0}
    BY <1>1, <1>2, <2>1, ScatterPartIs DEF PartOf
  <2>3. PartOf(m, part, P, t).start = part.start + c /\ c \in Nat
    BY <1>1, <1>2, <2>1, ScatterPartIs DEF PartOf
  <2>4. a + b <= c
    BY <1>1, <2>2, ScatterGrows
  <2> HIDE DEF a, b, c
  <2> QED BY <1>1, <2>2, <2>3, <2>4
<1>3. CASE m.affinity # "scatter"
  <2>1. /\ PartOf(m, part, P, s).start = part.start + s * part.stride
        /\ PartOf(m, part, P, t).start = part.start + t * part.stride
    BY <1>3, CompactPartIs DEF PartOf
  <2>2. s * part.stride + part.stride <= t * part.stride
    BY <1>1, LaterProduct
  <2>3. s * part.stride \in Nat /\ t * part.stride \in Nat
    BY <1>1
  <2> QED BY <1>1, <1>3, <2>1, <2>2, <2>3
<1> QED BY <1>2, <1>3

(* The parts of the whole machine. *)
LEMMA WholeIsGood ==
  ASSUME NEW m, MachineOK(m)
  PROVE  GoodPart(m, Pin!WholeMachine(m))
BY DEF GoodPart, Pin!WholeMachine, MachineOK

LEMMA OuterParts ==
  ASSUME NEW m, MachineOK(m), NEW P, Room(Pin!WholeMachine(m), P), NEW s \in 0 .. P-1
  PROVE  GoodPart(m, PartOf(m, Pin!WholeMachine(m), P, s))
<1> DEFINE part == Pin!WholeMachine(m)
           M == m.cores * m.threads_per_core
           q == PartOf(m, part, P, s)
<1>1. P \in Nat \ {0} /\ M \in Nat /\ s \in Nat
  BY DEF Room, MachineOK
<1>2. part.start = 0 /\ part.stride = 1 /\ part.end = M
  BY DEF Pin!WholeMachine
<1>3. P <= M /\ M - 0 = M
  BY <1>1, <1>2 DEF Room
<1> HIDE DEF part, M
<1>4. CASE m.affinity = "scatter"
  <2> DEFINE a == (s * M) \div P
             b == M \div P
  <2>1. q = Pin!ScatterPart(part, P, s)
    BY <1>4 DEF PartOf
  <2>2. P <= part.end - part.start
    BY <1>1, <1>2, <1>3
  <2>3. /\ q.start = part.start + a /\ q.stride = 1 /\ q.end = part.start + a + b
        /\ a \in Nat /\ b \in Nat \ {0} /\ a + b <= M
    <3> HIDE DEF q
    <3>1. part.start \in Nat /\ part.end \in Nat /\ part.stride = 1
      BY <1>1, <1>2
    <3> DEFINE W == part.end - part.start
               c == (s * W) \div P
               e == W \div P
    <3>2. W = M
      BY <1>2, <1>3
    <3>3. /\ q.start = part.start + c /\ q.stride = 1 /\ q.end = part.start + c + e
          /\ c \in Nat /\ e \in Nat \ {0} /\ c + e <= W
      BY <1>1, <2>1, <2>2, <3>1, ScatterPartIs
    <3>4. c = a /\ e = b
      BY <3>2
    <3> HIDE DEF W, c, e, a, b
    <3> QED BY <3>2, <3>3, <3>4
  <2> HIDE DEF a, b, q
  <2>4. q.start \in Nat /\ q.end \in Nat /\ q.end < M + 1
    BY <1>1, <1>2, <2>3
  <2> QED BY <1>1, <2>3, <2>4 DEF GoodPart, q, M, part
<1>5. CASE m.affinity # "scatter"
  <2>1. q = Pin!CompactPart(part, P, s)
    BY <1>5 DEF PartOf
  <2> HIDE DEF q
  <2> DEFINE k == M \div P
  <2>2. 0 + s * 1 = s /\ 1 * P = P /\ M - 0 = M
    BY <1>1
  <2>3. q.start = s /\ q.stride = P /\ q.end = s + k * P
    BY <1>2, <2>1, <2>2, CompactPartIs
  <2> DEFINE rest == M % P
  <2>6. k \in Nat /\ rest \in Nat /\ M = P * k + rest
    <3>1. k \in Nat /\ rest \in 0 .. P-1 /\ M = P * k + rest
      BY <1>1, DivMod
    <3> HIDE DEF k, rest
    <3> QED BY <1>1, <3>1
  <2> HIDE DEF k, rest
  <2>4. k \in Nat /\ P * k <= M /\ k * P = P * k /\ P * k \in Nat
    <3>1. P * k \in Nat /\ k * P = P * k
      BY <1>1, <2>6
    <3> QED BY <1>1, <2>6, <3>1
  <2> HIDE DEF k
  <2>5. q.end \in Nat /\ q.end < M + P
    BY <1>1, <2>3, <2>4
  <2> QED BY <1>1, <1>5, <2>3, <2>5 DEF GoodPart, q, M, part
<1> QED BY <1>4, <1>5

LEMMA WholeStarts ==
  ASSUME NEW m, MachineOK(m), NEW P, Room(Pin!WholeMachine(m), P), NEW s \in 0 .. P-1
  PROVE  PartOf(m, Pin!WholeMachine(m), P, s).start =
           IF m.affinity = "scatter" THEN (s * (m.cores * m.threads_per_core)) \div P ELSE s
<1> DEFINE part == Pin!WholeMachine(m)
           M == m.cores * m.threads_per_core
<1>1. M \in Nat /\ M - 0 = M /\ P \in Nat \ {0}
  BY DEF MachineOK, Room
<1>2. part.start = 0 /\ part.stride = 1 /\ part.end = M
  BY DEF Pin!WholeMachine
<1>3. Room(part, P)
  OBVIOUS
<1> HIDE DEF part, M
<1>4. CASE m.affinity = "scatter"
  <2> DEFINE W == part.end - part.start
             w == (s * W) \div P
  <2>1. W = M
    BY <1>1, <1>2
  <2>2. P <= W
    BY <1>1, <1>2, <1>3 DEF Room
  <2>3. part.start \in Nat /\ part.end \in Nat
    BY <1>1, <1>2
  <2>4. Pin!ScatterPart(part, P, s).start = part.start + w /\ w \in Nat
    BY <1>1, <1>2, <2>2, <2>3, ScatterPartIs
  <2>5. w = (s * M) \div P
    BY <2>1
  <2> HIDE DEF w
  <2>6. Pin!ScatterPart(part, P, s).start = w
    BY <1>2, <2>4
  <2> QED BY <1>4, <2>5, <2>6 DEF PartOf, part, M
<1>5. CASE m.affinity # "scatter"
  <2>1. 0 + s * 1 = s
    BY <1>1
  <2>2. Pin!CompactPart(part, P, s).start = s
    BY <1>2, <2>1, CompactPartIs
  <2> QED BY <1>5, <2>2 DEF PartOf, part
<1> QED BY <1>4, <1>5

(* What is in two parts of the machine is different. *)
LEMMA SiblingsApart ==
  ASSUME NEW m, MachineOK(m), NEW P, Room(Pin!WholeMachine(m), P),
         NEW s \in 0 .. P-1, NEW t \in 0 .. P-1, s < t,
         NEW x, InPart(m, PartOf(m, Pin!WholeMachine(m), P, s), x),
         NEW y, InPart(m, PartOf(m, Pin!WholeMachine(m), P, t), y)
  PROVE  x # y
<1> DEFINE part == Pin!WholeMachine(m)
<1>1. P \in Nat \ {0} /\ s \in Nat /\ t \in Nat
  BY DEF Room
<1>2. CASE m.affinity = "scatter"
  <2>1. PartOf(m, part, P, s).end <= PartOf(m, part, P, t).start
    BY <1>2, StartsApart, WholeIsGood
  <2>2. x < PartOf(m, part, P, s).end /\ PartOf(m, part, P, t).start <= y
    BY <1>2 DEF InPart
  <2>3. x \in Nat /\ y \in Nat
    BY DEF InPart
  <2>4. PartOf(m, part, P, s).end \in Nat /\ PartOf(m, part, P, t).start \in Nat
    BY OuterParts DEF GoodPart
  <2> QED BY <2>1, <2>2, <2>3, <2>4
<1>3. CASE m.affinity # "scatter"
  <2>1. part.start = 0 /\ part.stride = 1
    BY DEF Pin!WholeMachine
  <2>2. \A r \in Nat : 0 + r * 1 = r
    OBVIOUS
  <2>3. 1 * P = P
    BY <1>1
  <2>4. /\ PartOf(m, part, P, s).start = s /\ PartOf(m, part, P, s).stride = P
        /\ PartOf(m, part, P, t).start = t /\ PartOf(m, part, P, t).stride = P
    <3> HIDE DEF part
    <3> QED BY <1>1, <1>3, <2>1, <2>2, <2>3, CompactPartIs DEF PartOf
  <2>5. PICK u \in Nat : x = s + u * P
    BY <1>3, <2>4 DEF InPart
  <2>6. PICK v \in Nat : y = t + v * P
    BY <1>3, <2>4 DEF InPart
  <2>7. s + u * P = P * u + s /\ t + v * P = P * v + t
    BY <1>1
  <2>8. (P * u + s) % P = s /\ (P * v + t) % P = t
    BY <1>1, DivModIs
  <2> QED BY <2>5, <2>6, <2>7, <2>8
<1> QED BY <1>2, <1>3

----
(* The hardware threads of processes whose parts start apart. *)

Shifted(m, a) == Fits(m, Pin!Filtered(m, a))

LEMMA PinnedApart ==
  ASSUME NEW m, MachineOK(m), InOrder(m.reserved_cores), stray \in Nat, m.cores <= stray,
         NEW a \in Nat, NEW b \in Nat, a # b,
         a < m.cores * m.threads_per_core, b < m.cores * m.threads_per_core,
         Shifted(m, a), Shifted(m, b)
  PROVE  Pin!Translated(m, Pin!Filtered(m, a)) # Pin!Translated(m, Pin!Filtered(m, b))
<1>1. Pin!Filtered(m, a) # Pin!Filtered(m, b)
  <2>1. CASE a < b
    BY <2>1, FilteredGrows
  <2>2. CASE b < a
    BY <2>2, FilteredGrows
  <2> QED BY <2>1, <2>2
<1>2. Pin!Filtered(m, a) \in Nat /\ Pin!Filtered(m, b) \in Nat
  BY FilteredType
<1> QED BY <1>1, <1>2, TranslatedApart DEF Shifted

(* As many values as arguments. *)
LEMMA ImageCount ==
  ASSUME NEW P \in Nat, NEW f, \A s, t \in 0 .. P-1 : s < t => f[s] # f[t]
  PROVE  Cardinality({f[s] : s \in 0 .. P-1}) = P
<1> DEFINE D == 0 .. P-1
           T == {f[s] : s \in D}
           g == [s \in D |-> f[s]]
<1>1. IsFiniteSet(D) /\ Cardinality(D) = P
  <2>1. IsFiniteSet(0 .. P-1) /\ Cardinality(0 .. P-1) = IF 0 > P-1 THEN 0 ELSE P-1 - 0 + 1
    BY FS_Interval
  <2> QED BY <2>1
<1>2. \A s, t \in D : g[s] = g[t] => s = t
  BY SMT
<1>3. g \in Bijection(D, T)
  <2>1. g \in [D -> T] /\ \A y \in T : \E s \in D : g[s] = y
    OBVIOUS
  <2> HIDE DEF g, D, T
  <2> QED BY <1>2, <2>1 DEF Bijection, Injection, Surjection, IsInjective
<1> HIDE DEF g, D
<1>4. ExistsBijection(D, T)
  BY <1>3 DEF ExistsBijection
<1> HIDE DEF T
<1>5. Cardinality(T) = P
  BY <1>1, <1>4, FS_Bijection
<1> QED BY <1>5 DEF T, D
----
(* The checked information. *)

InfoOK(m) == MachineOK(m) /\ DOMAIN m = DOMAIN Pin!Defaults

LEMMA SameCardinality ==
  ASSUME NEW V
  PROVE  Pin!Cardinality(V) = Cardinality(V)
BY DEF Pin!Cardinality, Cardinality

(* f lists the elements of the list, each of them once. *)
Enumerates(f, list) ==
  /\ f \in Seq(Nat)
  /\ \A i, j \in 1 .. Len(f) : f[i] = f[j] => i = j
  /\ \A i \in 1 .. Len(f) : \E k \in 1 .. Len(list) : f[i] = list[k]
  /\ \A k \in 1 .. Len(list) : \E i \in 1 .. Len(f) : f[i] = list[k]

LEMMA Enumeration ==
  ASSUME NEW list \in Seq(Nat)
  PROVE  Enumerates(Pin!SetToSeq(Pin!ToSet(list)), list)
<1> DEFINE T == Pin!ToSet(list)
           n == Cardinality(T)
           Good(f) == f \in [1 .. n -> T] /\ Pin!IsInjective(f)
           f == Pin!SetToSeq(T)
<1>1. Len(list) \in Nat /\ T = {list[k] : k \in 1 .. Len(list)} /\ T \subseteq Nat
  BY DEF Pin!ToSet
<1> HIDE DEF T
<1>2. IsFiniteSet(T)
  <2> DEFINE g == [k \in 1 .. Len(list) |-> list[k]]
  <2>1. g \in Surjection(1 .. Len(list), T)
    BY <1>1 DEF Surjection
  <2>2. IsFiniteSet(1 .. Len(list))
    BY <1>1, FS_Interval
  <2> HIDE DEF g
  <2> QED BY <2>1, <2>2, FS_Surjection
<1>3. n \in Nat
  BY <1>2, FS_CardinalityType
<1>4. \E h : Good(h)
  <2>1. IsFiniteSet(1 .. n) /\ Cardinality(1 .. n) = n
    BY <1>3, FS_Interval
  <2>2. ExistsBijection(1 .. n, T)
    BY <1>2, <2>1, FS_SameCardinalityBij
  <2>3. PICK h : h \in Bijection(1 .. n, T)
    BY <2>2 DEF ExistsBijection
  <2> HIDE DEF n
  <2>4. h \in [1 .. n -> T] /\ \A a, b \in 1 .. n : h[a] = h[b] => a = b
    BY <2>3 DEF Bijection, Injection, IsInjective
  <2>5. Good(h)
    BY <2>4 DEF Pin!IsInjective
  <2> QED BY <2>5
<1>5. Good(f)
  <2>1. f = CHOOSE h \in [1 .. n -> T] : Pin!IsInjective(h)
    BY SameCardinality DEF Pin!SetToSeq
  <2> HIDE DEF f, n
  <2> QED BY <1>4, <2>1
<1> HIDE DEF f
<1>6. /\ f \in Seq(Nat) /\ Len(f) = n
      /\ \A i, j \in 1 .. n : f[i] = f[j] => i = j
      /\ \A i \in 1 .. n : f[i] \in T
  <2>1. f \in [1 .. n -> T] /\ \A i \in 1 .. n : f[i] \in Nat
    BY <1>1, <1>5
  <2>2. \A i, j \in 1 .. n : f[i] = f[j] => i = j
    BY <1>5 DEF Pin!IsInjective
  <2> HIDE DEF n
  <2>3. f \in [1 .. n -> Nat]
    BY <2>1
  <2>4. f \in Seq(Nat) /\ Len(f) = n
    BY <1>3, <2>3
  <2> QED BY <2>1, <2>2, <2>4
<1>7. \A y \in T : \E i \in 1 .. n : f[i] = y
  <2>1. f \in Injection(1 .. n, T)
    BY <1>5, <1>6 DEF Injection, IsInjective
  <2>2. Cardinality(1 .. n) = Cardinality(T)
    BY <1>3, FS_Interval
  <2>3. f \in Surjection(1 .. n, T)
    <3> HIDE DEF n
    <3> QED BY <1>2, <2>1, <2>2, FS_Injection
  <2> QED BY <2>3 DEF Surjection
<1> HIDE DEF n, Good
<1>8. Enumerates(f, list)
  <2>1. \A i \in 1 .. Len(f) : \E k \in 1 .. Len(list) : f[i] = list[k]
    BY <1>1, <1>6
  <2>2. \A k \in 1 .. Len(list) : \E i \in 1 .. Len(f) : f[i] = list[k]
    BY <1>1, <1>6, <1>7
  <2> QED BY <1>6, <2>1, <2>2 DEF Enumerates
<1> QED BY <1>8 DEF f, T

(* Listing the elements of a list in order without duplicates, in order,
   gives that list. *)
LEMMA AscendingAgain ==
  ASSUME NEW r \in Seq(Nat), InOrder(r), NEW f, Enumerates(f, r),
         \A i, j \in 1 .. Len(r) : r[i] = r[j] => i = j
  PROVE  Pin!Ascending(f) = r
<1> DEFINE n == Len(r)
           l == Len(f)
<1>1. /\ f \in Seq(Nat) /\ n \in Nat /\ l \in Nat
      /\ \A i, j \in 1 .. l : f[i] = f[j] => i = j
      /\ \A i \in 1 .. l : \E k \in 1 .. n : f[i] = r[k]
      /\ \A k \in 1 .. n : \E i \in 1 .. l : f[i] = r[k]
  BY DEF Enumerates
<1>2. PICK p : /\ Arranges(p, f)
               /\ Pin!Ascending(f) = [i \in 1 .. l |-> f[p[i]]]
  BY <1>1, AscendingFacts
<1>3. /\ p \in [1 .. l -> 1 .. l]
      /\ \A i, j \in 1 .. l : p[i] = p[j] => i = j
      /\ \A i, j \in 1 .. l : i < j => f[p[i]] <= f[p[j]]
  BY <1>2 DEF Arranges
<1>a. \A i \in 1 .. l : p[i] \in 1 .. l
  BY <1>3
<1> HIDE DEF n, l
<1> DEFINE at(i) == CHOOSE k \in 1 .. n : f[i] = r[k]
           g == [i \in 1 .. l |-> at(i)]
           q == [i \in 1 .. l |-> at(p[i])]
<1>4. \A i \in 1 .. l : at(i) \in 1 .. n /\ f[i] = r[at(i)]
  BY <1>1
<1> HIDE DEF at
<1>5. l = n
  <2>1. IsFiniteSet(1 .. l) /\ IsFiniteSet(1 .. n) /\ Cardinality(1 .. l) = l /\ Cardinality(1 .. n) = n
    <3>1. IsFiniteSet(1 .. l) /\ Cardinality(1 .. l) = l
      BY <1>1, FS_Interval
    <3>2. IsFiniteSet(1 .. n) /\ Cardinality(1 .. n) = n
      BY <1>1, FS_Interval
    <3> QED BY <3>1, <3>2
  <2>2. g \in Bijection(1 .. l, 1 .. n)
    <3>1. g \in [1 .. l -> 1 .. n]
      BY <1>4
    <3>2. \A i, j \in 1 .. l : g[i] = g[j] => i = j
      <4> SUFFICES ASSUME NEW i \in 1 .. l, NEW j \in 1 .. l, at(i) = at(j)
                   PROVE  i = j
        OBVIOUS
      <4>1. f[i] = f[j]
        BY <1>4
      <4> QED BY <1>1, <4>1
    <3>3. \A k \in 1 .. n : \E i \in 1 .. l : g[i] = k
      <4> SUFFICES ASSUME NEW k \in 1 .. n
                   PROVE  \E i \in 1 .. l : g[i] = k
        OBVIOUS
      <4>1. PICK i \in 1 .. l : f[i] = r[k]
        BY <1>1
      <4>2. at(i) = k
        BY <1>4, <4>1 DEF n
      <4> QED BY <4>2
    <3> HIDE DEF g
    <3> QED BY <3>1, <3>2, <3>3 DEF Bijection, Injection, Surjection, IsInjective
  <2> HIDE DEF g
  <2>3. ExistsBijection(1 .. l, 1 .. n)
    BY <2>2 DEF ExistsBijection
  <2> QED BY <2>1, <2>3, FS_Bijection
<1>6. \A i \in 1 .. l : q[i] \in 1 .. n /\ f[p[i]] = r[q[i]]
  BY <1>a, <1>4
<1>7. Arranges(q, r)
  <2>1. q \in [1 .. n -> 1 .. n]
    BY <1>5, <1>6
  <2>2. \A i, j \in 1 .. n : q[i] = q[j] => i = j
    <3> SUFFICES ASSUME NEW i \in 1 .. n, NEW j \in 1 .. n, q[i] = q[j]
                 PROVE  i = j
      OBVIOUS
    <3>1. f[p[i]] = f[p[j]]
      BY <1>5, <1>6
    <3> HIDE DEF q
    <3> QED BY <1>1, <1>3, <1>5, <1>a, <3>1
  <2>3. \A i, j \in 1 .. n : i < j => r[q[i]] <= r[q[j]]
    <3> HIDE DEF q
    <3> QED BY <1>3, <1>5, <1>6
  <2> HIDE DEF q
  <2> QED BY <2>1, <2>2, <2>3 DEF Arranges, n
<1> HIDE DEF q
<1>8. \A i \in 1 .. n : r[q[i]] = r[i]
  BY <1>7, Unscrambled DEF n
<1>9. Pin!Ascending(f) = [i \in 1 .. n |-> r[i]]
  BY <1>2, <1>5, <1>6, <1>8
<1>10. r = [i \in 1 .. n |-> r[i]]
  BY DEF n
<1> QED BY <1>9, <1>10

LEMMA AscendingSorted ==
  ASSUME NEW r \in Seq(Nat), InOrder(r)
  PROVE  Pin!Ascending(r) = r
<1>1. PICK p : Arranges(p, r) /\ Pin!Ascending(r) = [i \in 1 .. Len(r) |-> r[p[i]]]
  BY AscendingFacts
<1>2. \A i \in 1 .. Len(r) : r[p[i]] = r[i]
  BY <1>1, Unscrambled
<1>3. r = [i \in 1 .. Len(r) |-> r[i]]
  OBVIOUS
<1> QED BY <1>1, <1>2, <1>3

(* Sorting a list without duplicates gives one without. *)
LEMMA AscendingOnce ==
  ASSUME NEW list \in Seq(Nat), \A i, j \in 1 .. Len(list) : list[i] = list[j] => i = j
  PROVE  LET r == Pin!Ascending(list)
         IN  \A i, j \in 1 .. Len(r) : r[i] = r[j] => i = j
<1>1. PICK p : Arranges(p, list) /\ Pin!Ascending(list) = [i \in 1 .. Len(list) |-> list[p[i]]]
  BY AscendingFacts
<1>2. Len(Pin!Ascending(list)) = Len(list)
  BY AscendingInOrder
<1>3. \A i \in 1 .. Len(list) : p[i] \in 1 .. Len(list) /\ Pin!Ascending(list)[i] = list[p[i]]
  BY <1>1 DEF Arranges
<1>4. \A i, j \in 1 .. Len(list) : p[i] = p[j] => i = j
  BY <1>1 DEF Arranges
<1> QED BY <1>2, <1>3, <1>4

LEMMA CheckedFacts ==
  ASSUME NEW m, InfoOK(m)
  PROVE  LET c == Pin!Checked(m)
         IN  /\ InfoOK(c) /\ InOrder(c.reserved_cores)
             /\ c.cores = m.cores
             /\ c.reserved_cores = Pin!CheckedReserved(m)
<1> DEFINE L == IF Pin!Counts(m) THEN Pin!SetToSeq(Pin!ToSet(m.reserved_cores))
                ELSE m.reserved_cores
<1>1. L \in Seq(Nat)
  BY Enumeration DEF InfoOK, MachineOK, Enumerates
<1>2. Pin!CheckedReserved(m) = Pin!Ascending(L)
  BY DEF Pin!CheckedReserved
<1> HIDE DEF L
<1>3. Pin!CheckedReserved(m) \in Seq(Nat) /\ InOrder(Pin!CheckedReserved(m))
  BY <1>1, <1>2, AscendingInOrder
<1> QED BY <1>3 DEF Pin!Checked, InfoOK, MachineOK, Pin!Defaults

(* Checking a second time changes nothing: process 0 begins a nested run
   with checked information, the others with their own. *)
LEMMA CheckedTwice ==
  ASSUME NEW m, InfoOK(m)
  PROVE  Pin!Checked(Pin!Checked(m)) = Pin!Checked(m)
<1> DEFINE c == Pin!Checked(m)
           r == c.reserved_cores
<1>1. InfoOK(c) /\ InOrder(r) /\ r \in Seq(Nat) /\ r = Pin!CheckedReserved(m) /\ c.cores = m.cores
  BY CheckedFacts DEF InfoOK, MachineOK
<1>2. Pin!Checked(c) = [c EXCEPT !.reserved_cores = Pin!CheckedReserved(c)]
  BY DEF Pin!Checked
<1> HIDE DEF c, r
<1>3. Pin!CheckedReserved(c) = r
  <2>1. CASE ~ Pin!Counts(c)
    <3>1. Pin!CheckedReserved(c) = Pin!Ascending(r)
      BY <2>1 DEF Pin!CheckedReserved, r
    <3> QED BY <1>1, <3>1, AscendingSorted
  <2>2. CASE Pin!Counts(c)
    <3> DEFINE f == Pin!SetToSeq(Pin!ToSet(r))
    <3>1. Pin!CheckedReserved(c) = Pin!Ascending(f)
      BY <2>2 DEF Pin!CheckedReserved, r
    <3>2. Enumerates(f, r)
      BY <1>1, Enumeration
    <3> HIDE DEF f
    <3>3. Pin!Counts(m)
      <4>1. CASE ~ Pin!Counts(m)
        <5>1. r = Pin!Ascending(m.reserved_cores) /\ m.reserved_cores \in Seq(Nat)
          BY <1>1, <4>1 DEF Pin!CheckedReserved, InfoOK, MachineOK
        <5>2. Len(r) = Len(m.reserved_cores)
          BY <5>1, AscendingInOrder
        <5> QED BY <1>1, <2>2, <4>1, <5>2 DEF Pin!Counts, r
      <4> QED BY <4>1
    <3> DEFINE g == Pin!SetToSeq(Pin!ToSet(m.reserved_cores))
    <3>4. r = Pin!Ascending(g)
      BY <1>1, <3>3 DEF Pin!CheckedReserved
    <3>5. g \in Seq(Nat) /\ \A i, j \in 1 .. Len(g) : g[i] = g[j] => i = j
      BY Enumeration DEF InfoOK, MachineOK, Enumerates
    <3> HIDE DEF g
    <3>6. \A i, j \in 1 .. Len(r) : r[i] = r[j] => i = j
      BY <3>4, <3>5, AscendingOnce
    <3> QED BY <1>1, <3>1, <3>2, <3>6, AscendingAgain
  <2> QED BY <2>1, <2>2
<1>4. [c EXCEPT !.reserved_cores = r] = c
  BY DEF c, r, Pin!Checked
<1> QED BY <1>2, <1>3, <1>4 DEF c
----
(* What a run that is not pinned by hand looks like. *)

ThreadFor(m, a) == Pin!Translated(m, Pin!Filtered(m, a))

RunIs(r, m, part, P) ==
  /\ r.P = P /\ r.affinity = m.affinity
  /\ Pin!HasRoom(r) => Room(part, P)
  /\ Pin!ThreadsOf(r) = {r.pinning[s] : s \in 0 .. P-1}
  /\ \A s \in 0 .. P-1 :
       /\ r.parts[s] = PartOf(m, part, P, s)
       /\ r.pinning[s] = ThreadFor(m, PartOf(m, part, P, s).start)
       /\ Pin!StaysApart(m, r) => Shifted(m, PartOf(m, part, P, s).start)

LEMMA PinnedIs ==
  ASSUME NEW m, NEW part, NEW P \in Nat \ {0}, NEW r, r = Pin!Pinned(m, part, P),
         r.affinity # "manual"
  PROVE  RunIs(r, m, part, P)
<1>1. m.affinity # "manual"
  BY DEF Pin!Pinned, Pin!ManualRun
<1>2. r = Pin!SystematicRun(m, part, P)
  BY <1>1 DEF Pin!Pinned
<1>3. /\ r.P = P /\ r.affinity = m.affinity /\ r.within = part
      /\ r.parts = Pin!Partition(part, P, m.affinity)
      /\ r.pinning = [s \in 0 .. P-1 |-> Pin!Translated(m, Pin!Filtered(m, r.parts[s].start))]
  BY <1>2 DEF Pin!SystematicRun
<1>4. \A s \in 0 .. P-1 : r.parts[s] = PartOf(m, part, P, s)
  BY <1>3 DEF Pin!Partition, PartOf
<1>5. \A s \in 0 .. P-1 : r.pinning[s] = ThreadFor(m, PartOf(m, part, P, s).start)
  BY <1>3, <1>4 DEF ThreadFor
<1>6. Pin!HasRoom(r) => Room(part, P)
  BY <1>3 DEF Pin!HasRoom, Room
<1>7. Pin!ThreadsOf(r) = {r.pinning[s] : s \in 0 .. P-1}
  BY <1>3 DEF Pin!ThreadsOf
<1>8. ASSUME Pin!StaysApart(m, r), NEW s \in 0 .. P-1
      PROVE  Shifted(m, PartOf(m, part, P, s).start)
  BY <1>3, <1>4, <1>8 DEF Pin!StaysApart, Shifted, Fits
<1> QED BY <1>3, <1>4, <1>5, <1>6, <1>7, <1>8 DEF RunIs

(* Information as a run uses it, and a word behind the list of reserved
   cores that looks like no core. *)
Ready(m) == InfoOK(m) /\ InOrder(m.reserved_cores) /\ stray \in Nat /\ m.cores <= stray

(* The threads of two runs whose starts differ. *)
LEMMA ThreadsDiffer ==
  ASSUME NEW m, Ready(m), NEW a, NEW b, a # b, Shifted(m, a), Shifted(m, b),
         NEW p, NEW q, InPart(m, p, a), InPart(m, q, b)
  PROVE  ThreadFor(m, a) # ThreadFor(m, b)
<1>1. /\ a \in Nat /\ b \in Nat
      /\ a < m.cores * m.threads_per_core /\ b < m.cores * m.threads_per_core
  BY DEF InPart
<1> QED BY <1>1, PinnedApart DEF Ready, InfoOK, ThreadFor

LEMMA OwnThreads ==
  ASSUME NEW m, Ready(m), NEW part, GoodPart(m, part), NEW P, Room(part, P),
         NEW r, RunIs(r, m, part, P), Pin!StaysApart(m, r)
  PROVE  Pin!Cardinality(Pin!ThreadsOf(r)) = P
<1> DEFINE x(s) == PartOf(m, part, P, s).start
           f == r.pinning
<1>0. P \in Nat \ {0} /\ MachineOK(m)
  BY DEF Room, Ready, InfoOK
<1>1. \A s \in 0 .. P-1 : InPart(m, part, x(s)) /\ Shifted(m, x(s)) /\ f[s] = ThreadFor(m, x(s))
  BY <1>0, PartStarts DEF RunIs
<1>2. \A s, t \in 0 .. P-1 : s < t => x(s) # x(t)
  <2> SUFFICES ASSUME NEW s \in 0 .. P-1, NEW t \in 0 .. P-1, s < t
               PROVE  x(s) # x(t)
    OBVIOUS
  <2>1. x(s) < x(t)
    BY <1>0, StartsApart
  <2>2. x(s) \in Nat /\ x(t) \in Nat
    BY <1>1 DEF InPart
  <2> QED BY <2>1, <2>2
<1> HIDE DEF x, f
<1>3. \A s, t \in 0 .. P-1 : s < t => f[s] # f[t]
  BY <1>1, <1>2, ThreadsDiffer
<1>4. Cardinality({f[s] : s \in 0 .. P-1}) = P
  BY <1>0, <1>3, ImageCount
<1> QED BY <1>4, SameCardinality DEF RunIs, f

(* Without reserved cores nothing is shifted. *)
LEMMA NoShift ==
  ASSUME NEW m, MachineOK(m), m.reserved_cores = <<>>, NEW part, NEW a, InPart(m, part, a)
  PROVE  /\ ThreadFor(m, a) \in 0 .. (m.cores * m.threads_per_core) - 1
         /\ Pin!CoreOf(m, ThreadFor(m, a)) = a \div m.threads_per_core
<1>1. Pin!Filtered(m, a) = a
  BY DEF Pin!Filtered
<1>2. a \in Nat /\ a < m.cores * m.threads_per_core
  BY DEF InPart
<1>3. /\ ThreadFor(m, a) \in Nat /\ ThreadFor(m, a) < m.cores * m.threads_per_core
      /\ Pin!CoreOf(m, ThreadFor(m, a)) = a \div m.threads_per_core
  BY <1>1, <1>2, TranslatedFacts DEF ThreadFor
<1>4. m.cores * m.threads_per_core \in Nat
  BY DEF MachineOK
<1> QED BY <1>3, <1>4

----
(* The invariant. *)

NestedOK(s) ==
  \/ nested[s] = Pin!NoRun
  \/ \E Q \in 1 .. MaxP :
       nested[s] = Pin!Pinned(Pin!Checked(Pin!InfoOf(s)), run.parts[s], Q)

RunsOK(P) ==
  /\ run = Pin!Pinned(machine, Pin!WholeMachine(machine), P)
  /\ DOMAIN nested = 0 .. P-1
  /\ \A s \in 0 .. P-1 : NestedOK(s)

(* What the machine information and the runs are made of: a run is pinned
   by information which checking leaves as it is, and a nested run by what
   its process knows, in the part of that process. *)
PinIInv ==
  /\ stage = "reading" => file \in Seq(Pin!Lines)
  /\ InfoOK(machine) /\ InfoOK(fresh)
  /\ stray \in Nat
  /\ stage = "running" =>
       /\ Pin!Checked(machine) = machine
       /\ \E P \in 1 .. MaxP : RunsOK(P)

LEMMA RunningFacts ==
  ASSUME PinIInv, stage = "running"
  PROVE  /\ InOrder(machine.reserved_cores)
         /\ \E P \in Nat \ {0} : RunsOK(P)
<1>1. InOrder(Pin!Checked(machine).reserved_cores)
  BY CheckedFacts DEF PinIInv
<1>2. PICK P \in 1 .. MaxP : RunsOK(P)
  BY DEF PinIInv
<1>3. P \in Nat \ {0}
  BY PinAssumption
<1> QED BY <1>1, <1>2, <1>3 DEF PinIInv

(* Every process has a hardware thread for itself. *)
LEMMA Own ==
  ASSUME PinIInv
  PROVE  Pin!ThreadsAreTheirOwn
<1> SUFFICES ASSUME stage = "running", run.affinity # "manual", Pin!HasRoom(run)
             PROVE  /\ stray >= machine.cores /\ Pin!StaysApart(machine, run) =>
                         Pin!Cardinality(Pin!ThreadsOf(run)) = run.P
                    /\ machine.reserved_cores = <<>> =>
                         Pin!ThreadsOf(run) \subseteq
                           0 .. (machine.cores * machine.threads_per_core) - 1
  BY DEF Pin!ThreadsAreTheirOwn
<1> DEFINE part == Pin!WholeMachine(machine)
<1>1. PICK P \in Nat \ {0} : RunsOK(P)
  BY RunningFacts
<1>2. RunIs(run, machine, part, P)
  BY <1>1, PinnedIs DEF RunsOK
<1>3. MachineOK(machine) /\ InfoOK(machine) /\ stray \in Nat /\ machine.cores \in Nat
  BY DEF PinIInv, InfoOK, MachineOK
<1>4. Room(part, P) /\ GoodPart(machine, part) /\ run.P = P
  BY <1>2, <1>3, WholeIsGood DEF RunIs
<1> HIDE DEF part
<1>5. ASSUME stray >= machine.cores, Pin!StaysApart(machine, run)
      PROVE  Pin!Cardinality(Pin!ThreadsOf(run)) = run.P
  <2>1. machine.cores <= stray
    BY <1>3, <1>5
  <2>2. Ready(machine)
    BY <1>3, <2>1, RunningFacts DEF Ready
  <2> QED BY <1>2, <1>4, <1>5, <2>2, OwnThreads
<1>6. ASSUME machine.reserved_cores = <<>>, NEW s \in 0 .. P-1
      PROVE  run.pinning[s] \in 0 .. (machine.cores * machine.threads_per_core) - 1
  <2> DEFINE a == PartOf(machine, part, P, s).start
  <2>1. InPart(machine, part, a)
    BY <1>3, <1>4, PartStarts
  <2>2. run.pinning[s] = ThreadFor(machine, a)
    BY <1>2 DEF RunIs
  <2> HIDE DEF a
  <2> QED BY <1>3, <1>6, <2>1, <2>2, NoShift
<1>7. Pin!ThreadsOf(run) = {run.pinning[s] : s \in 0 .. P-1}
  BY <1>2 DEF RunIs
<1> QED BY <1>5, <1>6, <1>7

(* Scattered processes, not more than there are cores, are on cores of
   their own. *)
LEMMA Spreads ==
  ASSUME PinIInv
  PROVE  Pin!ScatterSpreads
<1> SUFFICES ASSUME stage = "running", run.affinity = "scatter", run.P <= machine.cores,
                    machine.reserved_cores = <<>>
             PROVE  Pin!Cardinality({Pin!CoreOf(machine, t) : t \in Pin!ThreadsOf(run)}) = run.P
  BY DEF Pin!ScatterSpreads
<1> DEFINE part == Pin!WholeMachine(machine)
           d == machine.threads_per_core
           c == machine.cores
           M == c * d
<1>1. PICK P \in Nat \ {0} : RunsOK(P)
  BY RunningFacts
<1>2. RunIs(run, machine, part, P)
  BY <1>1, PinnedIs DEF RunsOK
<1>3. MachineOK(machine) /\ c \in Nat /\ d \in Nat \ {0}
  BY DEF PinIInv, InfoOK, MachineOK
<1>4. run.P = P /\ machine.affinity = "scatter" /\ P <= c
  BY <1>2 DEF RunIs
<1>5. part.start = 0 /\ part.stride = 1 /\ part.end = M /\ GoodPart(machine, part)
  BY <1>3, WholeIsGood DEF Pin!WholeMachine
<1> HIDE DEF part
<1>6. M \in Nat /\ P * d <= M /\ M - 0 = M
  <2> HIDE DEF c, d
  <2>1. PICK v \in Nat : c = P + v
    <3> DEFINE v == c - P
    <3>1. v \in Nat /\ c = P + v
      BY <1>3, <1>4
    <3> QED BY <3>1
  <2>2. M = P * d + v * d /\ v * d \in Nat /\ P * d \in Nat
    BY <1>3, <2>1
  <2> QED BY <2>2
<1>7. Room(part, P)
  <2>1. P * 1 <= P * d
    <3> HIDE DEF d
    <3>1. PICK v \in Nat : d = 1 + v
      <4> DEFINE v == d - 1
      <4>1. v \in Nat /\ d = 1 + v
        BY <1>3
      <4> QED BY <4>1
    <3>2. P * d = P + P * v /\ P * v \in Nat
      BY <3>1
    <3> QED BY <3>2
  <2>2. P * 1 \in Nat /\ P * d \in Nat
    BY <1>3
  <2> HIDE DEF M, d
  <2>3. P * 1 <= M
    BY <1>6, <2>1, <2>2
  <2> QED BY <1>5, <1>6, <2>3 DEF Room
<1> HIDE DEF M
<1> DEFINE x(s) == PartOf(machine, part, P, s).start
           f == [s \in 0 .. P-1 |-> x(s) \div d]
<1>8. \A s \in 0 .. P-1 : x(s) = (s * M) \div P
  BY <1>3, <1>4, <1>7, WholeStarts DEF part, M
<1>9. \A s, t \in 0 .. P-1 : s < t => f[s] # f[t]
  <2> SUFFICES ASSUME NEW s \in 0 .. P-1, NEW t \in 0 .. P-1, s < t
               PROVE  x(s) \div d # x(t) \div d
    OBVIOUS
  <2> DEFINE a == (s * M) \div P
             b == (t * M) \div P
             e == M \div P
  <2>1. a + e <= b
    BY <1>6, ScatterGrows
  <2>2. a \in Nat /\ e \in Nat /\ b \in Nat
    <3>1. s * M \in Nat /\ t * M \in Nat
      BY <1>6
    <3> QED BY <1>6, <3>1, DivMod
  <2>3. d <= e
    BY <1>3, <1>6, QuotientIs
  <2>4. x(s) = a /\ x(t) = b
    BY <1>8
  <2> HIDE DEF a, b, e, d, x
  <2>5. PICK q \in Nat, r \in 0 .. d-1 : a = d * q + r /\ q = a \div d
    BY <1>3, <2>2, DivMod
  <2>6. q + 1 \in Nat /\ d * (q + 1) = d * q + d /\ d * q \in Nat
    BY <1>3
  <2>7. d * (q + 1) <= b
    BY <1>3, <2>1, <2>2, <2>3, <2>5, <2>6
  <2>8. q + 1 <= b \div d
    BY <1>3, <2>2, <2>6, <2>7, QuotientIs
  <2>9. b \div d \in Nat
    BY <1>3, <2>2, DivMod
  <2> QED BY <2>4, <2>5, <2>8, <2>9
<1>10. \A s \in 0 .. P-1 : Pin!CoreOf(machine, run.pinning[s]) = f[s]
  <2> SUFFICES ASSUME NEW s \in 0 .. P-1
               PROVE  Pin!CoreOf(machine, run.pinning[s]) = x(s) \div d
    OBVIOUS
  <2>1. run.pinning[s] = ThreadFor(machine, x(s))
    BY <1>2 DEF RunIs
  <2>2. InPart(machine, part, x(s))
    BY <1>3, <1>5, <1>7, PartStarts
  <2> HIDE DEF x
  <2> QED BY <1>3, <2>1, <2>2, NoShift DEF d
<1> HIDE DEF f
<1>11. Cardinality({f[s] : s \in 0 .. P-1}) = P
  BY <1>9, ImageCount
<1>12. {Pin!CoreOf(machine, t) : t \in Pin!ThreadsOf(run)} = {f[s] : s \in 0 .. P-1}
  <2>1. Pin!ThreadsOf(run) = {run.pinning[s] : s \in 0 .. P-1}
    BY <1>2 DEF RunIs
  <2> QED BY <1>10, <2>1
<1> QED BY <1>4, <1>11, <1>12, SameCardinality
(* One reserved core of a machine without hyperthreading is left alone. *)
LEMMA OneShift ==
  ASSUME NEW m, MachineOK(m), m.threads_per_core = 1, Len(m.reserved_cores) = 1,
         stray \in Nat, m.cores <= stray, NEW a \in Nat, a + 1 < m.cores
  PROVE  ThreadFor(m, a) \in (0 .. m.cores - 1) \ Pin!ToSet(m.reserved_cores)
<1> DEFINE list == m.reserved_cores
           L == Pin!LowerBound(list, a)
<1>1. list \in Seq(Nat) /\ m.cores \in Nat /\ list # <<>> /\ list[1] \in Nat
  BY DEF MachineOK
<1>2. \A x \in Nat : x \div 1 = x /\ x % 1 = 0
  OBVIOUS
<1>3. Pin!Filtered(m, a) = a + (L + 1) * 1
  BY <1>1, <1>2 DEF Pin!Filtered
<1>4. Pin!ToSet(list) = {list[1]}
  BY <1>1 DEF Pin!ToSet
<1>5. (L = -1 /\ a < list[1]) \/ Splits(list, a, L)
  <2>1. Len(list) # 0 /\ a < stray
    BY <1>1
  <2> HIDE DEF list
  <2> QED BY <1>1, <2>1, LowerBoundFacts DEF L
<1>6. \A x \in Nat : Pin!Translated(m, x) = x
  <2>1. \A x \in Nat : x + 0 * m.cores = x
    BY <1>1
  <2> QED BY <1>2, <2>1 DEF Pin!Translated
<1> HIDE DEF list, L
<1>7. CASE L = -1 /\ a < list[1]
  <2>1. Pin!Filtered(m, a) = a
    BY <1>3, <1>7
  <2> QED BY <1>1, <1>4, <1>6, <1>7, <2>1 DEF ThreadFor, list
<1>8. CASE Splits(list, a, L)
  <2>1. L = 0 /\ list[1] <= a
    BY <1>1, <1>8 DEF Splits, list
  <2>2. Pin!Filtered(m, a) = a + 1
    BY <1>3, <2>1
  <2> QED BY <1>1, <1>4, <1>6, <2>1, <2>2 DEF ThreadFor, list
<1> QED BY <1>5, <1>7, <1>8

LEMMA Free ==
  ASSUME PinIInv
  PROVE  Pin!OneReservedCoreStaysFree
<1> SUFFICES ASSUME stage = "running", run.affinity # "manual",
                    Len(machine.reserved_cores) = 1, machine.threads_per_core = 1,
                    run.P < machine.cores, stray >= machine.cores
             PROVE  Pin!ThreadsOf(run) \subseteq
                      (0 .. machine.cores - 1) \ Pin!ToSet(machine.reserved_cores)
  BY DEF Pin!OneReservedCoreStaysFree
<1> DEFINE part == Pin!WholeMachine(machine)
           c == machine.cores
<1>1. PICK P \in Nat \ {0} : RunsOK(P)
  BY RunningFacts
<1>2. RunIs(run, machine, part, P)
  BY <1>1, PinnedIs DEF RunsOK
<1>3. MachineOK(machine) /\ c \in Nat /\ stray \in Nat /\ c <= stray
  BY DEF PinIInv, InfoOK, MachineOK
<1>4. run.P = P /\ P < c
  BY <1>2 DEF RunIs
<1>5. Room(part, P) /\ c * machine.threads_per_core = c
  BY <1>3, <1>4 DEF Room, Pin!WholeMachine
<1>6. ASSUME NEW s \in 0 .. P-1
      PROVE  run.pinning[s] \in (0 .. machine.cores - 1) \ Pin!ToSet(machine.reserved_cores)
  <2> DEFINE a == PartOf(machine, part, P, s).start
  <2>1. a = IF machine.affinity = "scatter" THEN (s * c) \div P ELSE s
    BY <1>3, <1>5, WholeStarts
  <2>2. run.pinning[s] = ThreadFor(machine, a)
    BY <1>2 DEF RunIs
  <2> HIDE DEF a, part, c
  <2>3. s \in Nat /\ s < P
    BY <1>4
  <2>4. (s * c) \div P \in Nat /\ (s * c) \div P < c - 1
    <3>1. s * c + c <= P * c
      BY <1>3, <2>3, LaterProduct
    <3>2. P * (c - 1) = P * c - P /\ P * c \in Nat /\ s * c \in Nat /\ c - 1 \in Nat
      BY <1>3, <1>4, <2>3
    <3>3. s * c < P * (c - 1)
      BY <1>3, <1>4, <3>1, <3>2
    <3>4. (s * c) \div P < c - 1
      BY <3>2, <3>3, QuotientBelow
    <3> QED BY <3>2, <3>4, DivMod
  <2>5. a \in Nat /\ a + 1 < c
    <3> DEFINE w == (s * c) \div P
    <3> HIDE DEF w
    <3>1. w \in Nat /\ w < c - 1 /\ (a = w \/ a = s)
      BY <2>1, <2>4 DEF w
    <3> QED BY <1>3, <1>4, <2>3, <3>1
  <2> QED BY <1>3, <2>2, <2>5, OneShift DEF c
<1>7. Pin!ThreadsOf(run) = {run.pinning[s] : s \in 0 .. P-1}
  BY <1>2 DEF RunIs
<1> QED BY <1>6, <1>7

(* A thread of a nested run. *)
LEMMA NestedThread ==
  ASSUME PinIInv, stage = "running", NEW P \in Nat \ {0}, RunsOK(P), NEW s \in 0 .. P-1,
         Pin!HasRoom(run), run.affinity # "manual",
         Pin!HasRoom(nested[s]), nested[s].affinity = run.affinity,
         machine = Pin!Checked(fresh), Pin!StaysApart(machine, nested[s]),
         NEW t \in Pin!ThreadsOf(nested[s])
  PROVE  \E a : /\ InPart(machine, PartOf(machine, Pin!WholeMachine(machine), P, s), a)
                /\ Shifted(machine, a) /\ t = ThreadFor(machine, a)
<1> DEFINE whole == Pin!WholeMachine(machine)
           part == PartOf(machine, whole, P, s)
           r == nested[s]
<1>1. RunIs(run, machine, whole, P)
  BY PinnedIs DEF RunsOK
<1>2. Room(whole, P) /\ run.parts[s] = part
  BY <1>1 DEF RunIs
<1>3. MachineOK(machine)
  BY DEF PinIInv, InfoOK
<1>4. GoodPart(machine, part)
  BY <1>2, <1>3, OuterParts
<1>5. Pin!Checked(Pin!InfoOf(s)) = machine
  BY DEF Pin!InfoOf, PinIInv
<1>6. r # Pin!NoRun
  BY DEF Pin!HasRoom, Pin!NoRun
<1>7. PICK Q \in 1 .. MaxP : r = Pin!Pinned(machine, part, Q)
  BY <1>2, <1>5, <1>6 DEF RunsOK, NestedOK
<1>8. Q \in Nat \ {0}
  BY PinAssumption
<1> HIDE DEF r, part
<1>9. RunIs(r, machine, part, Q)
  BY <1>7, <1>8, PinnedIs DEF r
<1>10. Room(part, Q)
  BY <1>9 DEF RunIs, r
<1>11. PICK u \in 0 .. Q-1 : t = r.pinning[u]
  BY <1>9 DEF RunIs, r
<1> DEFINE a == PartOf(machine, part, Q, u).start
<1>12. InPart(machine, part, a)
  BY <1>3, <1>4, <1>10, PartStarts
<1>13. Shifted(machine, a) /\ t = ThreadFor(machine, a)
  BY <1>9, <1>11 DEF RunIs, r
<1> QED BY <1>12, <1>13 DEF part

LEMMA NestedApart ==
  ASSUME PinIInv
  PROVE  Pin!NestedRunsAreApart
<1> DEFINE Fine(s) == /\ Pin!HasRoom(nested[s]) /\ nested[s].affinity = run.affinity
                      /\ Pin!StaysApart(machine, nested[s])
<1> SUFFICES ASSUME stage = "running", NEW s \in DOMAIN nested, NEW t \in DOMAIN nested,
                    s # t, Fine(s), Fine(t), Pin!HasRoom(run), run.affinity # "manual",
                    machine = Pin!Checked(fresh), stray >= machine.cores
             PROVE  Pin!ThreadsOf(nested[s]) \cap Pin!ThreadsOf(nested[t]) = {}
  BY DEF Pin!NestedRunsAreApart
<1>1. PICK P \in Nat \ {0} : RunsOK(P)
  BY RunningFacts
<1>2. s \in 0 .. P-1 /\ t \in 0 .. P-1
  BY <1>1 DEF RunsOK
<1>3. MachineOK(machine) /\ machine.cores \in Nat /\ stray \in Nat
  BY DEF PinIInv, InfoOK, MachineOK
<1>4. Ready(machine)
  BY <1>3, RunningFacts DEF Ready, PinIInv
<1> DEFINE part(u) == PartOf(machine, Pin!WholeMachine(machine), P, u)
<1>5. Room(Pin!WholeMachine(machine), P)
  BY <1>1, PinnedIs DEF RunsOK, RunIs
<1> SUFFICES ASSUME NEW x \in Pin!ThreadsOf(nested[s]), x \in Pin!ThreadsOf(nested[t])
             PROVE  FALSE
  OBVIOUS
<1>6. PICK a : InPart(machine, part(s), a) /\ Shifted(machine, a) /\ x = ThreadFor(machine, a)
  BY <1>1, <1>2, NestedThread
<1>7. PICK b : InPart(machine, part(t), b) /\ Shifted(machine, b) /\ x = ThreadFor(machine, b)
  BY <1>1, <1>2, NestedThread
<1>8. a # b
  <2>1. CASE s < t
    BY <1>2, <1>3, <1>5, <1>6, <1>7, <2>1, SiblingsApart
  <2>2. CASE t < s
    BY <1>2, <1>3, <1>5, <1>6, <1>7, <2>2, SiblingsApart
  <2> QED BY <1>2, <2>1, <2>2
<1> QED BY <1>4, <1>6, <1>7, <1>8, ThreadsDiffer

LEMMA PinningFollows ==
  ASSUME PinIInv
  PROVE  PinningInv
BY Own, Spreads, Free, NestedApart DEF PinningInv, Pin!PinningInv
----
(* Every step keeps the invariant. *)

LEMMA PinInitial ==
  ASSUME Pin!Init
  PROVE  PinIInv
<1>1. Pin!InputsAssumption /\ Strays \subseteq Nat
  BY PinAssumption
<1>2. file \in Seq(Pin!Lines)
  BY <1>1 DEF Pin!Init, Pin!InitInfo, Pin!InputsAssumption
<1>3. machine = Pin!Defaults /\ fresh = Pin!Defaults /\ stage = "reading" /\ stray \in Nat
  BY <1>1 DEF Pin!Init, Pin!InitInfo
<1>4. InfoOK(Pin!Defaults)
  BY DEF InfoOK, MachineOK, Pin!Defaults
<1> QED BY <1>2, <1>3, <1>4 DEF PinIInv

LEMMA LinesAreProper ==
  ASSUME NEW line \in Pin!Lines
  PROVE  Pin!ProperLine(line)
BY PinAssumption DEF Pin!InputsAssumption

LEMMA ReadLineKeeps ==
  ASSUME PinIInv, Pin!ReadLine, UNCHANGED stray
  PROVE  PinIInv'
<1> DEFINE line == Head(file)
<1>1. /\ stage = "reading" /\ file # <<>> /\ file \in Seq(Pin!Lines)
      /\ file' = Tail(file) /\ fresh' = fresh /\ stage' = stage
      /\ \/ Pin!Ignored(line)
         \/ /\ line.values # <<>>
            /\ \/ Pin!ReadNumber(line) \/ Pin!ReadSetting(line)
               \/ Pin!ReadPinning(line) \/ Pin!ReadReserved(line)
  BY DEF PinIInv, Pin!ReadLine
<1>2. line \in Pin!Lines /\ file' \in Seq(Pin!Lines)
  BY <1>1
<1>3. Pin!ProperLine(line)
  BY <1>2, LinesAreProper
<1> HIDE DEF line
<1>4. InfoOK(machine)
  BY DEF PinIInv
<1>5. ASSUME Pin!Ignored(line)
      PROVE  InfoOK(machine')
  BY <1>4, <1>5 DEF Pin!Ignored
<1>6. ASSUME line.values # <<>>, Pin!ReadNumber(line)
      PROVE  InfoOK(machine')
  <2>1. CASE machine' = machine
    BY <1>4, <2>1
  <2>2. CASE line.values[1] # Pin!Bad /\ machine' = [machine EXCEPT ![line.key] = line.values[1]]
    <3>1. line.key = "threads" \/ (line.key = "cores" /\ line.values[1] \in Nat)
      BY <1>3, <1>6, <2>2 DEF Pin!ReadNumber, Pin!ProperLine
    <3> QED BY <1>4, <2>2, <3>1 DEF InfoOK, MachineOK, Pin!Defaults
  <2> QED BY <1>6, <2>1, <2>2 DEF Pin!ReadNumber
<1>7. ASSUME line.values # <<>>, Pin!ReadSetting(line)
      PROVE  InfoOK(machine')
  <2>1. PICK v : machine' = [machine EXCEPT ![line.key] = v]
                 /\ (line.key = "threads_per_core" => v \in Nat \ {0})
    <3> DEFINE v == IF Pin!Understood(line) THEN line.values[1]
                    ELSE IF line.key = "safe_checkpoint_frequency" THEN machine.checkpoint_frequency
                    ELSE Pin!Defaults[line.key]
    <3>1. machine' = [machine EXCEPT ![line.key] = v]
      BY <1>7 DEF Pin!ReadSetting
    <3>2. ASSUME line.key = "threads_per_core"
          PROVE  v \in Nat \ {0}
      <4>1. line.values[1] # 0
        BY <1>3, <1>7, <3>2 DEF Pin!ProperLine
      <4>2. Pin!Understood(line) <=> line.values[1] \in Nat
        BY <3>2 DEF Pin!Understood
      <4>3. Pin!Defaults[line.key] = 1
        BY <3>2 DEF Pin!Defaults
      <4> QED BY <3>2, <4>1, <4>2, <4>3
    <3> QED BY <3>1, <3>2
  <2>2. line.key \notin {"cores", "reserved_cores"}
    BY <1>7 DEF Pin!ReadSetting
  <2> QED BY <1>4, <2>1, <2>2 DEF InfoOK, MachineOK, Pin!Defaults
<1>8. ASSUME line.values # <<>>, Pin!ReadPinning(line)
      PROVE  InfoOK(machine')
  BY <1>4, <1>8 DEF Pin!ReadPinning, InfoOK, MachineOK, Pin!Defaults
<1>9. ASSUME line.values # <<>>, Pin!ReadReserved(line)
      PROVE  InfoOK(machine')
  <2>1. line.values \in Seq(Nat \cup {Pin!Bad})
    BY <1>3, <1>9 DEF Pin!ReadReserved, Pin!ProperLine, Pin!Bad
  <2> DEFINE list == IF \E k \in 1 .. Len(line.values) : line.values[k] = Pin!Bad
                     THEN <<>> ELSE line.values
  <2>2. list \in Seq(Nat)
    <3>1. CASE \E k \in 1 .. Len(line.values) : line.values[k] = Pin!Bad
      BY <3>1
    <3>2. CASE \A k \in 1 .. Len(line.values) : line.values[k] # Pin!Bad
      <4>1. \A k \in 1 .. Len(line.values) : line.values[k] \in Nat
        BY <2>1, <3>2
      <4> QED BY <2>1, <3>2, <4>1
    <3> QED BY <3>1, <3>2
  <2>3. machine' = [machine EXCEPT !.reserved_cores = list]
    BY <1>9 DEF Pin!ReadReserved
  <2> HIDE DEF list
  <2> QED BY <1>4, <2>2, <2>3 DEF InfoOK, MachineOK, Pin!Defaults
<1>10. InfoOK(machine')
  BY <1>1, <1>5, <1>6, <1>7, <1>8, <1>9
<1> QED BY <1>1, <1>2, <1>10 DEF PinIInv, InfoOK, MachineOK

LEMMA EndOfFileKeeps ==
  ASSUME PinIInv, Pin!EndOfFile, UNCHANGED stray
  PROVE  PinIInv'
<1>1. InfoOK(machine)
  BY DEF PinIInv
<1>2. Pin!Cores \in Nat
  <2>1. CASE "cores" \in known
    BY <1>1, <2>1 DEF Pin!Cores, InfoOK, MachineOK
  <2>2. CASE "cores" \notin known
    <3> DEFINE d == machine.threads_per_core
               a == HardwareThreads + d - 1
    <3>1. d \in Nat \ {0} /\ HardwareThreads \in Nat
      BY <1>1, PinAssumption DEF InfoOK, MachineOK, Pin!InputsAssumption
    <3>2. Pin!Cores = a \div d
      BY <2>2 DEF Pin!Cores
    <3>3. a \in Nat
      BY <3>1
    <3> HIDE DEF a, d
    <3> QED BY <3>1, <3>2, <3>3, DivMod
  <2> QED BY <2>1, <2>2
<1>3. InfoOK(machine')
  BY <1>1, <1>2 DEF Pin!EndOfFile, InfoOK, MachineOK, Pin!Defaults
<1>4. fresh' = machine' /\ stage' = "ready"
  BY DEF Pin!EndOfFile
<1> QED BY <1>3, <1>4 DEF PinIInv, InfoOK, MachineOK

LEMMA SetKeeps ==
  ASSUME PinIInv, Pin!Set, UNCHANGED stray
  PROVE  PinIInv'
<1>1. InfoOK(machine)
  BY DEF PinIInv
<1>2. PICK c \in Calls : Pin!SetPinning(c) \/ Pin!SetReserved(c) \/ Pin!SetField(c)
  BY DEF Pin!Set
<1>3. Pin!ProperCall(c)
  BY PinAssumption DEF Pin!InputsAssumption
<1>4. ASSUME Pin!SetPinning(c)
      PROVE  InfoOK(machine')
  BY <1>1, <1>4 DEF Pin!SetPinning, InfoOK, MachineOK, Pin!Defaults
<1>5. ASSUME Pin!SetReserved(c)
      PROVE  InfoOK(machine')
  <2>1. c.values \in Seq(Nat) /\ machine' = [machine EXCEPT !.reserved_cores = c.values]
    BY <1>3, <1>5 DEF Pin!SetReserved, Pin!ProperCall
  <2> QED BY <1>1, <2>1 DEF InfoOK, MachineOK, Pin!Defaults
<1>6. ASSUME Pin!SetField(c)
      PROVE  InfoOK(machine')
  <2>1. /\ machine' = [machine EXCEPT ![c.key] = c.values[1]]
        /\ c.key # "reserved_cores"
        /\ c.key = "cores" => c.values[1] \in Nat
        /\ c.key = "threads_per_core" => c.values[1] \in Nat \ {0}
    BY <1>3, <1>6 DEF Pin!SetField, Pin!ProperCall
  <2> QED BY <1>1, <2>1 DEF InfoOK, MachineOK, Pin!Defaults
<1>7. InfoOK(machine')
  BY <1>2, <1>4, <1>5, <1>6
<1>8. fresh' = fresh /\ stage' = "ready" /\ stage = "ready"
  BY DEF Pin!Set
<1> QED BY <1>7, <1>8 DEF PinIInv, InfoOK, MachineOK

(* What a run is made of does not change with it. *)
LEMMA SameRun ==
  ASSUME UNCHANGED <<machine, stray>>, NEW P
  PROVE  Pin!Pinned(machine, Pin!WholeMachine(machine), P)'
           = Pin!Pinned(machine, Pin!WholeMachine(machine), P)
BY SMT DEF Pin!Pinned, Pin!ManualRun, Pin!SystematicRun, Pin!WholeMachine, Pin!Translated,
           Pin!Filtered, Pin!LowerBound

LEMMA SameChecked ==
  ASSUME UNCHANGED <<machine, fresh, debug>>, NEW s
  PROVE  /\ Pin!Checked(machine)' = Pin!Checked(machine)
         /\ Pin!Checked(Pin!InfoOf(s))' = Pin!Checked(Pin!InfoOf(s))
BY SMT DEF Pin!Checked, Pin!CheckedReserved, Pin!Counts, Pin!InfoOf

LEMMA SameNested ==
  ASSUME UNCHANGED <<machine, fresh, debug, stray, run>>, NEW s, NEW Q
  PROVE  Pin!Pinned(Pin!Checked(Pin!InfoOf(s)), run.parts[s], Q)'
           = Pin!Pinned(Pin!Checked(Pin!InfoOf(s)), run.parts[s], Q)
BY SMT DEF Pin!Pinned, Pin!ManualRun, Pin!SystematicRun, Pin!WholeMachine, Pin!Translated,
           Pin!Filtered, Pin!LowerBound, Pin!Checked, Pin!CheckedReserved, Pin!Counts, Pin!InfoOf

LEMMA NestedKeeps ==
  ASSUME UNCHANGED <<machine, fresh, debug, stray, run>>, NEW s,
         NestedOK(s), nested'[s] = nested[s]
  PROVE  NestedOK(s)'
<1>1. CASE nested[s] = Pin!NoRun
  BY <1>1 DEF NestedOK, Pin!NoRun
<1>2. CASE \E Q \in 1 .. MaxP :
             nested[s] = Pin!Pinned(Pin!Checked(Pin!InfoOf(s)), run.parts[s], Q)
  <2>1. PICK Q \in 1 .. MaxP :
               nested[s] = Pin!Pinned(Pin!Checked(Pin!InfoOf(s)), run.parts[s], Q)
    BY <1>2
  <2>2. nested'[s] = Pin!Pinned(Pin!Checked(Pin!InfoOf(s)), run.parts[s], Q)'
    BY <2>1, SameNested
  <2> QED BY <2>2 DEF NestedOK
<1> QED BY <1>1, <1>2 DEF NestedOK

LEMMA NothingChanges ==
  ASSUME PinIInv, UNCHANGED pinVars
  PROVE  PinIInv'
<1>1. /\ file' = file /\ machine' = machine /\ fresh' = fresh /\ stage' = stage
      /\ debug' = debug /\ stray' = stray /\ run' = run /\ nested' = nested
  BY DEF pinVars
<1>2. ASSUME stage = "running"
      PROVE  Pin!Checked(machine)' = machine' /\ \E P \in 1 .. MaxP : RunsOK(P)'
  <2>1. Pin!Checked(machine) = machine
    BY <1>2 DEF PinIInv
  <2>2. Pin!Checked(machine)' = machine'
    BY <1>1, <2>1, SameChecked
  <2>3. PICK P \in 1 .. MaxP : RunsOK(P)
    BY <1>2 DEF PinIInv
  <2>4. run' = Pin!Pinned(machine, Pin!WholeMachine(machine), P)'
    BY <1>1, <2>3, SameRun DEF RunsOK
  <2>5. \A s \in 0 .. P-1 : NestedOK(s)'
    BY <1>1, <2>3, NestedKeeps DEF RunsOK
  <2>6. RunsOK(P)'
    BY <1>1, <2>3, <2>4, <2>5 DEF RunsOK
  <2> QED BY <2>2, <2>6
<1> QED BY <1>1, <1>2 DEF PinIInv, InfoOK, MachineOK

LEMMA BeginKeeps ==
  ASSUME PinIInv, NEW P \in 1 .. MaxP, Pin!Begin(P)
  PROVE  PinIInv'
<1> DEFINE m == Pin!Checked(machine)
<1>1. /\ machine' = m
      /\ run' = Pin!Pinned(m, Pin!WholeMachine(machine), P)
      /\ nested' = [s \in 0 .. P-1 |-> Pin!NoRun]
      /\ stage' = "running"
      /\ fresh' = fresh /\ debug' = debug /\ stray' = stray
  BY DEF Pin!Begin
<1>2. InfoOK(machine) /\ InfoOK(fresh) /\ stray \in Nat
  BY DEF PinIInv
<1>3. InfoOK(m) /\ Pin!Checked(m) = m
  BY <1>2, CheckedFacts, CheckedTwice
<1>w. Pin!WholeMachine(machine) = Pin!WholeMachine(m)
  BY <1>2 DEF Pin!WholeMachine, Pin!Checked, InfoOK, Pin!Defaults
<1> HIDE DEF m
<1>4. InfoOK(machine')
  BY <1>1, <1>3
<1>5. Pin!Checked(machine)' = machine'
  BY <1>1, <1>3 DEF Pin!Checked, Pin!CheckedReserved, Pin!Counts
<1>6. run' = Pin!Pinned(machine, Pin!WholeMachine(machine), P)'
  <2>1. run' = Pin!Pinned(machine', Pin!WholeMachine(machine'), P)
    BY <1>1, <1>w, Zenon
  <2>2. Pin!Pinned(machine', Pin!WholeMachine(machine'), P)
          = Pin!Pinned(machine, Pin!WholeMachine(machine), P)'
    <3>1. stray' = stray
      BY <1>1
    <3> QED
      BY <3>1, SMT DEF Pin!Pinned, Pin!ManualRun, Pin!SystematicRun, Pin!WholeMachine,
         Pin!Translated, Pin!Filtered, Pin!LowerBound
  <2> QED BY <2>1, <2>2, Zenon
<1>7. \A s \in 0 .. P-1 : NestedOK(s)'
  BY <1>1 DEF NestedOK, Pin!NoRun
<1>8. RunsOK(P)'
  BY <1>1, <1>6, <1>7 DEF RunsOK
<1> QED BY <1>1, <1>2, <1>4, <1>5, <1>8 DEF PinIInv, InfoOK, MachineOK

LEMMA BeginNestedKeeps ==
  ASSUME PinIInv, NEW s \in DOMAIN nested, NEW Q \in 1 .. MaxP, Pin!BeginNested(s, Q)
  PROVE  PinIInv'
<1>1. /\ stage = "running"
      /\ nested' = [nested EXCEPT ![s] = Pin!Pinned(Pin!Checked(Pin!InfoOf(s)), run.parts[s], Q)]
      /\ file' = file /\ machine' = machine /\ fresh' = fresh /\ stage' = stage
      /\ debug' = debug /\ stray' = stray /\ run' = run
  BY DEF Pin!BeginNested, Pin!infoVars
<1>2. PICK P \in 1 .. MaxP : RunsOK(P)
  BY <1>1 DEF PinIInv
<1>3. Pin!Checked(machine)' = machine'
  <2>1. Pin!Checked(machine) = machine
    BY <1>1 DEF PinIInv
  <2> QED BY <1>1, <2>1, SameChecked
<1>4. run' = Pin!Pinned(machine, Pin!WholeMachine(machine), P)'
  BY <1>1, <1>2, SameRun DEF RunsOK
<1>5. DOMAIN nested' = 0 .. P-1 /\ DOMAIN nested = 0 .. P-1
  BY <1>1, <1>2 DEF RunsOK
<1>6. ASSUME NEW t \in 0 .. P-1
      PROVE  NestedOK(t)'
  <2>1. CASE t = s
    <3>1. nested'[s] = Pin!Pinned(Pin!Checked(Pin!InfoOf(s)), run.parts[s], Q)
      BY <1>1
    <3>2. nested'[s] = Pin!Pinned(Pin!Checked(Pin!InfoOf(s)), run.parts[s], Q)'
      BY <1>1, <3>1, SameNested
    <3> QED BY <2>1, <3>2 DEF NestedOK
  <2>2. CASE t # s
    <3>1. nested'[t] = nested[t]
      BY <1>1, <1>5, <2>2
    <3>2. NestedOK(t)
      BY <1>2 DEF RunsOK
    <3> QED BY <1>1, <3>1, <3>2, NestedKeeps
  <2> QED BY <2>1, <2>2
<1>7. RunsOK(P)'
  BY <1>4, <1>5, <1>6 DEF RunsOK
<1> QED BY <1>1, <1>3, <1>7 DEF PinIInv, InfoOK, MachineOK

LEMMA FatalKeeps ==
  ASSUME PinIInv, stage' = "fatal", UNCHANGED <<file, machine, fresh, stray>>
  PROVE  PinIInv'
BY DEF PinIInv, InfoOK, MachineOK

LEMMA PinKeeps ==
  ASSUME PinIInv, [Pin!Next]_pinVars
  PROVE  PinIInv'
<1>1. CASE Pin!ReadLine /\ UNCHANGED <<debug, stray, run, nested>>
  BY <1>1, ReadLineKeeps
<1>2. CASE Pin!EndOfFile /\ UNCHANGED <<debug, stray, run, nested>>
  BY <1>2, EndOfFileKeeps
<1>3. CASE Pin!Set /\ UNCHANGED <<debug, stray, run, nested>>
  BY <1>3, SetKeeps
<1>4. CASE \E P \in 1 .. MaxP : Pin!Begin(P)
  BY <1>4, BeginKeeps
<1>5. CASE Pin!BeginFails \/ \E s \in DOMAIN nested : Pin!NestedFails(s)
  BY <1>5, FatalKeeps DEF Pin!BeginFails, Pin!NestedFails, Pin!infoVars
<1>6. CASE \E s \in DOMAIN nested : \E P \in 1 .. MaxP : Pin!BeginNested(s, P)
  BY <1>6, BeginNestedKeeps
<1>7. CASE Pin!Over \/ UNCHANGED pinVars
  BY <1>7, NothingChanges DEF Pin!Over, Pin!vars, Pin!infoVars, pinVars
<1> QED BY <1>1, <1>2, <1>3, <1>4, <1>5, <1>6, <1>7 DEF Pin!Next

(* On every machine, with any processes and reserved cores, and whatever
   lies behind the list of those: a run the library divides gives every
   process a hardware thread of its own, scattered processes a core each
   as long as there are cores, and nested runs no thread of a sibling, as
   far as no process is shifted beyond the last core. *)
THEOREM PinningHolds == MCSpec => []PinningInv
<1>1. MCInit => PinIInv
  BY PinInitial DEF MCInit
<1>2. PinIInv /\ [MCNext]_allVars => PinIInv'
  <2>1. [MCNext]_allVars => [Pin!Next]_pinVars
    BY DEF MCNext, allVars, pinVars
  <2> QED BY <2>1, PinKeeps
<1>3. PinIInv => PinningInv
  BY PinningFollows
<1> QED BY <1>1, <1>2, <1>3, PTL DEF MCSpec
----
(* Stacks.  Doubling a capacity ends; the function that says where exists,
   for all capacities that are near enough to the target. *)

DoublesFrom(h, target, w) ==
  \A c \in Nat \ {0} : c + w >= target => h[c] = IF c >= target THEN c ELSE h[2 * c]

LEMMA DoublesFurther ==
  ASSUME NEW h, NEW target \in Nat, NEW w \in Nat, DoublesFrom(h, target, w)
  PROVE  \E g : DoublesFrom(g, target, w + 1)
<1> DEFINE g == [c \in Nat \ {0} |-> IF c + w >= target THEN h[c] ELSE h[2 * c]]
<1>1. ASSUME NEW c \in Nat \ {0}, c + (w + 1) >= target
      PROVE  g[c] = IF c >= target THEN c ELSE g[2 * c]
  <2>1. CASE c >= target
    <3>1. g[c] = h[c] /\ h[c] = c
      BY <2>1 DEF DoublesFrom
    <3> QED BY <2>1, <3>1
  <2>2. CASE ~ (c >= target)
    <3> DEFINE d == 2 * c
    <3>1. d \in Nat \ {0} /\ d + w >= target
      BY <1>1
    <3>2. g[d] = h[d]
      BY <3>1
    <3>3. g[c] = h[d]
      <4>1. CASE c + w >= target
        BY <2>2, <4>1 DEF DoublesFrom
      <4> QED BY <4>1
    <3> QED BY <2>2, <3>2, <3>3
  <2> QED BY <2>1, <2>2
<1> HIDE DEF g
<1> QED BY <1>1 DEF DoublesFrom

LEMMA DoublesFromAny ==
  ASSUME NEW target \in Nat, NEW w \in Nat
  PROVE  \E h : DoublesFrom(h, target, w)
<1> DEFINE Has(u) == \E h : DoublesFrom(h, target, u)
           T == {u \in Nat : ~ Has(u)}
<1>1. Has(0)
  <2> DEFINE h == [c \in Nat \ {0} |-> c]
  <2>1. DoublesFrom(h, target, 0)
    BY DEF DoublesFrom
  <2> QED BY <2>1
<1>2. ASSUME T # {}
      PROVE  FALSE
  <2>1. PICK u \in T : \A k \in T : u <= k
    <3>1. T \subseteq Nat
      OBVIOUS
    <3> QED BY <1>2, <3>1, LeastNumber
  <2>2. u \in Nat /\ ~ Has(u) /\ u # 0
    BY <1>1
  <2>3. u - 1 \in Nat /\ u = (u - 1) + 1 /\ u - 1 \notin T
    BY <2>1, <2>2
  <2>4. Has((u - 1) + 1)
    BY <2>3, DoublesFurther
  <2> QED BY <2>2, <2>3, <2>4
<1> QED BY <1>2

LEMMA DoublingFacts ==
  ASSUME NEW c \in Nat \ {0}, NEW target \in Nat
  PROVE  /\ S!DoubledTo(c, target) \in Nat \ {0}
         /\ S!DoubledTo(c, target) >= c /\ S!DoubledTo(c, target) >= target
<1> DEFINE Doubles(h) == h = [d \in Nat \ {0} |-> IF d >= target THEN d ELSE h[2 * d]]
           h == CHOOSE g : Doubles(g)
<1>1. Doubles(h)
  <2>1. PICK g : DoublesFrom(g, target, target)
    BY DoublesFromAny
  <2> DEFINE f == [d \in Nat \ {0} |-> g[d]]
  <2>2. ASSUME NEW d \in Nat \ {0}
        PROVE  f[d] = IF d >= target THEN d ELSE f[2 * d]
    BY <2>1 DEF DoublesFrom
  <2>3. Doubles(f)
    BY <2>2
  <2> QED BY <2>3
<1>2. S!DoubledTo(c, target) = h[c]
  BY DEF S!DoubledTo
<1> HIDE DEF h
<1> DEFINE Good(d) == h[d] \in Nat \ {0} /\ h[d] >= d /\ h[d] >= target
           T == {w \in Nat : \E d \in Nat \ {0} : target <= d + w /\ ~ Good(d)}
<1>3. ASSUME T # {}
      PROVE  FALSE
  <2>1. PICK w \in T : \A k \in T : w <= k
    <3>1. T \subseteq Nat
      OBVIOUS
    <3> QED BY <1>3, <3>1, LeastNumber
  <2>2. PICK d \in Nat \ {0} : target <= d + w /\ ~ Good(d)
    OBVIOUS
  <2>3. h[d] = IF d >= target THEN d ELSE h[2 * d]
    BY <1>1
  <2>4. ~ (d >= target) /\ w # 0
    BY <2>2, <2>3
  <2>5. 2 * d \in Nat \ {0} /\ target <= 2 * d + (w - 1) /\ w - 1 \in Nat /\ ~ (w <= w - 1)
    BY <2>2, <2>4
  <2>6. Good(2 * d)
    BY <2>1, <2>5
  <2> QED BY <2>2, <2>3, <2>4, <2>6
<1>4. target \in Nat /\ target <= c + target
  OBVIOUS
<1> QED BY <1>2, <1>3, <1>4
----
(* What growing, pushing and popping leave in a stack. *)

IsStack(st) ==
  /\ st = [cap |-> st.cap, top |-> st.top, array |-> st.array]
  /\ st.cap \in Nat \ {0} /\ st.top \in 0 .. st.cap
  /\ st.array = [k \in 0 .. st.cap - 1 |-> st.array[k]]

(* The elements of st below height, unchanged in other. *)
Agree(st, other, height) == \A k \in 0 .. height - 1 : other.array[k] = st.array[k]

LEMMA NewStackFacts ==
  IsStack(S!NewStack) /\ S!NewStack.top = 0
BY StackAssumption DEF S!InputsAssumption, S!NewStack, IsStack

LEMMA ReplacedFacts ==
  ASSUME NEW st, IsStack(st), NEW n \in Nat \ {0}, n >= st.top
  PROVE  LET r == S!Replaced(st, n)
         IN  IsStack(r) /\ r.cap = n /\ r.top = st.top /\ Agree(st, r, st.top)
<1> DEFINE a == [k \in 0 .. n - 1 |-> IF k < st.top THEN st.array[k] ELSE S!Junk]
<1>1. S!Replaced(st, n) = [cap |-> n, top |-> st.top, array |-> a]
  BY DEF S!Replaced
<1>2. a = [k \in 0 .. n - 1 |-> a[k]] /\ \A k \in 0 .. st.top - 1 : a[k] = st.array[k]
  BY DEF IsStack
<1> HIDE DEF a
<1> DEFINE r == S!Replaced(st, n)
<1>3. r.cap = n /\ r.top = st.top /\ r.array = a
  BY <1>1
<1>4. r = [cap |-> r.cap, top |-> r.top, array |-> r.array] /\ st.top \in 0 .. n
  BY <1>1, <1>3 DEF IsStack
<1> HIDE DEF r
<1>5. IsStack(r) /\ Agree(st, r, st.top)
  BY <1>2, <1>3, <1>4 DEF IsStack, Agree
<1> QED BY <1>3, <1>5 DEF r

(* The array of st with another element at height, and more on it. *)
LEMMA PushedFacts ==
  ASSUME NEW st, IsStack(st), NEW item
  PROVE  LET p == S!Pushed(st, item)
         IN  IsStack(p) /\ p.top = st.top + 1 /\ p.array[st.top] = item /\ Agree(st, p, st.top)
<1> DEFINE room == IF st.top >= st.cap THEN S!StackGrown(st, st.top + 1) ELSE st
           a == [room.array EXCEPT ![room.top] = item]
           p == [room EXCEPT !.array[room.top] = item, !.top = @ + 1]
<1>1. IsStack(room) /\ room.top = st.top /\ room.top < room.cap /\ Agree(st, room, st.top)
  <2>1. CASE st.top >= st.cap
    <3> DEFINE n == S!DoubledTo(st.cap, st.top + 1)
    <3>1. n \in Nat \ {0} /\ n >= st.top + 1
      <4>1. st.cap \in Nat \ {0} /\ st.top + 1 \in Nat
        BY DEF IsStack
      <4> QED BY <4>1, DoublingFacts
    <3>2. room = S!Replaced(st, n)
      BY <2>1 DEF S!StackGrown
    <3>3. st.top \in Nat
      BY DEF IsStack
    <3> HIDE DEF n, room
    <3> QED BY <3>1, <3>2, <3>3, ReplacedFacts
  <2>2. CASE ~ (st.top >= st.cap)
    BY <2>2 DEF IsStack, Agree
  <2> QED BY <2>1, <2>2
<1>2. S!Pushed(st, item) = p
  BY DEF S!Pushed
<1> HIDE DEF room
<1>3. /\ room = [cap |-> room.cap, top |-> room.top, array |-> room.array]
      /\ room.array = [k \in 0 .. room.cap - 1 |-> room.array[k]]
      /\ room.cap \in Nat \ {0} /\ room.top \in 0 .. room.cap - 1 /\ room.top = st.top
  BY <1>1 DEF IsStack
<1>4. p = [cap |-> room.cap, top |-> room.top + 1, array |-> a]
  <2>1. p = [room EXCEPT !.array = a, !.top = room.top + 1]
    OBVIOUS
  <2> HIDE DEF a, p
  <2> QED BY <1>3, <2>1
<1>5. /\ a = [k \in 0 .. room.cap - 1 |-> a[k]]
      /\ a[room.top] = item /\ \A k \in 0 .. room.top - 1 : a[k] = room.array[k]
  <2>1. PICK f, c, n : f = room.array /\ c = room.cap /\ n = room.top
    OBVIOUS
  <2>2. a = [f EXCEPT ![n] = item]
    BY <2>1
  <2> HIDE DEF a
  <2>3. f = [k \in 0 .. c - 1 |-> f[k]] /\ c \in Nat \ {0} /\ n \in 0 .. c - 1
    BY <1>3, <2>1
  <2>4. /\ a = [k \in 0 .. c - 1 |-> a[k]]
        /\ a[n] = item /\ \A k \in 0 .. n - 1 : a[k] = f[k]
    <3>1. DOMAIN f = 0 .. c - 1
      BY ONLY <2>3
    <3>2. a = [k \in 0 .. c - 1 |-> IF k = n THEN item ELSE f[k]]
      BY ONLY <2>2, <3>1
    <3>3. \A k \in 0 .. c - 1 : a[k] = IF k = n THEN item ELSE f[k]
      BY ONLY <3>2
    <3>4. a = [k \in 0 .. c - 1 |-> a[k]]
      BY ONLY <3>2
    <3> QED BY ONLY <2>3, <3>3, <3>4
  <2> QED BY <2>1, <2>4
<1> HIDE DEF a, p
<1>6. /\ p = [cap |-> p.cap, top |-> p.top, array |-> p.array]
      /\ p.cap = room.cap /\ p.top = st.top + 1 /\ p.array = a
  BY <1>3, <1>4
<1>7. IsStack(p)
  BY <1>3, <1>5, <1>6 DEF IsStack
<1>8. Agree(st, p, st.top)
  BY <1>1, <1>3, <1>5, <1>6 DEF Agree
<1> QED BY <1>2, <1>3, <1>5, <1>6, <1>7, <1>8

LEMMA CutFacts ==
  ASSUME NEW st, IsStack(st), NEW many \in 0 .. st.top
  PROVE  LET c == S!Cut(st, many)
         IN  IsStack(c) /\ c.top = st.top - many /\ Agree(st, c, st.top - many)
<1> DEFINE a == [k \in 0 .. st.cap - 1 |-> IF k < st.top - many THEN st.array[k] ELSE S!Junk]
           c == S!Cut(st, many)
<1>1. DOMAIN st.array = 0 .. st.cap - 1
  BY DEF IsStack
<1>2. c = [st EXCEPT !.top = st.top - many, !.array = a]
  BY <1>1 DEF S!Cut
<1>3. /\ a = [k \in 0 .. st.cap - 1 |-> a[k]]
      /\ \A k \in 0 .. st.top - many - 1 : a[k] = st.array[k]
  BY DEF IsStack
<1> HIDE DEF a, c
<1>4. /\ c = [cap |-> c.cap, top |-> c.top, array |-> c.array]
      /\ c.cap = st.cap /\ c.top = st.top - many /\ c.array = a
  BY <1>2 DEF IsStack
<1>5. Agree(st, c, st.top - many)
  BY <1>3, <1>4 DEF Agree
<1>6. st.top - many \in 0 .. st.cap /\ st.cap \in Nat \ {0}
  BY DEF IsStack
<1>7. IsStack(c)
  BY <1>3, <1>4, <1>6 DEF IsStack
<1> QED BY <1>4, <1>5, <1>7 DEF c

(* A stack as a sequence. *)
StackAsSeq(st) == [h \in 1 .. st.top |-> st.array[h - 1]]

LEMMA StackAsSeqFacts ==
  ASSUME NEW st, st.top \in Nat
  PROVE  /\ Len(StackAsSeq(st)) = st.top /\ \A h \in 1 .. st.top : StackAsSeq(st)[h] = st.array[h - 1]
         /\ StackAsSeq(st) = <<>> <=> st.top = 0
<1> DEFINE V == {st.array[k] : k \in 0 .. st.top - 1}
<1>1. StackAsSeq(st) \in Seq(V)
  <2>1. \A h \in 1 .. st.top : st.array[h - 1] \in V
    OBVIOUS
  <2> HIDE DEF V
  <2> QED BY <2>1 DEF StackAsSeq
<1>2. Len(StackAsSeq(st)) = st.top
  BY DEF StackAsSeq
<1> HIDE DEF V
<1>3. StackAsSeq(st) = <<>> <=> Len(StackAsSeq(st)) = 0
  BY <1>1, EmptySeq
<1> QED BY <1>2, <1>3 DEF StackAsSeq

LEMMA AgreeingSeq ==
  ASSUME NEW st, NEW other, st.top \in Nat, other.top = st.top, Agree(st, other, st.top)
  PROVE  StackAsSeq(other) = StackAsSeq(st)
<1>1. \A h \in 1 .. st.top : other.array[h - 1] = st.array[h - 1]
  <2> SUFFICES ASSUME NEW h \in 1 .. st.top PROVE other.array[h - 1] = st.array[h - 1]
    OBVIOUS
  <2>1. h - 1 \in 0 .. st.top - 1
    OBVIOUS
  <2> QED BY <2>1 DEF Agree
<1> QED BY <1>1 DEF StackAsSeq

LEMMA PushedSeq ==
  ASSUME NEW st, IsStack(st), NEW item
  PROVE  StackAsSeq(S!Pushed(st, item)) = Append(StackAsSeq(st), item)
<1> DEFINE p == S!Pushed(st, item)
           V == {st.array[k] : k \in 0 .. st.top - 1} \cup {item}
<1>0. st.top \in Nat
  BY DEF IsStack
<1>1. p.top = st.top + 1 /\ p.array[st.top] = item /\ Agree(st, p, st.top)
  BY PushedFacts
<1> HIDE DEF p
<1>2. StackAsSeq(st) \in Seq(V)
  <2>1. \A h \in 1 .. st.top : st.array[h - 1] \in V
    BY <1>0
  <2> HIDE DEF V
  <2> QED BY <1>0, <2>1 DEF StackAsSeq
<1>3. StackAsSeq(p) \in Seq(V)
  <2>1. \A h \in 1 .. st.top + 1 : p.array[h - 1] \in V
    BY <1>0, <1>1 DEF Agree
  <2> HIDE DEF V
  <2> QED BY <1>0, <1>1, <2>1 DEF StackAsSeq
<1>4. \A h \in 1 .. st.top + 1 : p.array[h - 1] = IF h <= st.top THEN st.array[h - 1] ELSE item
  BY <1>0, <1>1 DEF Agree
<1>5. item \in V
  OBVIOUS
<1> HIDE DEF V
<1>6. /\ Append(StackAsSeq(st), item) \in Seq(V) /\ Len(Append(StackAsSeq(st), item)) = st.top + 1
      /\ \A h \in 1 .. st.top : Append(StackAsSeq(st), item)[h] = st.array[h - 1]
      /\ Append(StackAsSeq(st), item)[st.top + 1] = item
  BY <1>0, <1>2, <1>5, StackAsSeqFacts, AppendProperties
<1>7. Len(StackAsSeq(p)) = st.top + 1 /\ \A h \in 1 .. st.top + 1 : StackAsSeq(p)[h] = p.array[h - 1]
  BY <1>0, <1>1, StackAsSeqFacts
<1>8. \A h \in 1 .. st.top + 1 : StackAsSeq(p)[h] = Append(StackAsSeq(st), item)[h]
  <2> SUFFICES ASSUME NEW h \in 1 .. st.top + 1
               PROVE  StackAsSeq(p)[h] = Append(StackAsSeq(st), item)[h]
    OBVIOUS
  <2>1. st.top \in Nat /\ StackAsSeq(p)[h] = p.array[h - 1]
    BY <1>0, <1>7
  <2>2. CASE h = st.top + 1
    <3>1. ~ (h <= st.top)
      BY <2>1, <2>2
    <3> QED BY <1>4, <1>6, <2>1, <2>2, <3>1
  <2>3. CASE h # st.top + 1
    <3>1. h \in 1 .. st.top /\ h <= st.top
      BY <2>1, <2>3
    <3> QED BY <1>4, <1>6, <2>1, <3>1
  <2> QED BY <2>2, <2>3
<1>9. StackAsSeq(p) = Append(StackAsSeq(st), item)
  BY <1>3, <1>6, <1>7, <1>8, SeqEqual
<1> QED BY <1>9 DEF p

LEMMA CutSeq ==
  ASSUME NEW st, IsStack(st), st.top > 0
  PROVE  StackAsSeq(S!Cut(st, 1)) = SubSeq(StackAsSeq(st), 1, Len(StackAsSeq(st)) - 1)
<1> DEFINE c == S!Cut(st, 1)
           V == {st.array[k] : k \in 0 .. st.top - 1}
           s == StackAsSeq(st)
<1>0. st.top \in Nat \ {0}
  BY DEF IsStack
<1>1. c.top = st.top - 1 /\ Agree(st, c, st.top - 1)
  BY <1>0, CutFacts
<1> HIDE DEF c
<1>2. /\ Len(s) = st.top /\ \A h \in 1 .. st.top : s[h] = st.array[h - 1] /\ s[h] \in V
      /\ s \in Seq(V)
  <2>1. \A h \in 1 .. st.top : st.array[h - 1] \in V
    BY <1>0
  <2> HIDE DEF V
  <2> QED BY <1>0, <2>1 DEF StackAsSeq
<1>3. \A h \in 1 .. st.top - 1 : c.array[h - 1] = st.array[h - 1]
  BY <1>0, <1>1 DEF Agree
<1> HIDE DEF V, s
<1>4. /\ SubSeq(s, 1, st.top - 1) \in Seq(V) /\ Len(SubSeq(s, 1, st.top - 1)) = st.top - 1
      /\ \A h \in 1 .. st.top - 1 : SubSeq(s, 1, st.top - 1)[h] = s[h]
  BY <1>0, <1>2, SubSeqProperties
<1>5. /\ StackAsSeq(c) \in Seq(V) /\ Len(StackAsSeq(c)) = st.top - 1
      /\ \A h \in 1 .. st.top - 1 : StackAsSeq(c)[h] = c.array[h - 1]
  <2>1. \A h \in 1 .. st.top - 1 : c.array[h - 1] \in V
    BY <1>2, <1>3
  <2> QED BY <1>0, <1>1, <2>1 DEF StackAsSeq
<1>6. StackAsSeq(c) = SubSeq(s, 1, st.top - 1)
  BY <1>0, <1>2, <1>3, <1>4, <1>5, SeqEqual
<1> QED BY <1>2, <1>6 DEF c, s
----
(* The address table: whatever is set, the stacks that were there keep
   what they hold. *)

IsTable(z) ==
  /\ z = [cap |-> z.cap, rows |-> z.rows]
  /\ z.cap \in Nat \ {0} /\ z.rows = [g \in 0 .. z.cap - 1 |-> z.rows[g]]
  /\ \A g \in 0 .. z.cap - 1 :
       z.rows[g] = [s \in Procs |-> z.rows[g][s]] /\ \A s \in Procs : IsStack(z.rows[g][s])

StackIn(z, x) == IF x[1] >= z.cap THEN <<>> ELSE StackAsSeq(z.rows[x[1]][x[2]])

Names == Globals \X Procs

LEMMA GrownFacts ==
  ASSUME IsTable(table), NEW g \in Nat, g >= table.cap
  PROVE  LET z == S!TableGrown(g)
         IN  IsTable(z) /\ z.cap > g /\ \A x \in Names : StackIn(z, x) = StackIn(table, x)
<1> DEFINE c == S!DoubledTo(table.cap, g + 1)
           a == [h \in 0 .. c - 1 |-> IF h < table.cap THEN table.rows[h]
                                      ELSE [s \in Procs |-> S!NewStack]]
           z == S!TableGrown(g)
<1>1. c \in Nat \ {0} /\ c >= table.cap /\ c >= g + 1 /\ table.cap \in Nat \ {0}
  <2>1. table.cap \in Nat \ {0} /\ g + 1 \in Nat
    BY DEF IsTable
  <2> QED BY <2>1, DoublingFacts
<1>2. z = [cap |-> c, rows |-> a]
  BY DEF S!TableGrown
<1> HIDE DEF z, c
<1>3. z.cap = c /\ z.rows = a /\ z = [cap |-> z.cap, rows |-> z.rows]
  BY <1>2
<1>4. ASSUME NEW h \in 0 .. c - 1
      PROVE  a[h] = [s \in Procs |-> a[h][s]] /\ \A s \in Procs : IsStack(a[h][s])
  <2>1. CASE h < table.cap
    <3>1. a[h] = table.rows[h] /\ h \in 0 .. table.cap - 1
      BY <1>1, <2>1
    <3> QED BY <3>1 DEF IsTable
  <2>2. CASE ~ (h < table.cap)
    BY <2>2, NewStackFacts
  <2> QED BY <2>1, <2>2
<1>5. ASSUME NEW x \in Names
      PROVE  StackIn(z, x) = StackIn(table, x)
  <2>1. x[1] \in Nat /\ x[2] \in Procs
    BY StackAssumption DEF S!InputsAssumption, Names
  <2>2. CASE x[1] < table.cap
    BY <1>1, <1>3, <2>1, <2>2 DEF StackIn
  <2>3. CASE x[1] >= table.cap /\ x[1] < c
    <3>1. z.rows[x[1]][x[2]] = S!NewStack /\ StackIn(z, x) = StackAsSeq(S!NewStack)
      BY <1>1, <1>3, <2>1, <2>3 DEF StackIn
    <3>2. StackAsSeq(S!NewStack) = <<>>
      BY NewStackFacts, StackAsSeqFacts
    <3> QED BY <2>3, <3>1, <3>2 DEF StackIn
  <2>4. CASE x[1] >= c
    BY <1>1, <1>3, <2>1, <2>4 DEF StackIn
  <2> QED BY <1>1, <2>1, <2>2, <2>3, <2>4
<1>6. z.rows = [h \in 0 .. c - 1 |-> z.rows[h]]
  BY <1>3
<1> HIDE DEF a
<1>7. IsTable(z)
  BY <1>1, <1>3, <1>4, <1>6 DEF IsTable
<1>8. z.cap > g
  BY <1>1, <1>3
<1> QED BY <1>5, <1>7, <1>8 DEF z

LEMMA SizedFacts ==
  ASSUME IsTable(table), NEW g \in Nat
  PROVE  LET z == S!Sized(g)
         IN  IsTable(z) /\ z.cap > g /\ \A x \in Names : StackIn(z, x) = StackIn(table, x)
<1>1. CASE table.cap > g
  BY <1>1 DEF S!Sized
<1>2. CASE ~ (table.cap > g)
  <2>1. S!Sized(g) = S!TableGrown(g) /\ g >= table.cap
    BY <1>2 DEF S!Sized, IsTable
  <2> QED BY <2>1, GrownFacts
<1> QED BY <1>1, <1>2

(* One stack of a table is replaced. *)
LEMMA ReplacedInTable ==
  ASSUME NEW z, IsTable(z), NEW g \in Globals, NEW s \in Procs, g < z.cap, NEW st, IsStack(st),
         NEW y, y = [z EXCEPT !.rows[g][s] = st]
  PROVE  /\ IsTable(y)
         /\ \A x \in Names : StackIn(y, x) = IF x = <<g, s>> THEN StackAsSeq(st) ELSE StackIn(z, x)
<1> DEFINE a == [z.rows EXCEPT ![g][s] = st]
<1>0. g \in 0 .. z.cap - 1 /\ z.cap \in Nat \ {0} /\ z.rows = [h \in 0 .. z.cap - 1 |-> z.rows[h]]
  BY StackAssumption DEF S!InputsAssumption, IsTable
<1>1. y = [z EXCEPT !.rows = a]
  OBVIOUS
<1>2. a = [h \in 0 .. z.cap - 1 |-> IF h = g THEN [z.rows[g] EXCEPT ![s] = st] ELSE z.rows[h]]
  BY <1>0
<1> HIDE DEF a
<1>3. y = [cap |-> y.cap, rows |-> y.rows] /\ y.cap = z.cap /\ y.rows = a
  BY <1>1 DEF IsTable
<1>4. [z.rows[g] EXCEPT ![s] = st] = [q \in Procs |-> IF q = s THEN st ELSE z.rows[g][q]]
  BY <1>0 DEF IsTable
<1>5. ASSUME NEW h \in 0 .. z.cap - 1
      PROVE  a[h] = [q \in Procs |-> IF h = g /\ q = s THEN st ELSE z.rows[h][q]]
  BY <1>0, <1>2, <1>4 DEF IsTable
<1>6. a = [h \in 0 .. z.cap - 1 |-> a[h]]
  BY <1>2
<1>7. ASSUME NEW h \in 0 .. z.cap - 1
      PROVE  a[h] = [q \in Procs |-> a[h][q]] /\ \A q \in Procs : IsStack(a[h][q])
  <2>1. \A q \in Procs : a[h][q] = IF h = g /\ q = s THEN st ELSE z.rows[h][q]
    BY <1>5
  <2>2. \A q \in Procs : IsStack(z.rows[h][q])
    BY DEF IsTable
  <2>3. \A q \in Procs : IsStack(a[h][q])
    BY <2>1, <2>2
  <2> QED BY <1>5, <2>3
<1>8. IsTable(y)
  BY <1>0, <1>3, <1>6, <1>7 DEF IsTable
<1>9. ASSUME NEW x \in Names
      PROVE  StackIn(y, x) = IF x = <<g, s>> THEN StackAsSeq(st) ELSE StackIn(z, x)
  <2>0. PICK u \in Globals, v \in Procs : x = <<u, v>>
    BY DEF Names
  <2>1. u \in Nat /\ x[1] = u /\ x[2] = v
    BY <2>0, StackAssumption DEF S!InputsAssumption
  <2>2. CASE u >= z.cap
    BY <2>0, <1>0, <1>3, <2>1, <2>2 DEF StackIn
  <2>3. CASE u < z.cap
    <3>1. u \in 0 .. z.cap - 1 /\ ~ (u >= z.cap)
      BY <1>0, <2>1, <2>3
    <3>2. a[u][v] = IF u = g /\ v = s THEN st ELSE z.rows[u][v]
      BY <1>5, <3>1
    <3>3. StackIn(y, x) = StackAsSeq(a[u][v]) /\ StackIn(z, x) = StackAsSeq(z.rows[u][v])
      BY <1>3, <2>1, <3>1 DEF StackIn
    <3>4. x = <<g, s>> <=> u = g /\ v = s
      BY <2>0
    <3> QED BY <3>2, <3>3, <3>4
  <2> QED BY <1>0, <2>1, <2>2, <2>3
<1> QED BY <1>8, <1>9

LEMMA TableSetFacts ==
  ASSUME IsTable(table), NEW g \in Globals, NEW s \in Procs, NEW e \in Entries, S!TableSet(g, s, e)
  PROVE  /\ IsTable(table') /\ found' = found
         /\ \A x \in Names : StackIn(table', x) = IF x = <<g, s>> THEN Append(StackIn(table, x), e)
                                                  ELSE StackIn(table, x)
<1> DEFINE z == S!Sized(g)
           old == z.rows[g][s]
           room == IF old.cap <= EntrySize THEN S!StackGrown(old, EntrySize + 1) ELSE old
           new == S!Pushed(room, e)
<1>1. g \in Nat /\ EntrySize \in Nat
  BY StackAssumption DEF S!InputsAssumption
<1>2. IsTable(z) /\ z.cap > g /\ \A x \in Names : StackIn(z, x) = StackIn(table, x)
  BY <1>1, SizedFacts
<1>3. table' = [z EXCEPT !.rows[g][s] = new] /\ found' = found
  BY DEF S!TableSet
<1> HIDE DEF z
<1>4. g \in 0 .. z.cap - 1 /\ IsStack(old) /\ ~ (g >= z.cap) /\ g < z.cap
  <2>1. z.cap \in Nat
    BY <1>2 DEF IsTable
  <2>2. g \in 0 .. z.cap - 1 /\ ~ (g >= z.cap) /\ g < z.cap
    BY <1>1, <1>2, <2>1
  <2> QED BY <1>2, <2>2 DEF IsTable
<1> HIDE DEF old
<1>5. IsStack(room) /\ StackAsSeq(room) = StackAsSeq(old)
  <2>1. CASE old.cap <= EntrySize
    <3> DEFINE n == S!DoubledTo(old.cap, EntrySize + 1)
    <3>1. old.cap \in Nat \ {0} /\ old.top \in 0 .. old.cap
      BY <1>4 DEF IsStack
    <3>2. n \in Nat \ {0} /\ n >= old.cap
      <4>1. EntrySize + 1 \in Nat
        BY <1>1
      <4> QED BY <3>1, <4>1, DoublingFacts
    <3>3. room = S!Replaced(old, n)
      BY <2>1 DEF S!StackGrown
    <3> HIDE DEF n, room
    <3>4. IsStack(room) /\ room.top = old.top /\ Agree(old, room, old.top)
      BY <1>4, <3>1, <3>2, <3>3, ReplacedFacts
    <3> QED BY <3>1, <3>4, AgreeingSeq
  <2> QED BY <1>4, <2>1
<1> HIDE DEF room
<1>6. IsStack(new) /\ StackAsSeq(new) = Append(StackAsSeq(old), e)
  BY <1>5, PushedFacts, PushedSeq
<1> HIDE DEF new
<1>7. /\ IsTable(table')
      /\ \A x \in Names : StackIn(table', x) = IF x = <<g, s>> THEN StackAsSeq(new) ELSE StackIn(z, x)
  BY <1>2, <1>3, <1>4, <1>6, ReplacedInTable
<1>8. <<g, s>> \in Names /\ StackIn(z, <<g, s>>) = StackAsSeq(old)
  BY <1>4 DEF StackIn, Names, old
<1> QED BY <1>2, <1>3, <1>6, <1>7, <1>8

LEMMA TableDeleteFacts ==
  ASSUME IsTable(table), NEW g \in Globals, NEW s \in Procs, S!TableDelete(g, s)
  PROVE  /\ IsTable(table') /\ found' = found /\ StackIn(table, <<g, s>>) # <<>>
         /\ \A x \in Names : StackIn(table', x) =
              IF x = <<g, s>> THEN SubSeq(StackIn(table, x), 1, Len(StackIn(table, x)) - 1)
              ELSE StackIn(table, x)
<1> DEFINE old == table.rows[g][s]
           new == S!Cut(old, 1)
<1>1. /\ g < table.cap /\ old.top > 0 /\ found' = found
      /\ table' = [table EXCEPT !.rows[g][s] = new]
  BY DEF S!TableDelete
<1>2. g \in 0 .. table.cap - 1 /\ IsStack(old) /\ ~ (g >= table.cap)
  <2>1. g \in Nat /\ table.cap \in Nat
    BY StackAssumption DEF S!InputsAssumption, IsTable
  <2>2. g \in 0 .. table.cap - 1 /\ ~ (g >= table.cap)
    BY <1>1, <2>1
  <2> QED BY <2>2 DEF IsTable
<1>3. <<g, s>> \in Names /\ StackIn(table, <<g, s>>) = StackAsSeq(old)
  BY <1>2 DEF StackIn, Names
<1> HIDE DEF old
<1>4. old.top \in Nat \ {0}
  BY <1>1, <1>2 DEF IsStack
<1>5. IsStack(new) /\ StackAsSeq(new) = SubSeq(StackAsSeq(old), 1, Len(StackAsSeq(old)) - 1)
  BY <1>1, <1>2, <1>4, CutFacts, CutSeq
<1>6. StackAsSeq(old) # <<>>
  BY <1>4, StackAsSeqFacts
<1> HIDE DEF new
<1>7. /\ IsTable(table')
      /\ \A x \in Names : StackIn(table', x) =
           IF x = <<g, s>> THEN StackAsSeq(new) ELSE StackIn(table, x)
  <2>1. g < table.cap /\ table' = [table EXCEPT !.rows[g][s] = new] /\ IsStack(new)
    BY <1>1, <1>5
  <2> QED BY <2>1, ReplacedInTable
<1> QED BY <1>1, <1>3, <1>5, <1>6, <1>7

LEMMA TableGetFacts ==
  ASSUME IsTable(table), NEW g \in Globals, NEW s \in Procs, S!TableGet(g, s)
  PROVE  LET q == StackIn(table, <<g, s>>)
         IN  table' = table /\ found' = IF q = <<>> THEN None ELSE q[Len(q)]
<1> DEFINE st == table.rows[g][s]
<1>1. /\ g < table.cap /\ table' = table
      /\ found' = IF st.top = 0 THEN None ELSE st.array[st.top - 1]
  BY DEF S!TableGet
<1>2. IsStack(st) /\ StackIn(table, <<g, s>>) = StackAsSeq(st)
  <2>1. g \in Nat /\ table.cap \in Nat
    BY StackAssumption DEF S!InputsAssumption, IsTable
  <2>2. g \in 0 .. table.cap - 1 /\ ~ (g >= table.cap)
    BY <1>1, <2>1
  <2>3. IsStack(st)
    BY <2>2 DEF IsTable
  <2> HIDE DEF st
  <2>4. StackIn(table, <<g, s>>) = StackAsSeq(st)
    BY <2>2 DEF StackIn, st
  <2> QED BY <2>3, <2>4
<1> HIDE DEF st
<1>3. st.top \in Nat
  BY <1>2 DEF IsStack
<1>4. CASE st.top = 0
  BY <1>1, <1>2, <1>3, <1>4, StackAsSeqFacts
<1>5. CASE st.top # 0
  <2>1. /\ StackAsSeq(st) # <<>> /\ Len(StackAsSeq(st)) = st.top
        /\ StackAsSeq(st)[st.top] = st.array[st.top - 1]
    BY <1>3, <1>5, StackAsSeqFacts
  <2> QED BY <1>1, <1>2, <1>5, <2>1
<1> QED BY <1>4, <1>5
----
(* The stack of messages.  What lies below a byte is the same in stacks
   that agree there. *)

RestOf(st, t) == t - 1 - st.array[t - 1][2]

BytesOf(st, t) == [j \in 1 .. t - 1 - RestOf(st, t) |-> st.array[RestOf(st, t) + j - 1]]

Step(st, h, t) ==
  IF t > 0 /\ RestOf(st, t) \in 0 .. t - 1
    THEN Append(h[RestOf(st, t)], S!MessageOf(BytesOf(st, t)))
    ELSE <<>>

IsBelow(st, h) == h = [t \in 0 .. st.top |-> Step(st, h, t)]

Below(st) == CHOOSE h : IsBelow(st, h)

LEMMA BelowSome ==
  ASSUME NEW st, NEW w \in Nat
  PROVE  \E h : \A t \in 0 .. w : h[t] = Step(st, h, t)
<1> DEFINE Has(u) == \E h : \A t \in 0 .. u : h[t] = Step(st, h, t)
           T == {u \in Nat : ~ Has(u)}
<1>1. ASSUME NEW u \in Nat, NEW h, \A t \in 0 .. u - 1 : h[t] = Step(st, h, t)
      PROVE  Has(u)
  <2> DEFINE f == [t \in 0 .. u |-> IF t < u THEN h[t] ELSE Step(st, h, t)]
  <2>1. ASSUME NEW t \in 0 .. u
        PROVE  f[t] = Step(st, f, t)
    <3>1. f[t] = Step(st, h, t)
      BY <1>1
    <3>2. t > 0 /\ RestOf(st, t) \in 0 .. t - 1 => f[RestOf(st, t)] = h[RestOf(st, t)]
      OBVIOUS
    <3> HIDE DEF f
    <3> QED BY <3>1, <3>2 DEF Step
  <2> HIDE DEF f
  <2> QED BY <2>1
<1>2. ASSUME T # {}
      PROVE  FALSE
  <2>1. PICK u \in T : \A k \in T : u <= k
    <3>1. T \subseteq Nat
      OBVIOUS
    <3> QED BY <1>2, <3>1, LeastNumber
  <2>2. u \in Nat /\ ~ Has(u)
    OBVIOUS
  <2>3. CASE u = 0
    <3>1. \A t \in 0 .. u - 1 : <<>>[t] = Step(st, <<>>, t)
      BY <2>3
    <3> HIDE DEF Has
    <3> QED BY <1>1, <2>2, <3>1
  <2>4. CASE u # 0
    <3>1. u - 1 \in Nat /\ u - 1 \notin T
      BY <2>1, <2>2, <2>4
    <3>2. Has(u - 1)
      BY <3>1
    <3>3. PICK h : \A t \in 0 .. u - 1 : h[t] = Step(st, h, t)
      BY <3>2
    <3> HIDE DEF Has
    <3> QED BY <1>1, <2>2, <3>3
  <2> QED BY <2>3, <2>4
<1> QED BY <1>2

LEMMA BelowFacts ==
  ASSUME NEW st, st.top \in Nat
  PROVE  /\ S!MessagesIn(st) = Below(st)[st.top]
         /\ \A t \in 0 .. st.top : Below(st)[t] = Step(st, Below(st), t)
<1>1. PICK g : \A t \in 0 .. st.top : g[t] = Step(st, g, t)
  BY BelowSome
<1> DEFINE f == [t \in 0 .. st.top |-> g[t]]
<1>2. ASSUME NEW t \in 0 .. st.top
      PROVE  f[t] = Step(st, f, t)
  <2>1. f[t] = Step(st, g, t)
    BY <1>1
  <2>2. t > 0 /\ RestOf(st, t) \in 0 .. t - 1 => f[RestOf(st, t)] = g[RestOf(st, t)]
    OBVIOUS
  <2> HIDE DEF f
  <2> QED BY <2>1, <2>2 DEF Step
<1>3. f = [t \in 0 .. st.top |-> Step(st, f, t)]
  BY <1>2
<1> HIDE DEF f
<1>4. IsBelow(st, Below(st))
  BY <1>3 DEF IsBelow, Below
<1>5. S!MessagesIn(st) = Below(st)[st.top]
  BY DEF S!MessagesIn, Below, IsBelow, Step, RestOf, BytesOf
<1>6. \A t \in 0 .. st.top : Below(st)[t] = Step(st, Below(st), t)
  BY <1>4 DEF IsBelow
<1> QED BY <1>5, <1>6

LEMMA BelowAgrees ==
  ASSUME NEW st, NEW other, NEW height \in Nat, st.top \in Nat, other.top \in Nat,
         height <= st.top, height <= other.top, Agree(st, other, height)
  PROVE  Below(other)[height] = Below(st)[height]
<1> DEFINE T == {t \in Nat : t <= height /\ Below(other)[t] # Below(st)[t]}
<1>1. ASSUME T # {}
      PROVE  FALSE
  <2>1. PICK t \in T : \A k \in T : t <= k
    <3>1. T \subseteq Nat
      OBVIOUS
    <3> QED BY <1>1, <3>1, LeastNumber
  <2>2. t \in Nat /\ t <= height /\ Below(other)[t] # Below(st)[t]
    OBVIOUS
  <2>3. Below(st)[t] = Step(st, Below(st), t) /\ Below(other)[t] = Step(other, Below(other), t)
    BY <2>2, BelowFacts
  <2>4. CASE t > 0 /\ RestOf(st, t) \in 0 .. t - 1
    <3> DEFINE r == RestOf(st, t)
    <3>1. other.array[t - 1] = st.array[t - 1]
      BY <2>2, <2>4 DEF Agree
    <3>2. RestOf(other, t) = r
      BY <3>1 DEF RestOf
    <3>3. r \in Nat /\ r <= t - 1
      BY <2>4
    <3> HIDE DEF r
    <3>4. r \notin T
      <4>1. ~ (t <= r)
        BY <2>2, <3>3
      <4> QED BY <2>1, <4>1
    <3>5. Below(other)[r] = Below(st)[r]
      BY <2>2, <3>3, <3>4
    <3>6. BytesOf(other, t) = BytesOf(st, t)
      <4>1. \A j \in 1 .. t - 1 - r : other.array[r + j - 1] = st.array[r + j - 1]
        BY <2>2, <3>3 DEF Agree
      <4> QED BY <3>2, <4>1 DEF BytesOf, r
    <3> QED BY <2>2, <2>3, <2>4, <3>2, <3>5, <3>6 DEF Step, r
  <2>5. CASE ~ (t > 0 /\ RestOf(st, t) \in 0 .. t - 1)
    <3>1. t > 0 => RestOf(other, t) = RestOf(st, t)
      <4>1. t > 0 => other.array[t - 1] = st.array[t - 1]
        BY <2>2 DEF Agree
      <4> QED BY <4>1 DEF RestOf
    <3> QED BY <2>2, <2>3, <2>5, <3>1 DEF Step
  <2> QED BY <2>4, <2>5
<1> QED BY <1>1

(* The places where a message ends: its size lies on its bytes, and these
   lie where another message ends. *)
MessageEnds(st, t, m) ==
  /\ t - 1 - m.size \in 0 .. t - 1
  /\ st.array[t - 1] = <<"size", m.size>>
  /\ \A j \in 1 .. m.size : st.array[t - 1 - m.size + j - 1] = <<m.id, j>>

Framed(st, B) ==
  /\ B \subseteq 0 .. st.top /\ st.top \in B
  /\ \A t \in B \ {0} : \E m \in Messages : MessageEnds(st, t, m) /\ t - 1 - m.size \in B

IsFramed(st) == IsStack(st) /\ \E B : Framed(st, B)

(* What a message that ends at t adds to those below it. *)
LEMMA EndFacts ==
  ASSUME NEW st, st.top \in Nat, NEW t \in 1 .. st.top, NEW m \in Messages, MessageEnds(st, t, m)
  PROVE  /\ BytesOf(st, t) = S!Payload(m)
         /\ Below(st)[t] = Append(Below(st)[t - 1 - m.size], S!MessageOf(S!Payload(m)))
<1>1. m.size \in Nat
  BY StackAssumption DEF S!InputsAssumption
<1>2. RestOf(st, t) = t - 1 - m.size
  BY DEF RestOf, MessageEnds
<1>3. t - 1 - RestOf(st, t) = m.size
  BY <1>1, <1>2
<1>4. BytesOf(st, t) = S!Payload(m)
  BY <1>2, <1>3 DEF BytesOf, S!Payload, MessageEnds
<1>5. Below(st)[t] = Step(st, Below(st), t)
  BY BelowFacts
<1>6. t > 0 /\ RestOf(st, t) \in 0 .. t - 1
  BY <1>2 DEF MessageEnds
<1> QED BY <1>2, <1>4, <1>5, <1>6 DEF Step

LEMMA MessageOfIs ==
  ASSUME NEW m \in Messages
  PROVE  S!MessageOf(S!Payload(m)) \in Messages
BY DEF S!MessageOf

LEMMA MessagesAreSeq ==
  ASSUME NEW st, IsStack(st), NEW B, Framed(st, B), NEW height \in B
  PROVE  Below(st)[height] \in Seq(Messages)
<1> DEFINE T == {t \in Nat : t \in B /\ Below(st)[t] \notin Seq(Messages)}
<1>0. st.top \in Nat /\ B \subseteq Nat /\ \A t \in B : t <= st.top
  BY DEF IsStack, Framed
<1>1. ASSUME T # {}
      PROVE  FALSE
  <2>1. PICK t \in T : \A k \in T : t <= k
    <3>1. T \subseteq Nat
      OBVIOUS
    <3> QED BY <1>1, <3>1, LeastNumber
  <2>2. t \in Nat /\ t \in B /\ t <= st.top /\ Below(st)[t] \notin Seq(Messages)
    BY <1>0
  <2>3. t # 0
    <3>1. ASSUME t = 0
          PROVE  FALSE
      <4>1. Below(st)[0] = Step(st, Below(st), 0) /\ Step(st, Below(st), 0) = <<>>
        BY <1>0, BelowFacts DEF Step
      <4>2. Below(st)[t] = <<>> /\ <<>> \in Seq(Messages)
        BY <3>1, <4>1
      <4> QED BY <2>2, <4>2
    <3> QED BY <3>1
  <2>4. PICK m \in Messages : MessageEnds(st, t, m) /\ t - 1 - m.size \in B
    BY <2>2, <2>3 DEF Framed
  <2> DEFINE r == t - 1 - m.size
  <2>5. r \in Nat /\ r <= t - 1 /\ r \in B
    BY <2>2, <2>4 DEF MessageEnds
  <2>6. t \in 1 .. st.top
    BY <1>0, <2>2, <2>3
  <2>7. Below(st)[t] = Append(Below(st)[r], S!MessageOf(S!Payload(m)))
    BY <1>0, <2>4, <2>6, EndFacts
  <2> HIDE DEF r
  <2>8. r \notin T
    <3>1. ~ (t <= r)
      BY <2>2, <2>5
    <3> QED BY <2>1, <3>1
  <2>9. Below(st)[r] \in Seq(Messages)
    BY <2>5, <2>8
  <2> QED BY <2>2, <2>7, <2>9, MessageOfIs
<1> QED BY <1>0, <1>1

LEMMA VarPushedFacts ==
  ASSUME NEW st, IsStack(st), NEW V, NEW item \in Seq(V)
  PROVE  LET p == S!VarPushed(st, item)
         IN  /\ IsStack(p) /\ p.top = st.top + Len(item) /\ Agree(st, p, st.top)
             /\ \A j \in 1 .. Len(item) : p.array[st.top + j - 1] = item[j]
<1> DEFINE n == Len(item)
           room == IF st.top + n > st.cap THEN S!VarGrown(st, st.top + n) ELSE st
           a == [k \in DOMAIN room.array |->
                   IF k - room.top \in 0 .. n - 1 THEN item[k - room.top + 1] ELSE room.array[k]]
           p == S!VarPushed(st, item)
<1>0. n \in Nat /\ st.top \in Nat /\ st.cap \in Nat \ {0} /\ st.top <= st.cap
  BY DEF IsStack
<1>1. p = [room EXCEPT !.top = room.top + n, !.array = a]
  BY DEF S!VarPushed
<1> HIDE DEF n, p
<1>2. IsStack(room) /\ room.top = st.top /\ room.top + n <= room.cap /\ Agree(st, room, st.top)
  <2>1. CASE st.top + n > st.cap
    <3> DEFINE c == IF 2 * st.cap < st.top + n THEN st.top + n ELSE 2 * st.cap
    <3>1. c \in Nat \ {0} /\ c >= st.top /\ c >= st.top + n
      BY <1>0
    <3>2. room = S!Replaced(st, c)
      BY <2>1 DEF S!VarGrown
    <3> HIDE DEF c, room
    <3>3. IsStack(room) /\ room.cap = c /\ room.top = st.top /\ Agree(st, room, st.top)
      BY <3>1, <3>2, ReplacedFacts
    <3> QED BY <3>1, <3>3
  <2>2. CASE ~ (st.top + n > st.cap)
    BY <1>0, <2>2 DEF Agree
  <2> QED BY <2>1, <2>2
<1> HIDE DEF room
<1>3. /\ room = [cap |-> room.cap, top |-> room.top, array |-> room.array]
      /\ DOMAIN room.array = 0 .. room.cap - 1 /\ room.cap \in Nat \ {0}
  BY <1>2 DEF IsStack
<1>4. /\ a = [k \in 0 .. room.cap - 1 |-> a[k]]
      /\ \A k \in 0 .. room.cap - 1 :
           a[k] = IF k - st.top \in 0 .. n - 1 THEN item[k - st.top + 1] ELSE room.array[k]
  BY <1>2, <1>3
<1> HIDE DEF a
<1>5. /\ p = [cap |-> p.cap, top |-> p.top, array |-> p.array]
      /\ p.cap = room.cap /\ p.top = st.top + n /\ p.array = a
  BY <1>1, <1>2, <1>3
<1>6. IsStack(p)
  <2>1. st.top + n \in 0 .. room.cap
    BY <1>0, <1>2, <1>3
  <2> QED BY <1>3, <1>4, <1>5, <2>1 DEF IsStack
<1>7. Agree(st, p, st.top)
  BY <1>0, <1>2, <1>3, <1>4, <1>5 DEF Agree
<1>8. ASSUME NEW j \in 1 .. n
      PROVE  p.array[st.top + j - 1] = item[j]
  <2>1. /\ st.top + j - 1 \in 0 .. room.cap - 1 /\ (st.top + j - 1) - st.top \in 0 .. n - 1
        /\ (st.top + j - 1) - st.top + 1 = j
    BY <1>0, <1>2, <1>3
  <2> QED BY <1>4, <1>5, <2>1
<1> QED BY <1>5, <1>6, <1>7, <1>8 DEF n, p

(* Messages go where they can be taken off again ... *)
LEMMA PushMessageFacts ==
  ASSUME IsFramed(bytes), NEW m \in Messages, S!PushMessage(m)
  PROVE  /\ IsFramed(bytes') /\ moved' = moved
         /\ S!MessagesIn(bytes') = Append(S!MessagesIn(bytes), S!MessageOf(S!Payload(m)))
<1> DEFINE one == S!VarPushed(bytes, S!Payload(m))
           two == S!VarPushed(one, S!Header(m))
           d == bytes.top
           e == d + m.size + 1
<1>0. m.size \in Nat /\ d \in Nat /\ IsStack(bytes)
  BY StackAssumption DEF S!InputsAssumption, IsFramed, IsStack
<1>1. bytes' = two /\ moved' = moved
  BY DEF S!PushMessage
<1>2. /\ IsStack(one) /\ one.top = d + m.size /\ Agree(bytes, one, d)
      /\ \A j \in 1 .. m.size : one.array[d + j - 1] = <<m.id, j>>
  <2> DEFINE V == {<<m.id, j>> : j \in 1 .. m.size}
  <2>1. /\ S!Payload(m) \in Seq(V) /\ Len(S!Payload(m)) = m.size
        /\ \A j \in 1 .. m.size : S!Payload(m)[j] = <<m.id, j>>
    <3>1. \A j \in 1 .. m.size : <<m.id, j>> \in V
      OBVIOUS
    <3> HIDE DEF V
    <3> QED BY <1>0, <3>1 DEF S!Payload
  <2> HIDE DEF V
  <2>2. /\ IsStack(one) /\ one.top = d + Len(S!Payload(m)) /\ Agree(bytes, one, d)
        /\ \A j \in 1 .. Len(S!Payload(m)) : one.array[d + j - 1] = S!Payload(m)[j]
    BY <1>0, <2>1, VarPushedFacts
  <2> HIDE DEF one
  <2> QED BY <2>1, <2>2
<1> HIDE DEF one
<1>3. /\ IsStack(two) /\ two.top = e /\ Agree(one, two, d + m.size)
      /\ two.array[e - 1] = <<"size", m.size>>
  <2> DEFINE V == {<<"size", m.size>>}
  <2>1. S!Header(m) \in Seq(V) /\ Len(S!Header(m)) = 1 /\ S!Header(m)[1] = <<"size", m.size>>
    BY DEF S!Header
  <2> HIDE DEF V
  <2>2. /\ IsStack(two) /\ two.top = one.top + 1 /\ Agree(one, two, one.top)
        /\ \A j \in 1 .. 1 : two.array[one.top + j - 1] = S!Header(m)[j]
    BY <1>2, <2>1, VarPushedFacts
  <2>3. two.array[one.top + 1 - 1] = <<"size", m.size>> /\ one.top + 1 - 1 = e - 1
    BY <1>0, <1>2, <2>1, <2>2
  <2> QED BY <1>0, <1>2, <2>2, <2>3
<1> HIDE DEF two
<1>4. Agree(bytes, two, d)
  BY <1>0, <1>2, <1>3 DEF Agree
<1>5. MessageEnds(two, e, m) /\ e - 1 - m.size = d
  <2>1. ASSUME NEW j \in 1 .. m.size
        PROVE  two.array[d + j - 1] = <<m.id, j>>
    <3>1. d + j - 1 \in 0 .. d + m.size - 1
      BY <1>0
    <3>2. \A i \in 0 .. d + m.size - 1 : two.array[i] = one.array[i]
      BY <1>0, <1>3 DEF Agree
    <3> QED BY <1>2, <3>1, <3>2
  <2>2. e - 1 - m.size = d /\ d \in 0 .. e - 1
    BY <1>0
  <2> QED BY <1>3, <2>1, <2>2 DEF MessageEnds
<1> HIDE DEF e
<1>6. PICK B : Framed(bytes, B)
  BY DEF IsFramed
<1>7. e \in Nat \ {0} /\ d <= e /\ d < e
  BY <1>0 DEF e
<1>8. Framed(two, B \cup {e})
  <2>1. B \subseteq 0 .. d /\ d \in B
    BY <1>6 DEF Framed
  <2>2. B \cup {e} \subseteq 0 .. two.top /\ two.top \in B \cup {e}
    <3>1. 0 .. d \subseteq 0 .. e /\ e \in 0 .. e
      BY <1>0, <1>7
    <3> QED BY <1>3, <2>1, <3>1
  <2>3. ASSUME NEW t \in B \ {0}
        PROVE  \E n \in Messages : MessageEnds(two, t, n) /\ t - 1 - n.size \in B
    <3>1. PICK n \in Messages : MessageEnds(bytes, t, n) /\ t - 1 - n.size \in B
      BY <1>6 DEF Framed
    <3>2. t \in 1 .. d /\ n.size \in Nat
      BY <1>0, <2>1, StackAssumption DEF S!InputsAssumption
    <3>3. MessageEnds(two, t, n)
      <4>1. t - 1 \in 0 .. d - 1
        BY <1>0, <3>2
      <4>2. ASSUME NEW j \in 1 .. n.size
            PROVE  two.array[t - 1 - n.size + j - 1] = bytes.array[t - 1 - n.size + j - 1]
        <5>1. t - 1 - n.size + j - 1 \in 0 .. d - 1
          BY <1>0, <3>1, <3>2 DEF MessageEnds
        <5> QED BY <1>4, <5>1 DEF Agree
      <4> QED BY <1>4, <3>1, <4>1, <4>2 DEF Agree, MessageEnds
    <3> QED BY <3>1, <3>3
  <2> QED BY <1>5, <2>1, <2>2, <2>3 DEF Framed
<1>9. S!MessagesIn(two) = Append(Below(two)[d], S!MessageOf(S!Payload(m)))
  <2>1. two.top \in Nat /\ e \in 1 .. two.top
    BY <1>3, <1>7
  <2>2. Below(two)[e] = Append(Below(two)[e - 1 - m.size], S!MessageOf(S!Payload(m)))
    BY <1>5, <2>1, EndFacts
  <2>3. S!MessagesIn(two) = Below(two)[e]
    BY <1>3, <2>1, BelowFacts
  <2> QED BY <1>5, <2>2, <2>3
<1>10. Below(two)[d] = Below(bytes)[d] /\ S!MessagesIn(bytes) = Below(bytes)[d]
  <2>1. Below(two)[d] = Below(bytes)[d]
    BY <1>0, <1>3, <1>4, <1>7, BelowAgrees
  <2> QED BY <1>0, <2>1, BelowFacts
<1> QED BY <1>1, <1>3, <1>8, <1>9, <1>10 DEF IsFramed

(* ... and the one that is taken off is the last. *)
LEMMA PopMessageFacts ==
  ASSUME IsFramed(bytes), S!PopMessage
  PROVE  /\ IsFramed(bytes')
         /\ LET q == S!MessagesIn(bytes)
            IN  /\ q # <<>> /\ moved' = q[Len(q)]
                /\ S!MessagesIn(bytes') = SubSeq(q, 1, Len(q) - 1)
<1> DEFINE d == bytes.top
           n == S!TopBytes(bytes, 1)[1][2]
           rest == S!Cut(bytes, 1)
           payload == S!TopBytes(rest, n)
<1>0. d \in Nat \ {0} /\ IsStack(bytes)
  BY DEF IsFramed, IsStack, S!PopMessage
<1>1. PICK B : Framed(bytes, B)
  BY DEF IsFramed
<1>2. PICK m \in Messages : MessageEnds(bytes, d, m) /\ d - 1 - m.size \in B
  BY <1>0, <1>1 DEF Framed
<1> DEFINE r == d - 1 - m.size
<1>3. m.size \in Nat /\ r \in Nat /\ r <= d /\ r < d /\ r = (d - 1) - m.size
  BY <1>0, <1>2, StackAssumption DEF S!InputsAssumption, MessageEnds
<1>4. n = m.size
  <2>1. S!TopBytes(bytes, 1)[1] = bytes.array[d - 1]
    BY <1>0 DEF S!TopBytes
  <2> QED BY <1>2, <2>1 DEF MessageEnds
<1>5. IsStack(rest) /\ rest.top = d - 1 /\ Agree(bytes, rest, d - 1)
  BY <1>0, CutFacts
<1> HIDE DEF n, rest
<1>6. payload = S!Payload(m)
  <2>1. ASSUME NEW j \in 1 .. m.size
        PROVE  rest.array[d - 1 - m.size + j - 1] = <<m.id, j>>
    <3>1. d - 1 - m.size + j - 1 \in 0 .. d - 1 - 1
      BY <1>0, <1>3
    <3>2. rest.array[d - 1 - m.size + j - 1] = bytes.array[d - 1 - m.size + j - 1]
      BY <1>5, <3>1 DEF Agree
    <3> QED BY <1>2, <3>2 DEF MessageEnds
  <2> QED BY <1>4, <1>5, <2>1 DEF S!TopBytes, S!Payload
<1>7. moved' = S!MessageOf(S!Payload(m)) /\ bytes' = S!Cut(rest, m.size)
  <2>1. /\ moved' = IF \E x \in Messages : S!Payload(x) = payload THEN S!MessageOf(payload) ELSE S!Junk
        /\ bytes' = S!Cut(rest, n)
    BY DEF S!PopMessage, n, rest
  <2> HIDE DEF payload
  <2> QED BY <1>4, <1>6, <2>1
<1>8. IsStack(bytes') /\ bytes'.top = r /\ Agree(bytes, bytes', r)
  <2> HIDE DEF r
  <2>1. m.size \in 0 .. rest.top /\ rest.top - m.size = r
    BY <1>0, <1>3, <1>5
  <2>2. IsStack(bytes') /\ bytes'.top = r /\ Agree(rest, bytes', r)
    BY <1>5, <1>7, <2>1, CutFacts
  <2>3. \A k \in 0 .. r - 1 : k \in 0 .. d - 1 - 1
    BY <1>0, <1>3
  <2> QED BY <1>5, <2>2, <2>3 DEF Agree
<1>9. Framed(bytes', B \cap (0 .. r))
  <2>1. ASSUME NEW t \in B \cap (0 .. r), t # 0
        PROVE  \E x \in Messages : MessageEnds(bytes', t, x) /\ t - 1 - x.size \in B \cap (0 .. r)
    <3>1. PICK x \in Messages : MessageEnds(bytes, t, x) /\ t - 1 - x.size \in B
      BY <1>1, <2>1 DEF Framed
    <3>2. t \in 1 .. r /\ x.size \in Nat
      BY <1>3, <2>1, StackAssumption DEF S!InputsAssumption
    <3>3. t - 1 - x.size \in 0 .. r /\ t - 1 \in 0 .. r - 1
      BY <1>3, <3>1, <3>2 DEF MessageEnds
    <3>4. ASSUME NEW j \in 1 .. x.size
          PROVE  bytes'.array[t - 1 - x.size + j - 1] = bytes.array[t - 1 - x.size + j - 1]
      <4>1. t - 1 - x.size + j - 1 \in 0 .. r - 1
        BY <1>3, <3>2, <3>3
      <4> QED BY <1>8, <4>1 DEF Agree
    <3>5. bytes'.array[t - 1] = bytes.array[t - 1]
      BY <1>8, <3>3 DEF Agree
    <3>6. MessageEnds(bytes', t, x)
      BY <3>1, <3>4, <3>5 DEF MessageEnds
    <3> QED BY <3>1, <3>3, <3>6
  <2> QED BY <1>2, <1>3, <1>8, <2>1 DEF Framed
<1>10. Below(bytes')[r] = Below(bytes)[r]
  BY <1>0, <1>3, <1>8, BelowAgrees
<1>11. S!MessagesIn(bytes') = Below(bytes)[r]
  BY <1>3, <1>8, <1>10, BelowFacts
<1>12. S!MessagesIn(bytes) = Append(Below(bytes)[r], S!MessageOf(S!Payload(m)))
  BY <1>0, <1>2, BelowFacts, EndFacts
<1>13. Below(bytes)[r] \in Seq(Messages)
  BY <1>0, <1>1, <1>2, MessagesAreSeq
<1> DEFINE low == Below(bytes)[r]
           x == S!MessageOf(S!Payload(m))
           q == Append(low, x)
<1>14. x \in Messages
  BY MessageOfIs
<1> HIDE DEF low, x
<1>15. q # <<>> /\ q[Len(q)] = x /\ SubSeq(q, 1, Len(q) - 1) = low
  <2>1. low \in Seq(Messages)
    BY <1>13 DEF low
  <2>2. /\ q \in Seq(Messages) /\ Len(q) = Len(low) + 1 /\ Len(low) \in Nat
        /\ q[Len(q)] = x /\ \A i \in 1 .. Len(low) : q[i] = low[i]
    BY <1>14, <2>1, AppendProperties, LenProperties
  <2> HIDE DEF q
  <2>3. /\ SubSeq(q, 1, Len(low)) \in Seq(Messages) /\ Len(SubSeq(q, 1, Len(low))) = Len(low)
        /\ \A i \in 1 .. Len(low) : SubSeq(q, 1, Len(low))[i] = q[i]
    <3>1. \A i \in 1 .. Len(low) : q[i] \in Messages
      BY <2>1, <2>2
    <3> QED BY <2>2, <3>1, SubSeqProperties
  <2>4. SubSeq(q, 1, Len(low)) = low
    BY <2>1, <2>2, <2>3, SeqEqual
  <2>5. q # <<>> /\ Len(q) - 1 = Len(low)
    BY <2>2, EmptySeq
  <2> QED BY <2>2, <2>4, <2>5
<1> QED BY <1>7, <1>8, <1>9, <1>11, <1>12, <1>15 DEF IsFramed, low, x

(* Pushing, popping, peeking and dropping are those of Lifo. *)
StacksInv == IsTable(table) /\ IsFramed(bytes)

LEMMA StacksInitial ==
  S!Init => StacksInv /\ S!TableLifo!Init /\ S!MessageLifo!Init
<1> SUFFICES ASSUME S!Init PROVE StacksInv /\ S!TableLifo!Init /\ S!MessageLifo!Init
  OBVIOUS
<1>0. InitialCap \in Nat \ {0}
  BY StackAssumption DEF S!InputsAssumption
<1>1. /\ table = S!NewTable /\ table.cap = InitialCap
      /\ table.rows = [g \in 0 .. InitialCap - 1 |-> [s \in Procs |-> S!NewStack]]
  BY DEF S!Init, S!NewTable
<1>2. IsTable(table)
  BY <1>0, <1>1, NewStackFacts DEF IsTable, S!NewTable
<1>3. Framed(bytes, {0})
  BY NewStackFacts DEF Framed, S!Init
<1>4. IsFramed(bytes) /\ bytes.top = 0
  BY <1>3, NewStackFacts DEF IsFramed, S!Init
<1>5. ASSUME NEW x \in Names
      PROVE  S!EntriesOf(x) = <<>>
  <2>1. PICK g \in Globals, s \in Procs : x = <<g, s>>
    BY DEF Names
  <2>2. g \in Nat
    BY StackAssumption DEF S!InputsAssumption
  <2>3. CASE g >= InitialCap
    BY <1>1, <2>1, <2>3 DEF S!EntriesOf
  <2>4. CASE ~ (g >= InitialCap)
    <3>1. table.rows[g][s] = S!NewStack
      BY <1>0, <1>1, <2>2, <2>4
    <3>2. S!EntriesOf(x) = StackAsSeq(S!NewStack)
      BY <1>1, <2>1, <2>4, <3>1 DEF S!EntriesOf, StackAsSeq
    <3> QED BY <3>2, NewStackFacts, StackAsSeqFacts
  <2> QED BY <2>3, <2>4
<1>6. S!MessagesIn(bytes) = <<>>
  <2>1. S!MessagesIn(bytes) = Step(bytes, Below(bytes), 0)
    BY <1>4, BelowFacts
  <2> QED BY <2>1 DEF Step
<1>7. S!TableLifo!Init
  BY <1>5 DEF S!Init, S!TableLifo!Init, Names
<1>8. S!MessageLifo!Init
  BY <1>6 DEF S!Init, S!MessageLifo!Init
<1> QED BY <1>2, <1>4, <1>7, <1>8 DEF StacksInv

LEMMA EntriesAreStackIn ==
  ASSUME NEW x \in Names
  PROVE  S!EntriesOf(x) = StackIn(table, x) /\ S!EntriesOf(x)' = StackIn(table', x)
BY DEF S!EntriesOf, StackIn, StackAsSeq

LEMMA TableStep ==
  ASSUME StacksInv, S!TableNext
  PROVE  /\ StacksInv' /\ UNCHANGED <<bytes, moved>>
         /\ S!TableLifo!Next
<1> DEFINE content == [x \in Names |-> S!EntriesOf(x)]
<1>0. /\ IsTable(table) /\ IsFramed(bytes) /\ UNCHANGED <<bytes, moved>>
  BY DEF StacksInv, S!TableNext, S!TableGet, S!TableDelete, S!TableSet
<1>1. PICK g \in Globals, s \in Procs :
        S!TableGet(g, s) \/ S!TableDelete(g, s) \/ \E e \in Entries : S!TableSet(g, s, e)
  BY DEF S!TableNext
<1> DEFINE w == <<g, s>>
<1>2. w \in Names
  BY DEF Names
<1>3. /\ content = [x \in Names |-> StackIn(table, x)]
      /\ content' = [x \in Names |-> StackIn(table', x)]
  BY EntriesAreStackIn
<1> HIDE DEF content, w
<1>4. CASE S!TableGet(g, s)
  <2>1. /\ table' = table
        /\ found' = IF StackIn(table, w) = <<>> THEN None ELSE StackIn(table, w)[Len(StackIn(table, w))]
    BY <1>0, <1>4, TableGetFacts DEF w
  <2>2. content' = content /\ content[w] = StackIn(table, w)
    BY <1>2, <1>3, <2>1
  <2>3. S!TableLifo!Peek(w)
    BY <2>1, <2>2 DEF S!TableLifo!Peek, S!TableLifo!Top, content, Names
  <2> QED BY <1>0, <1>2, <2>1, <2>3 DEF S!TableLifo!Next, StacksInv, Names
<1>5. CASE S!TableDelete(g, s)
  <2>1. /\ IsTable(table') /\ found' = found /\ StackIn(table, w) # <<>>
        /\ \A x \in Names : StackIn(table', x) =
             IF x = w THEN SubSeq(StackIn(table, x), 1, Len(StackIn(table, x)) - 1)
             ELSE StackIn(table, x)
    BY <1>0, <1>5, TableDeleteFacts DEF w
  <2>2. /\ content[w] = StackIn(table, w)
        /\ content' = [content EXCEPT ![w] = SubSeq(content[w], 1, Len(content[w]) - 1)]
    BY <1>2, <1>3, <2>1
  <2>3. S!TableLifo!Drop(w)
    BY <2>1, <2>2 DEF S!TableLifo!Drop, S!TableLifo!Rest, content, Names
  <2> QED BY <1>0, <1>2, <2>1, <2>3 DEF S!TableLifo!Next, StacksInv, Names
<1>6. ASSUME NEW e \in Entries, S!TableSet(g, s, e)
      PROVE  StacksInv' /\ S!TableLifo!Next
  <2>1. /\ IsTable(table') /\ found' = found
        /\ \A x \in Names : StackIn(table', x) = IF x = w THEN Append(StackIn(table, x), e)
                                                 ELSE StackIn(table, x)
    BY <1>0, <1>6, TableSetFacts DEF w
  <2>2. content' = [content EXCEPT ![w] = Append(content[w], e)]
    BY <1>2, <1>3, <2>1
  <2>3. S!TableLifo!Push(w, e)
    BY <2>1, <2>2 DEF S!TableLifo!Push, content, Names
  <2> QED BY <1>0, <1>2, <1>6, <2>1, <2>3 DEF S!TableLifo!Next, StacksInv, Names
<1> QED BY <1>0, <1>1, <1>4, <1>5, <1>6

LEMMA MessageStep ==
  ASSUME StacksInv, S!MessageNext
  PROVE  /\ StacksInv' /\ UNCHANGED <<table, found>>
         /\ S!MessageLifo!Next
<1> DEFINE content == [x \in {"bsmp"} |-> S!MessagesIn(bytes)]
<1>0. IsTable(table) /\ IsFramed(bytes) /\ UNCHANGED <<table, found>>
  BY DEF StacksInv, S!MessageNext, S!PushMessage, S!PopMessage
<1>1. content' = [x \in {"bsmp"} |-> S!MessagesIn(bytes')]
  BY DEF S!MessagesIn, S!MessageOf, S!Payload
<1>2. CASE S!PopMessage
  <2> DEFINE q == S!MessagesIn(bytes)
  <2>1. /\ IsFramed(bytes') /\ q # <<>> /\ moved' = q[Len(q)]
        /\ S!MessagesIn(bytes') = SubSeq(q, 1, Len(q) - 1)
    BY <1>0, <1>2, PopMessageFacts
  <2>2. content["bsmp"] = q
    OBVIOUS
  <2> HIDE DEF q
  <2>3. content' = [content EXCEPT !["bsmp"] = SubSeq(q, 1, Len(q) - 1)]
    BY <1>1, <2>1
  <2>4. S!MessageLifo!Pop("bsmp")
    <3> HIDE DEF content
    <3> QED
      BY <2>1, <2>2, <2>3 DEF S!MessageLifo!Pop, S!MessageLifo!Top, S!MessageLifo!Rest, content
  <2> QED BY <1>0, <2>1, <2>4 DEF S!MessageLifo!Next, StacksInv
<1>3. ASSUME NEW m \in Messages, S!PushMessage(m)
      PROVE  StacksInv' /\ S!MessageLifo!Next
  <2> DEFINE v == S!MessageOf(S!Payload(m))
  <2>1. /\ IsFramed(bytes') /\ moved' = moved
        /\ S!MessagesIn(bytes') = Append(S!MessagesIn(bytes), v)
    BY <1>0, <1>3, PushMessageFacts
  <2>2. v \in Messages
    BY MessageOfIs
  <2> HIDE DEF v
  <2>3. content' = [content EXCEPT !["bsmp"] = Append(content["bsmp"], v)]
    BY <1>1, <2>1
  <2>4. S!MessageLifo!Push("bsmp", v)
    <3> HIDE DEF content
    <3> QED BY <2>1, <2>3 DEF S!MessageLifo!Push, content
  <2> QED BY <1>0, <2>1, <2>2, <2>4 DEF S!MessageLifo!Next, StacksInv
<1> QED BY <1>0, <1>2, <1>3 DEF S!MessageNext

(* The address table of mcutil.c returns what was registered last for a
   number and a process and not deleted, and the stack of messages returns
   them whole and in order, for any numbers, processes, sizes and initial
   capacity, however often an array is replaced by a larger one. *)
THEOREM StacksAreLifos == MCSpec => ImplementsLifos
<1>1. MCInit => StacksInv /\ S!TableLifo!Init /\ S!MessageLifo!Init
  BY StacksInitial DEF MCInit
<1> DEFINE stacks == [x \in Names |-> S!EntriesOf(x)]
           messages == [x \in {"bsmp"} |-> S!MessagesIn(bytes)]
<1>2. StacksInv /\ [MCNext]_allVars
        => /\ StacksInv'
           /\ [S!TableLifo!Next]_<<stacks, found>> /\ [S!MessageLifo!Next]_<<messages, moved>>
  <2> SUFFICES ASSUME StacksInv, [MCNext]_allVars
               PROVE  /\ StacksInv'
                      /\ [S!TableLifo!Next]_<<stacks, found>>
                      /\ [S!MessageLifo!Next]_<<messages, moved>>
    OBVIOUS
  <2>1. ASSUME UNCHANGED bytes
        PROVE  UNCHANGED messages
    BY <2>1 DEF S!MessagesIn, S!MessageOf, S!Payload
  <2>2. ASSUME UNCHANGED table
        PROVE  UNCHANGED stacks
    BY <2>2 DEF S!EntriesOf
  <2> HIDE DEF stacks, messages
  <2>3. CASE S!TableNext
    BY <2>1, <2>3, TableStep
  <2>4. CASE S!MessageNext
    BY <2>2, <2>4, MessageStep
  <2>5. CASE UNCHANGED stackVars
    <3>1. table' = table /\ bytes' = bytes /\ found' = found /\ moved' = moved
      BY <2>5 DEF stackVars
    <3>2. StacksInv'
      BY <3>1 DEF StacksInv
    <3> QED BY <2>1, <2>2, <3>1, <3>2
  <2> QED BY <2>3, <2>4, <2>5 DEF MCNext, allVars, stackVars
<1>3. StacksInv /\ [MCNext]_allVars
        => /\ StacksInv'
           /\ [S!TableLifo!Next]_<<[ks \in Globals \X Procs |-> S!EntriesOf(ks)], found>>
           /\ [S!MessageLifo!Next]_<<[x \in {"bsmp"} |-> S!MessagesIn(bytes)], moved>>
  BY <1>2 DEF Names
<1> QED
  BY <1>1, <1>3, PTL DEF MCSpec, ImplementsLifos, S!ImplementsLifos, S!TableLifo!Spec,
    S!MessageLifo!Spec
====
