---- MODULE BsmpProofs ----
(***************************************************************************)
(* Message passing, for every number of processes, messages, supersteps    *)
(* and every set of tag and payload sizes: the tag size rests while it is  *)
(* used, nobody goes on after a disagreement about it, and every message   *)
(* arrives intact and once.                                                *)
(***************************************************************************)
EXTENDS Bsmp, WellFoundedInduction, SequenceTheorems, FiniteSetTheorems, TLAPS

(* What every lemma below may rely on. *)
Sound == ConstantsOK /\ TypeOK /\ BarriersInStep

LEMMA ConstantFacts ==
  ASSUME ConstantsOK
  PROVE  /\ P \in Nat /\ P > 0
         /\ MaxSupersteps \in Nat /\ MaxMessages \in Nat
         /\ TagSizes \subseteq Nat /\ PayloadSizes \subseteq Nat
         /\ \A s : s \in Procs <=> s \in Nat /\ s < P
         /\ 0 \in Procs
BY DEF ConstantsOK, Procs

LEMMA LeastNumber ==
  ASSUME NEW T, T \subseteq Nat, T # {}
  PROVE  \E n \in T : \A m \in T : ~ (m < n)
<1>1. PICK n \in T : \A m \in T : <<m, n>> \notin OpToRel(<, Nat)
  BY WFMin, NatLessThanWellFounded, Zenon
<1> QED BY <1>1, Zenon DEF OpToRel

(* Completed is well defined: the process that lags most determines it. *)
LEMMA CompletedExists ==
  Sound =>
    /\ Completed \in 0 .. MaxSupersteps
    /\ \A s \in Procs : entered[s] >= 3 * Completed
    /\ \E s \in Procs : entered[s] < 3 * (Completed + 1)
<1> SUFFICES ASSUME Sound
             PROVE  \E d \in 0 .. MaxSupersteps :
                      /\ \A s \in Procs : entered[s] >= 3 * d
                      /\ \E s \in Procs : entered[s] < 3 * (d + 1)
  BY DEF Completed
<1>1. \A s \in Procs : entered[s] \in Nat /\ calls[s] \in 0 .. MaxSupersteps /\ entered[s] <= 3 * calls[s]
  BY DEF Sound, TypeOK, Bar!TypeOK, Bar!Procs, Procs, BarriersInStep
<1> DEFINE T == {entered[s] : s \in Procs}
<1>2. T \subseteq Nat /\ T # {}
  BY <1>1, ConstantFacts DEF Sound
<1>3. PICK n \in T : \A m \in T : ~ (m < n)
  BY <1>2, LeastNumber
<1>4. PICK u \in Procs : n = entered[u]
  OBVIOUS
<1>5. PICK d \in Nat : 3 * d <= n /\ n < 3 * d + 3
  <2>1. n \in Nat
    BY <1>2
  <2>2. n \div 3 \in Nat /\ 3 * (n \div 3) <= n /\ n < 3 * (n \div 3) + 3
    BY <2>1
  <2> QED BY <2>2
<1>6. d <= MaxSupersteps
  BY <1>1, <1>4, <1>5, ConstantFacts DEF Sound
<1>7. \A s \in Procs : entered[s] >= 3 * d
  BY <1>1, <1>3, <1>5
<1> QED BY <1>1, <1>4, <1>5, <1>6, <1>7, ConstantFacts DEF Sound

NoOtherIsCompleted ==
  \A d \in 0 .. MaxSupersteps :
    (\A s \in Procs : entered[s] >= 3 * d) /\ (\E s \in Procs : entered[s] < 3 * (d + 1))
      => Completed = d

LEMMA CompletedUnique == Sound => NoOtherIsCompleted
<1> SUFFICES ASSUME NEW d \in 0 .. MaxSupersteps, Sound,
                    \A s \in Procs : entered[s] >= 3 * d, \E s \in Procs : entered[s] < 3 * (d + 1)
             PROVE  Completed = d
  BY DEF NoOtherIsCompleted
<1>1. \A s \in Procs : entered[s] \in Nat
  BY DEF Sound, TypeOK, Bar!TypeOK, Bar!Procs, Procs
<1>2. /\ Completed \in Nat /\ d \in Nat
      /\ \A s \in Procs : entered[s] >= 3 * Completed
      /\ \E s \in Procs : entered[s] < 3 * (Completed + 1)
  BY CompletedExists, ConstantFacts DEF Sound
<1>3. Completed < d + 1
  BY <1>1, <1>2
<1>4. d < Completed + 1
  BY <1>1, <1>2
<1> QED BY <1>2, <1>3, <1>4

(* Where a process can be when Completed synchronisations are complete. *)
LEMMA Positions ==
  ASSUME Sound, NEW s \in Procs
  PROVE  /\ Completed \in 0 .. MaxSupersteps
         /\ entered[s] \in Nat /\ crossed[s] \in Nat /\ calls[s] \in 0 .. MaxSupersteps
         /\ 3 * Completed <= entered[s] /\ entered[s] <= 3 * Completed + 3
         /\ 3 * Completed <= crossed[s] + 1 /\ crossed[s] <= 3 * Completed + 2
         /\ crossed[s] = entered[s] \/ entered[s] = crossed[s] + 1
         /\ entered[s] > 3 * Completed => calls[s] = Completed + 1
         /\ crossed[s] < 3 * Completed => calls[s] = Completed
<1>1. /\ entered[s] \in Nat /\ crossed[s] \in Nat /\ calls[s] \in 0 .. MaxSupersteps
      /\ \A t \in Procs : entered[t] \in Nat
  BY DEF Sound, TypeOK, Bar!TypeOK, Bar!Procs, Procs
<1>2. /\ Completed \in Nat /\ Completed \in 0 .. MaxSupersteps
      /\ entered[s] >= 3 * Completed
      /\ \E t \in Procs : entered[t] < 3 * (Completed + 1)
  BY CompletedExists, ConstantFacts DEF Sound
<1>3. /\ crossed[s] <= entered[s] /\ entered[s] <= crossed[s] + 1
      /\ entered[s] <= 3 * calls[s] /\ 3 * calls[s] <= crossed[s] + 3
      /\ \A t \in Procs : crossed[s] <= entered[t]
  BY DEF Sound, BarriersInStep
<1>4. crossed[s] <= 3 * Completed + 2
  BY <1>1, <1>2, <1>3
<1> QED BY <1>1, <1>2, <1>3, <1>4

LEMMA Phases ==
  ASSUME Sound, NEW s \in Procs
  PROVE  /\ Phase(s) = "compute" => entered[s] = 3 * Completed /\ crossed[s] = 3 * Completed /\ calls[s] = Completed
         /\ Phase(s) = "drain" =>
              entered[s] = 3 * Completed /\ crossed[s] = 3 * Completed /\ calls[s] = Completed + 1
         /\ Phase(s) = "get" =>
              entered[s] = 3 * Completed + 1 /\ crossed[s] = 3 * Completed + 1 /\ calls[s] = Completed + 1
         /\ Phase(s) = "deliver" =>
              entered[s] = 3 * Completed + 2 /\ crossed[s] = 3 * Completed + 2 /\ calls[s] = Completed + 1
         /\ Phase(s) = "waiting" => entered[s] = crossed[s] + 1
<1> DEFINE c == Completed
<1>1. /\ c \in Nat /\ entered[s] \in Nat /\ crossed[s] \in Nat /\ calls[s] \in Nat
      /\ 3 * c <= entered[s] /\ entered[s] <= 3 * c + 3
      /\ 3 * c <= crossed[s] + 1 /\ crossed[s] <= 3 * c + 2
      /\ crossed[s] = entered[s] \/ entered[s] = crossed[s] + 1
      /\ entered[s] <= 3 * calls[s] /\ 3 * calls[s] <= crossed[s] + 3
  BY Positions, ConstantFacts DEF Sound, BarriersInStep
<1> HIDE DEF c
<1>0. CASE fatal
  BY <1>0 DEF Phase
<1>2. CASE ~ fatal /\ crossed[s] = entered[s]
  <2>1. CASE crossed[s] = 3 * c
    <3>1. crossed[s] % 3 = 0
      BY <1>1, <2>1
    <3>2. Phase(s) = IF crossed[s] = 3 * calls[s] THEN "compute" ELSE "drain"
      BY <1>2, <3>1 DEF Phase
    <3>3. calls[s] = c \/ calls[s] = c + 1
      BY <1>1, <1>2, <2>1
    <3> QED BY <1>1, <1>2, <2>1, <3>2, <3>3 DEF c
  <2>2. CASE crossed[s] = 3 * c + 1
    <3>1. crossed[s] % 3 = 1
      BY <1>1, <2>2
    <3>2. crossed[s] # 3 * calls[s] /\ calls[s] = c + 1
      BY <1>1, <1>2, <2>2
    <3>3. Phase(s) = "get"
      BY <1>2, <3>1, <3>2 DEF Phase
    <3> QED BY <1>2, <2>2, <3>2, <3>3 DEF c
  <2>3. CASE crossed[s] = 3 * c + 2
    <3>1. crossed[s] % 3 = 2
      BY <1>1, <2>3
    <3>2. crossed[s] # 3 * calls[s] /\ calls[s] = c + 1
      BY <1>1, <1>2, <2>3
    <3>3. Phase(s) = "deliver"
      BY <1>2, <3>1, <3>2 DEF Phase
    <3> QED BY <1>2, <2>3, <3>2, <3>3 DEF c
  <2> QED BY <1>1, <1>2, <2>1, <2>2, <2>3
<1>3. CASE ~ fatal /\ crossed[s] # entered[s]
  BY <1>1, <1>3 DEF Phase, c
<1> QED BY <1>0, <1>2, <1>3
----
(* Types. *)
HpEntry == [id : 1 .. MaxMessages, size : PayloadSizes]

LEMMA TypesOfState ==
  TypeOK <=>
    /\ tagSize \in TagSizes \cup {0}
    /\ newTagSize \in [Procs -> TagSizes \cup {0}]
    /\ queues \in [Procs -> [Procs -> Seq(Byte)]]
    /\ hpsend_queues \in [Procs -> [Procs -> Seq(HpEntry)]]
    /\ bsmp \in [Procs -> Seq(Byte)]
    /\ calls \in [Procs -> 0 .. MaxSupersteps]
    /\ k \in [Procs -> 0 .. P]
    /\ checked \in [Procs -> BOOLEAN]
    /\ fatal \in BOOLEAN
    /\ entered \in [Procs -> Nat] /\ crossed \in [Procs -> Nat]
    /\ messages \in 0 .. MaxMessages
    /\ sent \in [Procs -> SUBSET Message]
    /\ due \in [Procs -> SUBSET Message]
BY DEF TypeOK, Bar!TypeOK, Bar!Procs, Procs, HpEntry

LEMMA TypesOfStateNext ==
  TypeOK' <=>
    /\ tagSize' \in TagSizes \cup {0}
    /\ newTagSize' \in [Procs -> TagSizes \cup {0}]
    /\ queues' \in [Procs -> [Procs -> Seq(Byte)]]
    /\ hpsend_queues' \in [Procs -> [Procs -> Seq(HpEntry)]]
    /\ bsmp' \in [Procs -> Seq(Byte)]
    /\ calls' \in [Procs -> 0 .. MaxSupersteps]
    /\ k' \in [Procs -> 0 .. P]
    /\ checked' \in [Procs -> BOOLEAN]
    /\ fatal' \in BOOLEAN
    /\ entered' \in [Procs -> Nat] /\ crossed' \in [Procs -> Nat]
    /\ messages' \in 0 .. MaxMessages
    /\ sent' \in [Procs -> SUBSET Message]
    /\ due' \in [Procs -> SUBSET Message]
BY DEF TypeOK, Bar!TypeOK, Bar!Procs, Procs, HpEntry

(* The bytes of a part, and the pieces of a stack. *)
LEMMA BytesAre ==
  ASSUME NEW part \in {"payload", "tag"}, NEW id \in Nat, NEW size \in Nat
  PROVE  /\ Bytes(part, id, size) \in Seq(Byte)
         /\ Len(Bytes(part, id, size)) = size
         /\ \A j \in 1 .. size : Bytes(part, id, size)[j] = [part |-> part, of |-> id, n |-> j]
<1>1. Bytes(part, id, size) \in [1 .. size -> Byte]
  BY DEF Bytes, Byte
<1>2. Bytes(part, id, size) \in Seq(Byte)
  BY <1>1, SeqDef
<1>3. DOMAIN Bytes(part, id, size) = 1 .. size
  BY <1>1
<1>4. Len(Bytes(part, id, size)) = size
  BY <1>2, <1>3, LenProperties
<1> QED BY <1>2, <1>4 DEF Bytes

LEMMA LengthIs ==
  ASSUME NEW id \in Nat, NEW size \in Nat
  PROVE  /\ Length(id, size) \in Seq(Byte)
         /\ Len(Length(id, size)) = 1
         /\ Length(id, size)[1] = [part |-> "length", of |-> id, n |-> size]
BY DEF Length, Byte

LEMMA UpperIs ==
  ASSUME NEW S, NEW q \in Seq(S), NEW size \in Nat, size <= Len(q)
  PROVE  /\ Upper(q, size) \in Seq(S) /\ Len(Upper(q, size)) = size
         /\ \A j \in 1 .. size : Upper(q, size)[j] = q[Len(q) - size + j]
<1>1. Len(q) \in Nat /\ \A i \in 1 .. Len(q) : q[i] \in S
  BY LenProperties, ElementOfSeq
<1>2. /\ Len(q) - size + 1 \in Int /\ Len(q) \in Int
      /\ \A i \in Len(q) - size + 1 .. Len(q) : q[i] \in S
  BY <1>1
<1> DEFINE m == Len(q) - size + 1
<1> HIDE DEF m
<1>3. /\ SubSeq(q, m, Len(q)) \in Seq(S)
      /\ Len(SubSeq(q, m, Len(q))) = IF m <= Len(q) THEN Len(q) - m + 1 ELSE 0
      /\ \A i \in 1 .. Len(q) - m + 1 : SubSeq(q, m, Len(q))[i] = q[m + i - 1]
  BY <1>2, SubSeqProperties DEF m
<1>4. m \in Int /\ Len(q) - m + 1 = size /\ \A j \in 1 .. size : m + j - 1 = Len(q) - size + j
  BY <1>1 DEF m
<1>5. Len(SubSeq(q, m, Len(q))) = size
  BY <1>1, <1>3, <1>4
<1> QED BY <1>3, <1>4, <1>5 DEF Upper, m

LEMMA LowerIs ==
  ASSUME NEW S, NEW q \in Seq(S), NEW size \in Nat, size <= Len(q)
  PROVE  /\ Lower(q, size) \in Seq(S) /\ Len(Lower(q, size)) = Len(q) - size
         /\ \A j \in 1 .. Len(q) - size : Lower(q, size)[j] = q[j]
<1>1. Len(q) \in Nat /\ \A i \in 1 .. Len(q) : q[i] \in S
  BY LenProperties, ElementOfSeq
<1> DEFINE n == Len(q) - size
<1>2. n \in Nat /\ n <= Len(q) /\ \A i \in 1 .. n : q[i] \in S
  BY <1>1
<1> HIDE DEF n
<1>3. /\ SubSeq(q, 1, n) \in Seq(S)
      /\ Len(SubSeq(q, 1, n)) = IF 1 <= n THEN n - 1 + 1 ELSE 0
      /\ \A i \in 1 .. n - 1 + 1 : SubSeq(q, 1, n)[i] = q[1 + i - 1]
  BY <1>2, SubSeqProperties
<1>4. Len(SubSeq(q, 1, n)) = n
  BY <1>2, <1>3
<1>5. \A i \in 1 .. n : SubSeq(q, 1, n)[i] = q[i]
  BY <1>2, <1>3
<1> QED BY <1>3, <1>4, <1>5 DEF Lower, n

(* The parts of the message on top of a stack. *)
LEMMA TopIs ==
  ASSUME NEW q \in Seq(Byte), q # <<>>, ~ Unreadable(q), tagSize \in Nat
  PROVE  /\ Len(q) \in Nat /\ Len(q) > 0 /\ q[Len(q)] \in Byte
         /\ TopSize(q) \in Nat /\ 1 + tagSize + TopSize(q) <= Len(q)
         /\ TopPayload(q) \in Seq(Byte) /\ TopTag(q) \in Seq(Byte) /\ Upper(q, 1) \in Seq(Byte)
         /\ BelowTop(q) \in Seq(Byte) /\ Len(BelowTop(q)) = Len(q) - (1 + tagSize + TopSize(q))
<1>1. Len(q) \in Nat /\ Len(q) > 0 /\ Len(q) \in 1 .. Len(q)
  BY EmptySeq, LenProperties
<1>2. q[Len(q)] \in Byte
  BY <1>1, ElementOfSeq
<1>3. TopSize(q) \in Nat
  BY <1>2 DEF TopSize, Byte
<1>4. 1 + tagSize + TopSize(q) <= Len(q)
  BY <1>1, <1>3 DEF Unreadable
<1>5. Upper(q, 1) \in Seq(Byte)
  BY <1>1, UpperIs
<1>6. Lower(q, 1) \in Seq(Byte) /\ Len(Lower(q, 1)) = Len(q) - 1
  BY <1>1, LowerIs
<1>7. TopTag(q) \in Seq(Byte)
  <2>1. tagSize <= Len(Lower(q, 1))
    BY <1>1, <1>3, <1>4, <1>6
  <2> QED BY <1>6, <2>1, UpperIs DEF TopTag
<1>8. /\ Lower(q, 1 + tagSize) \in Seq(Byte)
      /\ Len(Lower(q, 1 + tagSize)) = Len(q) - (1 + tagSize)
  <2>1. 1 + tagSize \in Nat /\ 1 + tagSize <= Len(q)
    BY <1>1, <1>3, <1>4
  <2> QED BY <2>1, LowerIs
<1>9. TopPayload(q) \in Seq(Byte)
  <2>1. TopSize(q) <= Len(Lower(q, 1 + tagSize))
    BY <1>1, <1>3, <1>4, <1>8
  <2> QED BY <1>3, <1>8, <2>1, UpperIs DEF TopPayload
<1>10. BelowTop(q) \in Seq(Byte) /\ Len(BelowTop(q)) = Len(q) - (1 + tagSize + TopSize(q))
  <2>1. 1 + tagSize + TopSize(q) \in Nat
    BY <1>3
  <2> QED BY <1>4, <2>1, LowerIs DEF BelowTop
<1> QED BY <1>1, <1>2, <1>3, <1>4, <1>5, <1>7, <1>9, <1>10
LEMMA Concatenations ==
  ASSUME NEW a \in Seq(Byte), NEW b \in Seq(Byte), NEW c \in Seq(Byte), NEW d \in Seq(Byte)
  PROVE  a \o b \o c \in Seq(Byte) /\ a \o b \o c \o d \in Seq(Byte)
BY ConcatProperties

(* The queue of the sender whose turn it is. *)
LEMMA FromIsAProcess ==
  ASSUME ConstantsOK, TypeOK, NEW s \in Procs
  PROVE  From(s) \in Procs
<1>1. P \in Nat /\ P > 0 /\ k[s] \in Nat /\ s \in Nat
  BY ConstantFacts, TypesOfState
<1>2. (k[s] + s) % P \in 0 .. P-1
  BY <1>1
<1> QED BY <1>2 DEF From, Procs

(* What a message brings to the queue of its sender. *)
LEMMA SendsIs ==
  ASSUME ConstantsOK, TypeOK, NEW s \in Procs, NEW t \in Procs, NEW size \in PayloadSizes, Sends(s, t, size)
  PROVE  /\ messages' = messages + 1 /\ messages' \in 1 .. MaxMessages /\ messages' \in Nat
         /\ size \in Nat /\ tagSize \in Nat
         /\ sent' \in [Procs -> SUBSET Message]
<1>0. /\ messages \in 0 .. MaxMessages /\ MaxMessages \in Nat
      /\ size \in Nat /\ tagSize \in Nat /\ tagSize \in TagSizes \cup {0}
      /\ sent \in [Procs -> SUBSET Message]
  BY ConstantFacts, TypesOfState
<1>1. /\ messages' = messages + 1 /\ messages < MaxMessages
      /\ sent' = [sent EXCEPT ![t] = sent[t] \cup {[id |-> messages', size |-> size, tagSize |-> tagSize]}]
  BY DEF Sends
<1>2. messages' \in 1 .. MaxMessages
  BY <1>0, <1>1
<1>3. [id |-> messages', size |-> size, tagSize |-> tagSize] \in Message
  BY <1>0, <1>2 DEF Message
<1>4. sent' \in [Procs -> SUBSET Message]
  BY <1>0, <1>1, <1>3
<1> QED BY <1>0, <1>1, <1>2, <1>4

LEMMA TypeStep == ConstantsOK /\ TypeOK /\ [Next]_vars => TypeOK'
<1> SUFFICES ASSUME ConstantsOK, TypeOK, [Next]_vars
             PROVE  TypeOK'
  OBVIOUS
<1>t. /\ tagSize \in TagSizes \cup {0}
      /\ newTagSize \in [Procs -> TagSizes \cup {0}]
      /\ queues \in [Procs -> [Procs -> Seq(Byte)]]
      /\ hpsend_queues \in [Procs -> [Procs -> Seq(HpEntry)]]
      /\ bsmp \in [Procs -> Seq(Byte)]
      /\ calls \in [Procs -> 0 .. MaxSupersteps]
      /\ k \in [Procs -> 0 .. P]
      /\ checked \in [Procs -> BOOLEAN]
      /\ fatal \in BOOLEAN
      /\ entered \in [Procs -> Nat] /\ crossed \in [Procs -> Nat]
      /\ messages \in 0 .. MaxMessages
      /\ sent \in [Procs -> SUBSET Message]
      /\ due \in [Procs -> SUBSET Message]
  BY TypesOfState
<1>c. P \in Nat /\ P > 0 /\ MaxSupersteps \in Nat /\ 0 \in Procs /\ tagSize \in Nat /\ <<>> \in Seq(Byte)
  BY <1>t, ConstantFacts, EmptySeq
<1>1. ASSUME NEW s \in Procs, NEW size \in TagSizes, SetTagSize(s, size)
      PROVE  TypeOK'
  <2>1. newTagSize' \in [Procs -> TagSizes \cup {0}]
    BY <1>1, <1>t DEF SetTagSize
  <2> QED BY <1>1, <1>t, <2>1, TypesOfStateNext DEF SetTagSize, queueVars, historyVars
<1>2. ASSUME NEW s \in Procs, NEW t \in Procs, NEW size \in PayloadSizes, Send(s, t, size)
      PROVE  TypeOK'
  <2>1. /\ messages' \in 1 .. MaxMessages /\ messages' \in Nat
        /\ size \in Nat /\ tagSize \in Nat /\ sent' \in [Procs -> SUBSET Message]
    BY <1>2, SendsIs DEF Send
  <2> DEFINE x == queues[s][t] \o Bytes("payload", messages', size) \o Bytes("tag", messages', tagSize)
                    \o Length(messages', size)
  <2>2. x \in Seq(Byte)
    <3>1. queues[s][t] \in Seq(Byte)
      BY <1>t
    <3>2. Bytes("payload", messages', size) \in Seq(Byte) /\ Bytes("tag", messages', tagSize) \in Seq(Byte)
      BY <2>1, BytesAre
    <3> QED BY <2>1, <3>1, <3>2, LengthIs, Concatenations
  <2>3. queues' = [queues EXCEPT ![s][t] = x]
    BY <1>2 DEF Send
  <2> HIDE DEF x
  <2>4. queues' \in [Procs -> [Procs -> Seq(Byte)]]
    BY <1>t, <2>2, <2>3
  <2>5. messages' \in 0 .. MaxMessages
    BY <2>1
  <2> QED BY <1>2, <1>t, <2>1, <2>4, <2>5, TypesOfStateNext DEF Send, sizeVars
<1>3. ASSUME NEW s \in Procs, NEW t \in Procs, NEW size \in PayloadSizes, HpSend(s, t, size)
      PROVE  TypeOK'
  <2>1. messages' \in 1 .. MaxMessages /\ messages' \in Nat /\ sent' \in [Procs -> SUBSET Message]
    BY <1>3, SendsIs DEF HpSend
  <2> DEFINE x == Append(hpsend_queues[s][t], [id |-> messages', size |-> size])
  <2>2. x \in Seq(HpEntry)
    <3>1. hpsend_queues[s][t] \in Seq(HpEntry) /\ [id |-> messages', size |-> size] \in HpEntry
      BY <1>t, <2>1 DEF HpEntry
    <3> QED BY <3>1, AppendProperties
  <2>3. hpsend_queues' = [hpsend_queues EXCEPT ![s][t] = x]
    BY <1>3 DEF HpSend
  <2> HIDE DEF x
  <2>4. hpsend_queues' \in [Procs -> [Procs -> Seq(HpEntry)]]
    BY <1>t, <2>2, <2>3
  <2>5. messages' \in 0 .. MaxMessages
    BY <2>1
  <2> QED BY <1>3, <1>t, <2>1, <2>4, <2>5, TypesOfStateNext DEF HpSend, sizeVars
<1>4. ASSUME NEW s \in Procs, Move(s)
      PROVE  TypeOK'
  <2>1. BelowTop(bsmp[s]) \in Seq(Byte)
    BY <1>4, <1>t, <1>c, TopIs DEF Move
  <2>2. bsmp' = [bsmp EXCEPT ![s] = BelowTop(bsmp[s])]
    BY <1>4 DEF Move
  <2>3. bsmp' \in [Procs -> Seq(Byte)]
    BY <1>t, <2>1, <2>2
  <2>4. due' \in [Procs -> SUBSET Message]
    BY <1>4, <1>t DEF Move
  <2> QED BY <1>4, <1>t, <2>3, <2>4, TypesOfStateNext DEF Move, sizeVars
<1>5. ASSUME NEW s \in Procs, Call(s)
      PROVE  TypeOK'
  <2>1. calls' \in [Procs -> 0 .. MaxSupersteps]
    <3>1. calls[s] < MaxSupersteps /\ calls' = [calls EXCEPT ![s] = calls[s] + 1]
      BY <1>5 DEF Call
    <3>2. calls[s] + 1 \in 0 .. MaxSupersteps
      <4>1. calls[s] \in 0 .. MaxSupersteps /\ MaxSupersteps \in Nat
        BY <1>t, <1>c
      <4> QED BY <3>1, <4>1
    <3> QED BY <1>t, <3>1, <3>2
  <2>2. bsmp' \in [Procs -> Seq(Byte)]
    BY <1>5, <1>t, <1>c DEF Call
  <2>3. checked' \in [Procs -> BOOLEAN]
    BY <1>5, <1>t DEF Call
  <2> QED BY <1>5, <1>t, <2>1, <2>2, <2>3, TypesOfStateNext DEF Call, sizeVars, historyVars
<1>6. ASSUME NEW s \in Procs, ArriveStart(s) \/ ArriveMid(s)
      PROVE  TypeOK'
  <2>1. entered' \in [Procs -> Nat] /\ crossed' = crossed
    <3>1. Bar!Arrive(s)
      BY <1>6 DEF ArriveStart, ArriveMid
    <3> QED BY <1>t, <3>1 DEF Bar!Arrive
  <2>2. tagSize' \in TagSizes \cup {0}
    BY <1>6, <1>t, <1>c DEF ArriveStart, ArriveMid, sizeVars
  <2> QED
    BY <1>6, <1>t, <2>1, <2>2, TypesOfStateNext DEF ArriveStart, ArriveMid, sizeVars, queueVars, historyVars
<1>7. ASSUME NEW s \in Procs, Check(s)
      PROVE  TypeOK'
  <2>1. checked' \in [Procs -> BOOLEAN] /\ fatal' \in BOOLEAN
    BY <1>7, <1>t DEF Check
  <2> QED BY <1>7, <1>t, <2>1, TypesOfStateNext DEF Check, sizeVars, queueVars, historyVars
<1>8. ASSUME NEW s \in Procs, DeliverHp(s)
      PROVE  TypeOK'
  <2> DEFINE u == From(s)
             q == hpsend_queues[u][s]
             e == q[Len(q)]
             x == SubSeq(q, 1, Len(q) - 1)
             y == bsmp[s] \o Bytes("payload", e.id, e.size) \o Bytes("tag", e.id, tagSize)
                    \o Length(e.id, e.size)
  <2>1. u \in Procs
    BY FromIsAProcess
  <2>2. q \in Seq(HpEntry) /\ q # <<>>
    BY <1>8, <1>t, <2>1 DEF DeliverHp
  <2>3. hpsend_queues' = [hpsend_queues EXCEPT ![u][s] = x] /\ bsmp' = [bsmp EXCEPT ![s] = y]
    BY <1>8 DEF DeliverHp
  <2> HIDE DEF q, u
  <2>4. Len(q) \in Nat /\ Len(q) > 0 /\ \A i \in 1 .. Len(q) : q[i] \in HpEntry
    BY <2>2, EmptySeq, LenProperties, ElementOfSeq
  <2>5. x \in Seq(HpEntry)
    BY <2>2, <2>4, LowerIs DEF Lower
  <2>6. e.id \in Nat /\ e.size \in Nat
    <3>1. e \in HpEntry
      BY <2>4
    <3> QED BY <3>1, ConstantFacts DEF HpEntry
  <2> HIDE DEF e
  <2>7. y \in Seq(Byte)
    <3>1. bsmp[s] \in Seq(Byte) /\ tagSize \in Nat
      BY <1>t, <1>c
    <3>2. Bytes("payload", e.id, e.size) \in Seq(Byte) /\ Bytes("tag", e.id, tagSize) \in Seq(Byte)
      BY <2>6, <3>1, BytesAre
    <3> QED BY <2>6, <3>1, <3>2, LengthIs, Concatenations
  <2> HIDE DEF x, y
  <2>8. hpsend_queues' \in [Procs -> [Procs -> Seq(HpEntry)]] /\ bsmp' \in [Procs -> Seq(Byte)]
    BY <1>t, <2>1, <2>3, <2>5, <2>7
  <2> QED BY <1>8, <1>t, <2>8, TypesOfStateNext DEF DeliverHp, sizeVars, historyVars
<1>9. ASSUME NEW s \in Procs, Deliver(s)
      PROVE  TypeOK'
  <2> DEFINE u == From(s)
             q == queues[u][s]
             y == bsmp[s] \o TopPayload(q) \o TopTag(q) \o Upper(q, 1)
  <2>1. u \in Procs
    BY FromIsAProcess
  <2>2. q \in Seq(Byte) /\ q # <<>> /\ ~ Unreadable(q)
    BY <1>9, <1>t, <2>1 DEF Deliver
  <2>3. queues' = [queues EXCEPT ![u][s] = BelowTop(q)] /\ bsmp' = [bsmp EXCEPT ![s] = y]
    BY <1>9 DEF Deliver
  <2> HIDE DEF q, u
  <2>4. /\ TopPayload(q) \in Seq(Byte) /\ TopTag(q) \in Seq(Byte) /\ Upper(q, 1) \in Seq(Byte)
        /\ BelowTop(q) \in Seq(Byte)
    BY <1>c, <2>2, TopIs
  <2>5. y \in Seq(Byte)
    BY <1>t, <2>4, Concatenations
  <2> HIDE DEF y
  <2>6. queues' \in [Procs -> [Procs -> Seq(Byte)]] /\ bsmp' \in [Procs -> Seq(Byte)]
    BY <1>t, <2>1, <2>3, <2>4, <2>5
  <2> QED BY <1>9, <1>t, <2>6, TypesOfStateNext DEF Deliver, sizeVars, historyVars
<1>10. ASSUME NEW s \in Procs, NextQueue(s)
       PROVE  TypeOK'
  <2>1. k' \in [Procs -> 0 .. P]
    <3>1. k[s] < P /\ k' = [k EXCEPT ![s] = k[s] + 1]
      BY <1>10 DEF NextQueue, Delivers
    <3>2. k[s] + 1 \in 0 .. P
      <4>1. k[s] \in 0 .. P /\ P \in Nat
        BY <1>t, <1>c
      <4> QED BY <3>1, <4>1
    <3> QED BY <1>t, <3>1, <3>2
  <2> QED BY <1>10, <1>t, <2>1, TypesOfStateNext DEF NextQueue, sizeVars, queueVars, historyVars
<1>11. ASSUME NEW s \in Procs, ArriveEnd(s)
       PROVE  TypeOK'
  <2>1. entered' \in [Procs -> Nat] /\ crossed' = crossed
    <3>1. Bar!Arrive(s)
      BY <1>11 DEF ArriveEnd
    <3> QED BY <1>t, <3>1 DEF Bar!Arrive
  <2>2. due' \in [Procs -> SUBSET Message] /\ sent' \in [Procs -> SUBSET Message]
    BY <1>11, <1>t DEF ArriveEnd
  <2> QED BY <1>11, <1>t, <2>1, <2>2, TypesOfStateNext DEF ArriveEnd, sizeVars, queueVars
<1>12. ASSUME NEW s \in Procs, Cross(s)
       PROVE  TypeOK'
  <2>1. crossed' \in [Procs -> Nat] /\ entered' = entered
    BY <1>12, <1>t DEF Cross, Bar!Cross
  <2>2. k' \in [Procs -> 0 .. P]
    BY <1>12, <1>t, <1>c DEF Cross
  <2> QED
    BY <1>12, <1>t, <2>1, <2>2, TypesOfStateNext DEF Cross, sizeVars, queueVars, historyVars
<1>13. CASE Finished \/ UNCHANGED vars
  BY <1>13, <1>t, TypesOfStateNext DEF Finished, vars
<1> QED
  BY <1>1, <1>2, <1>3, <1>4, <1>5, <1>6, <1>7, <1>8, <1>9, <1>10, <1>11, <1>12, <1>13 DEF Next, Step

----
(* The barriers. *)
LEMMA SameCompleted == entered' = entered => Completed' = Completed
BY DEF Completed

(* Which step moves a process through its barriers, and how. *)
Arrives(s) == Bar!Arrive(s) /\ UNCHANGED calls
Crosses(s) == Bar!Cross(s) /\ UNCHANGED calls
Stays == UNCHANGED <<entered, crossed, calls>>

LEMMA BarrierMoves ==
  [Next]_vars =>
    \/ Stays
    \/ \E s \in Procs : \/ Call(s)
                        \/ Phase(s) \in {"drain", "get", "deliver"} /\ Arrives(s)
                        \/ Crosses(s)
<1> SUFFICES ASSUME [Next]_vars
             PROVE  \/ Stays
                    \/ \E s \in Procs : \/ Call(s)
                                        \/ Phase(s) \in {"drain", "get", "deliver"} /\ Arrives(s)
                                        \/ Crosses(s)
  OBVIOUS
<1>1. ASSUME NEW s \in Procs, Step(s)
      PROVE  \/ Stays
             \/ Call(s)
             \/ Phase(s) \in {"drain", "get", "deliver"} /\ Arrives(s)
             \/ Crosses(s)
  <2>1. ASSUME \/ \E size \in TagSizes : SetTagSize(s, size)
               \/ \E t \in Procs, size \in PayloadSizes : Send(s, t, size) \/ HpSend(s, t, size)
               \/ Move(s) \/ Check(s) \/ DeliverHp(s) \/ Deliver(s) \/ NextQueue(s)
        PROVE  Stays
    BY <2>1 DEF SetTagSize, Send, HpSend, Move, Check, DeliverHp, Deliver, NextQueue, Stays
  <2>2. ASSUME ArriveStart(s) \/ ArriveMid(s) \/ ArriveEnd(s)
        PROVE  Phase(s) \in {"drain", "get", "deliver"} /\ Arrives(s)
    BY <2>2 DEF ArriveStart, ArriveMid, ArriveEnd, Arrives
  <2>3. ASSUME Cross(s)
        PROVE  Crosses(s)
    BY <2>3 DEF Cross, Crosses
  <2> QED BY <1>1, <2>1, <2>2, <2>3 DEF Step
<1>2. Finished \/ UNCHANGED vars => Stays
  BY DEF Finished, vars, Stays
<1> QED BY <1>1, <1>2 DEF Next

LEMMA BarrierStep == Sound /\ [Next]_vars => BarriersInStep'
<1> SUFFICES ASSUME Sound, [Next]_vars
             PROVE  BarriersInStep'
  OBVIOUS
<1>1. /\ entered \in [Procs -> Nat] /\ crossed \in [Procs -> Nat] /\ calls \in [Procs -> Nat]
      /\ \A s \in Procs :
           /\ crossed[s] <= entered[s] /\ entered[s] <= crossed[s] + 1
           /\ entered[s] <= 3 * calls[s] /\ 3 * calls[s] <= crossed[s] + 3
      /\ \A s, t \in Procs : crossed[s] <= entered[t]
  BY TypesOfState, ConstantFacts DEF Sound, BarriersInStep
<1>2. CASE Stays
  BY <1>1, <1>2 DEF Stays, BarriersInStep
<1>3. ASSUME NEW s \in Procs, Call(s)
      PROVE  BarriersInStep'
  <2>1. crossed[s] = 3 * calls[s] /\ entered[s] = crossed[s]
    BY <1>3, Phases DEF Call
  <2>2. UNCHANGED <<entered, crossed>> /\ calls' = [calls EXCEPT ![s] = @ + 1]
    BY <1>3 DEF Call
  <2> QED BY <1>1, <2>1, <2>2 DEF BarriersInStep
<1>4. ASSUME NEW s \in Procs, Phase(s) \in {"drain", "get", "deliver"}, Arrives(s)
      PROVE  BarriersInStep'
  <2>1. entered[s] = crossed[s] /\ entered[s] + 1 <= 3 * calls[s]
    BY <1>1, <1>4, Phases, Positions
  <2>2. UNCHANGED <<crossed, calls>> /\ entered' = [entered EXCEPT ![s] = @ + 1]
    BY <1>4 DEF Arrives, Bar!Arrive
  <2> QED BY <1>1, <2>1, <2>2 DEF BarriersInStep
<1>5. ASSUME NEW s \in Procs, Crosses(s)
      PROVE  BarriersInStep'
  <2>1. UNCHANGED <<entered, calls>> /\ crossed' = [crossed EXCEPT ![s] = @ + 1]
    BY <1>5 DEF Crosses, Bar!Cross
  <2>2. crossed[s] # entered[s] /\ \A t \in Procs : entered[t] >= entered[s]
    BY <1>5 DEF Crosses, Bar!Cross, Bar!Procs, Procs
  <2>3. entered[s] = crossed[s] + 1
    BY <1>1, <2>2
  <2> QED BY <1>1, <2>1, <2>2, <2>3 DEF BarriersInStep
<1> QED BY <1>2, <1>3, <1>4, <1>5, BarrierMoves

LEMMA SoundStep == Sound /\ [Next]_vars => Sound'
BY TypeStep, BarrierStep DEF Sound, ConstantsOK

LEMMA InitSound == ConstantsOK /\ Init => Sound
<1> SUFFICES ASSUME ConstantsOK, Init
             PROVE  TypeOK /\ BarriersInStep
  BY DEF Sound
<1>0. 0 \in 0 .. MaxSupersteps /\ 0 \in 0 .. P /\ 0 \in 0 .. MaxMessages
  BY ConstantFacts
<1>1. /\ entered = [s \in Procs |-> 0] /\ crossed = [s \in Procs |-> 0] /\ calls = [s \in Procs |-> 0]
  BY DEF Init, Bar!Init, Bar!Procs, Procs
<1>2. BarriersInStep
  BY <1>1 DEF BarriersInStep
<1>3. <<>> \in Seq(Byte) /\ <<>> \in Seq(HpEntry)
  BY EmptySeq
<1>4. TypeOK
  BY <1>0, <1>1, <1>3, TypesOfState DEF Init
<1> QED BY <1>2, <1>4

----
(* The tag size. *)

(* Only process 0 changes it, alone between the first two barriers. *)
LEMMA TagSizeStep ==
  ASSUME Sound, [Next]_vars, tagSize' # tagSize
  PROVE  /\ ArriveMid(0)
         /\ \A s \in Procs : Phase(s) \notin {"compute", "drain", "deliver"}
<1>1. PICK s \in Procs : ArriveMid(s)
  BY ZenonT(60) DEF Next, Step, SetTagSize, Send, HpSend, Sends, Move, Call, ArriveStart, Check, DeliverHp, Deliver,
         NextQueue, ArriveEnd, Cross, Finished, sizeVars, vars
<1>2. s = 0
  BY <1>1 DEF ArriveMid
<1>3. entered[0] = 3 * Completed + 1 /\ crossed[0] = 3 * Completed + 1 /\ 0 \in Procs
  BY <1>1, <1>2, Phases DEF ArriveMid
<1>4. ASSUME NEW t \in Procs
      PROVE  Phase(t) \notin {"compute", "drain", "deliver"}
  <2>1. /\ Completed \in Nat /\ entered[t] \in Nat /\ crossed[t] \in Nat
        /\ crossed[0] <= entered[t] /\ crossed[t] <= entered[0]
    BY <1>3, Positions, ConstantFacts DEF Sound, BarriersInStep
  <2>2. entered[t] # 3 * Completed /\ crossed[t] # 3 * Completed + 2
    BY <1>3, <2>1
  <2> QED BY <2>2, Phases
<1> QED BY <1>1, <1>2, <1>4

LEMMA NobodyComparedYet ==
  ASSUME Sound, ArriveMid(0), NEW t \in Procs
  PROVE  crossed[t] + 1 # 3 * calls[t]
<1>1. entered[0] = 3 * Completed + 1 /\ crossed[0] = 3 * Completed + 1 /\ 0 \in Procs
  BY Phases, ConstantFacts DEF ArriveMid, Sound
<1>2. /\ Completed \in Nat /\ entered[t] \in Nat /\ crossed[t] \in Nat /\ calls[t] \in Nat
      /\ crossed[0] <= entered[t] /\ crossed[t] <= entered[0] /\ entered[t] <= crossed[t] + 1
      /\ entered[t] > 3 * Completed => calls[t] = Completed + 1
  BY <1>1, Positions, ConstantFacts DEF Sound, BarriersInStep
<1> QED BY <1>1, <1>2

Compared(s) ==
  /\ crossed[s] + 1 < 3 * calls[s] => ~ checked[s]
  /\ crossed[s] + 1 = 3 * calls[s] =>
       /\ k[s] > 0 \/ entered[s] = 3 * calls[s] => checked[s]
       /\ checked[s] /\ ~ fatal => newTagSize[s] = tagSize

LEMMA AllCompared == SizesAreCompared <=> \A s \in Procs : Compared(s)
BY DEF SizesAreCompared, Compared

(* Nothing changes for a process that does not move itself. *)
SameFor(u) ==
  /\ crossed'[u] = crossed[u] /\ calls'[u] = calls[u] /\ entered'[u] = entered[u]
  /\ k'[u] = k[u] /\ checked'[u] = checked[u] /\ newTagSize'[u] = newTagSize[u]
  /\ fatal => fatal'
  /\ crossed[u] + 1 = 3 * calls[u] => tagSize' = tagSize

LEMMA StaysCompared ==
  ASSUME NEW u \in Procs, Compared(u), SameFor(u)
  PROVE  Compared(u)'
BY DEF Compared, SameFor

(* One process moves at a time. *)
LEMMA OthersStayTheSame ==
  ASSUME Sound, NEW s \in Procs, Step(s), NEW u \in Procs, u # s
  PROVE  SameFor(u)
<1>t. /\ newTagSize \in [Procs -> TagSizes \cup {0}]
      /\ calls \in [Procs -> 0 .. MaxSupersteps]
      /\ k \in [Procs -> 0 .. P]
      /\ checked \in [Procs -> BOOLEAN]
      /\ entered \in [Procs -> Nat] /\ crossed \in [Procs -> Nat]
  BY TypesOfState DEF Sound
<1>1. CASE ArriveMid(s)
  <2>1. crossed[u] + 1 = 3 * calls[u] => tagSize' = tagSize
    BY <1>1, NobodyComparedYet DEF ArriveMid
  <2> QED BY <1>1, <1>t, <2>1 DEF SameFor, ArriveMid, Bar!Arrive
<1>2. CASE ArriveStart(s) \/ ArriveEnd(s)
  <2>1. Bar!Arrive(s) /\ UNCHANGED <<calls, k, checked, newTagSize, tagSize, fatal>>
    BY <1>2 DEF ArriveStart, ArriveEnd, sizeVars
  <2> QED BY <1>t, <2>1 DEF SameFor, Bar!Arrive
<1>3. CASE \E size \in TagSizes : SetTagSize(s, size)
  BY <1>3, <1>t DEF SameFor, SetTagSize
<1>4. CASE \E t \in Procs, size \in PayloadSizes : Send(s, t, size) \/ HpSend(s, t, size)
  BY <1>4 DEF SameFor, Send, HpSend, sizeVars
<1>5. CASE Move(s) \/ DeliverHp(s) \/ Deliver(s)
  <2>1. UNCHANGED <<tagSize, newTagSize, calls, k, checked, fatal, entered, crossed>>
    BY <1>5 DEF Move, DeliverHp, Deliver, sizeVars
  <2> QED BY <2>1 DEF SameFor
<1>6. CASE Call(s) \/ NextQueue(s)
  BY <1>6, <1>t DEF SameFor, Call, NextQueue, sizeVars
<1>7. CASE Check(s)
  <2>1. ~ fatal
    BY <1>7 DEF Check, Phase
  <2> QED BY <1>7, <1>t, <2>1 DEF SameFor, Check, sizeVars
<1>8. CASE Cross(s)
  BY <1>8, <1>t DEF SameFor, Cross, Bar!Cross, sizeVars
<1> QED BY <1>1, <1>2, <1>3, <1>4, <1>5, <1>6, <1>7, <1>8 DEF Step

LEMMA ComparedStep == Sound /\ SizesAreCompared /\ [Next]_vars => SizesAreCompared'
<1> SUFFICES ASSUME Sound, SizesAreCompared, [Next]_vars
             PROVE  \A u \in Procs : Compared(u)'
  BY DEF SizesAreCompared, Compared
<1>0. \A u \in Procs : Compared(u)
  BY AllCompared
<1>1. ASSUME Finished \/ UNCHANGED vars, NEW u \in Procs
      PROVE  Compared(u)'
  BY <1>0, <1>1 DEF Finished, vars, Compared
<1>2. ASSUME NEW s \in Procs, Step(s)
      PROVE  Compared(s)'
  <2>t. /\ newTagSize \in [Procs -> TagSizes \cup {0}]
        /\ calls \in [Procs -> Nat] /\ k \in [Procs -> Nat]
        /\ checked \in [Procs -> BOOLEAN]
        /\ entered \in [Procs -> Nat] /\ crossed \in [Procs -> Nat]
        /\ P \in Nat /\ P > 0
    <3>1. /\ newTagSize \in [Procs -> TagSizes \cup {0}]
          /\ calls \in [Procs -> 0 .. MaxSupersteps] /\ k \in [Procs -> 0 .. P]
          /\ checked \in [Procs -> BOOLEAN]
          /\ entered \in [Procs -> Nat] /\ crossed \in [Procs -> Nat]
      BY TypesOfState DEF Sound
    <3>2. P \in Nat /\ P > 0 /\ MaxSupersteps \in Nat
      BY ConstantFacts DEF Sound
    <3>3. 0 .. MaxSupersteps \subseteq Nat /\ 0 .. P \subseteq Nat
      BY <3>2
    <3> QED BY <3>1, <3>2, <3>3
  <2>c. Compared(s)
    BY <1>0
  <2>1. CASE \E size \in TagSizes : SetTagSize(s, size)
    <3>1. crossed[s] = 3 * calls[s] /\ UNCHANGED <<crossed, calls>>
      BY <2>1, Phases DEF SetTagSize, InUserCode
    <3>2. crossed'[s] = 3 * calls'[s] /\ calls'[s] \in Nat
      BY <2>t, <3>1
    <3>3. ~ (crossed'[s] + 1 < 3 * calls'[s]) /\ crossed'[s] + 1 # 3 * calls'[s]
      BY <3>2
    <3> QED BY <3>3 DEF Compared
  <2>2. CASE \/ \E t \in Procs, size \in PayloadSizes : Send(s, t, size) \/ HpSend(s, t, size)
             \/ Move(s) \/ DeliverHp(s) \/ Deliver(s)
    BY <2>2, <2>c DEF Compared, Send, HpSend, Move, DeliverHp, Deliver, sizeVars
  <2>3. CASE Call(s)
    <3>1. crossed[s] = 3 * calls[s]
      BY <2>3, Phases DEF Call
    <3>2. crossed'[s] = crossed[s] /\ calls'[s] = calls[s] + 1 /\ ~ checked'[s]
      BY <2>3, <2>t DEF Call
    <3>3. crossed'[s] + 1 # 3 * calls'[s]
      BY <2>t, <3>1, <3>2
    <3> QED BY <3>2, <3>3 DEF Compared
  <2>4. CASE ArriveStart(s) \/ ArriveMid(s)
    <3>1. crossed[s] + 1 # 3 * calls[s] /\ UNCHANGED <<crossed, calls, checked>>
      <4>1. (crossed[s] = 3 * Completed \/ crossed[s] = 3 * Completed + 1) /\ calls[s] = Completed + 1
        BY <2>4, Phases DEF ArriveStart, ArriveMid
      <4>2. Completed \in Nat
        BY Positions, ConstantFacts DEF Sound
      <4>3. crossed[s] + 1 # 3 * calls[s]
        BY <4>1, <4>2
      <4> QED BY <2>4, <4>3 DEF ArriveStart, ArriveMid, Bar!Arrive
    <3> QED BY <2>c, <3>1 DEF Compared
  <2>5. CASE ArriveEnd(s)
    <3>1. crossed[s] + 1 = 3 * calls[s]
      <4>1. crossed[s] = 3 * Completed + 2 /\ calls[s] = Completed + 1
        BY <2>5, Phases DEF ArriveEnd
      <4>2. Completed \in Nat
        BY Positions, ConstantFacts DEF Sound
      <4> QED BY <4>1, <4>2
    <3>2. k[s] = P /\ UNCHANGED <<crossed, calls, checked, k, fatal, newTagSize, tagSize>>
      BY <2>5 DEF ArriveEnd, Bar!Arrive, sizeVars
    <3>3. checked[s]
      BY <2>c, <2>t, <3>1, <3>2 DEF Compared
    <3> QED BY <2>c, <3>1, <3>2, <3>3 DEF Compared
  <2>6. CASE Check(s)
    <3>1. crossed[s] + 1 = 3 * calls[s]
      <4>1. crossed[s] = 3 * Completed + 2 /\ calls[s] = Completed + 1
        BY <2>6, Phases DEF Check
      <4>2. Completed \in Nat
        BY Positions, ConstantFacts DEF Sound
      <4> QED BY <4>1, <4>2
    <3>2. /\ checked'[s] /\ fatal' = (newTagSize[s] # tagSize)
          /\ UNCHANGED <<crossed, calls, newTagSize, tagSize>>
      BY <2>6, <2>t DEF Check, sizeVars
    <3>3. ~ (crossed'[s] + 1 < 3 * calls'[s])
      BY <2>t, <3>1, <3>2
    <3> QED BY <3>2, <3>3 DEF Compared
  <2>7. CASE NextQueue(s)
    <3>1. checked[s] /\ UNCHANGED <<crossed, calls, newTagSize, tagSize, checked, fatal, entered>>
      BY <2>7 DEF NextQueue, Delivers, sizeVars
    <3> QED BY <2>c, <3>1 DEF Compared
  <2>8. CASE Cross(s)
    <3>1. /\ crossed[s] # entered[s] /\ crossed'[s] = crossed[s] + 1 /\ k'[s] = 0
          /\ UNCHANGED <<calls, newTagSize, tagSize, checked, fatal, entered>>
      BY <2>8, <2>t DEF Cross, Bar!Cross, sizeVars
    <3>2. entered[s] = crossed[s] + 1
      BY <2>t, <3>1, Positions
    <3>3. crossed'[s] + 1 <= 3 * calls'[s] => ~ checked[s] /\ entered'[s] # 3 * calls'[s]
      BY <2>c, <2>t, <3>1, <3>2 DEF Compared
    <3>4. /\ crossed'[s] \in Nat /\ calls'[s] \in Nat
          /\ crossed'[s] + 1 < 3 * calls'[s] => crossed'[s] + 1 <= 3 * calls'[s]
          /\ crossed'[s] + 1 = 3 * calls'[s] => crossed'[s] + 1 <= 3 * calls'[s]
      BY <2>t, <3>1
    <3> QED BY <3>1, <3>3, <3>4 DEF Compared
  <2> QED BY <1>2, <2>1, <2>2, <2>3, <2>4, <2>5, <2>6, <2>7, <2>8 DEF Step
<1> QED BY <1>0, <1>1, <1>2, OthersStayTheSame, StaysCompared DEF Next

LEMMA InitCompared == ConstantsOK /\ Init => SizesAreCompared
<1> SUFFICES ASSUME ConstantsOK, Init, NEW s \in Procs
             PROVE  Compared(s)
  BY AllCompared
<1>1. crossed[s] = 0 /\ calls[s] = 0
  BY DEF Init, Bar!Init, Bar!Procs, Procs
<1> QED BY <1>1 DEF Compared

(* A sound state with sizes compared in time: what SizesInv says. *)
LEMMA SizesInvIs == ConstantsOK => (SizesInv <=> Sound /\ SizesAreCompared)
BY DEF SizesInv, Sound

LEMMA SizesInvStep == ConstantsOK /\ SizesInv /\ [Next]_vars => SizesInv'
BY SizesInvIs, SoundStep, ComparedStep DEF Sound, SizesInv

LEMMA InitSizesInv == ConstantsOK /\ Init => SizesInv
BY SizesInvIs, InitSound, InitCompared

(* The three barriers, and the comparison of tag sizes between the second
   and the third. *)
THEOREM SizesCorrect ==
  ASSUME ConstantsOK
  PROVE  Spec => []SizesInv
<1>1. Init => SizesInv
  BY InitSizesInv
<1>2. SizesInv /\ [Next]_vars => SizesInv'
  BY SizesInvStep
<1> QED BY <1>1, <1>2, PTL DEF Spec

(* Whoever sends, moves or delivers reads the tag size of the superstep. *)
THEOREM SizesRest ==
  ASSUME ConstantsOK
  PROVE  Spec => TagSizeRestsWhileUsed
<1>1. SizesInv /\ [Next]_vars =>
        [tagSize' # tagSize => \A s \in Procs : Phase(s) \notin {"compute", "drain", "deliver"}]_vars
  BY SizesInvIs, TagSizeStep
<1> QED BY <1>1, SizesCorrect, PTL DEF Spec, TagSizeRestsWhileUsed

(* Whoever leaves the last barrier knows that everybody has compared the
   sizes, and found them equal. *)
LEMMA LeavingMeansAgreed ==
  ASSUME Sound, SizesAreCompared, NEW s \in Procs, Cross(s), crossed'[s] % 3 = 0,
         NEW t \in Procs, crossed[t] = crossed[s]
  PROVE  newTagSize[t] = tagSize
<1>t. /\ crossed \in [Procs -> Nat] /\ entered[s] \in Nat /\ crossed[s] \in Nat
      /\ entered[t] \in Nat /\ crossed[t] \in Nat /\ calls[t] \in Nat
      /\ crossed[t] <= entered[t] /\ entered[t] <= crossed[t] + 1
      /\ entered[t] <= 3 * calls[t] /\ 3 * calls[t] <= crossed[t] + 3
      /\ crossed[s] <= entered[s] /\ entered[s] <= crossed[s] + 1
  BY TypesOfState, Positions, ConstantFacts DEF Sound, BarriersInStep
<1>1. /\ ~ fatal /\ crossed[s] # entered[s] /\ entered[t] >= entered[s]
      /\ crossed'[s] = crossed[s] + 1
  BY <1>t DEF Cross, Bar!Cross, Bar!Procs, Procs
<1>2. entered[t] = crossed[t] + 1 /\ (crossed[t] + 1) % 3 = 0
  BY <1>t, <1>1
<1>3. PICK c \in Nat : crossed[t] + 1 = 3 * c
  <2>1. (crossed[t] + 1) \div 3 \in Nat /\ crossed[t] + 1 = 3 * ((crossed[t] + 1) \div 3)
    BY <1>t, <1>2
  <2> QED BY <2>1
<1>4. entered[t] = 3 * calls[t] /\ crossed[t] + 1 = 3 * calls[t]
  BY <1>t, <1>2, <1>3
<1> QED BY <1>1, <1>4, AllCompared DEF Compared

THEOREM DisagreementEnds ==
  ASSUME ConstantsOK
  PROVE  Spec => DisagreementIsFatal
<1>1. SizesInv /\ [Next]_vars =>
        [\A s \in Procs : crossed'[s] # crossed[s] /\ crossed'[s] % 3 = 0
           => \A t \in Procs : crossed[t] = crossed[s] => newTagSize[t] = tagSize]_vars
  <2> SUFFICES ASSUME SizesInv, [Next]_vars, NEW s \in Procs,
                      crossed'[s] # crossed[s], crossed'[s] % 3 = 0,
                      NEW t \in Procs, crossed[t] = crossed[s]
               PROVE  newTagSize[t] = tagSize
    OBVIOUS
  <2>1. Sound /\ SizesAreCompared /\ crossed \in [Procs -> Nat]
    BY SizesInvIs, TypesOfState DEF Sound
  <2>2. PICK u \in Procs : Cross(u)
    BY DEF Next, Step, SetTagSize, Send, HpSend, Move, Call, ArriveStart, ArriveMid, Check, DeliverHp,
           Deliver, NextQueue, ArriveEnd, Bar!Arrive, Finished, vars
  <2>3. u = s
    BY <2>1, <2>2 DEF Cross, Bar!Cross
  <2> QED BY <2>1, <2>2, <2>3, LeavingMeansAgreed
<1> QED BY <1>1, SizesCorrect, PTL DEF Spec, DisagreementIsFatal

----
(* Stacks of messages, byte by byte. *)

(* Where the message that ends at e begins: the end of the one below it. *)
Below(q, e) == e - (1 + tagSize + q[e].n)

WholeAt(q, e) ==
  /\ q[e].n \in Nat /\ Below(q, e) \in Nat
  /\ \A j \in 1 .. q[e].n : q[Below(q, e) + j] = [part |-> "payload", of |-> q[e].of, n |-> j]
  /\ \A j \in 1 .. tagSize :
       q[Below(q, e) + q[e].n + j] = [part |-> "tag", of |-> q[e].of, n |-> j]

Stacked(q) ==
  /\ Len(q) \in Ends(q) \cup {0}
  /\ \A e \in Ends(q) : WholeAt(q, e) /\ Below(q, e) \in Ends(q) \cup {0}
  /\ \A d, e \in Ends(q) : q[d].of = q[e].of => d = e

LEMMA PrefixIs ==
  ASSUME NEW S, NEW q \in Seq(S), NEW e \in 0 .. Len(q)
  PROVE  /\ SubSeq(q, 1, e) \in Seq(S) /\ Len(SubSeq(q, 1, e)) = e
         /\ \A j \in 1 .. e : SubSeq(q, 1, e)[j] = q[j]
<1>1. Len(q) \in Nat /\ \A i \in 1 .. Len(q) : q[i] \in S
  BY LenProperties, ElementOfSeq
<1>2. e \in Nat /\ e <= Len(q) /\ \A i \in 1 .. e : q[i] \in S
  BY <1>1
<1>3. /\ SubSeq(q, 1, e) \in Seq(S)
      /\ Len(SubSeq(q, 1, e)) = IF 1 <= e THEN e - 1 + 1 ELSE 0
      /\ \A i \in 1 .. e - 1 + 1 : SubSeq(q, 1, e)[i] = q[1 + i - 1]
  BY <1>2, SubSeqProperties
<1>4. Len(SubSeq(q, 1, e)) = e /\ \A i \in 1 .. e : SubSeq(q, 1, e)[i] = q[i]
  BY <1>2, <1>3
<1> QED BY <1>3, <1>4

(* The top of a stack whose last byte is a length. *)
LEMMA TopBytes ==
  ASSUME NEW r \in Seq(Byte), r # <<>>, tagSize \in Nat,
         r[Len(r)].n \in Nat, Below(r, Len(r)) \in Nat
  PROVE  /\ Len(Lower(r, 1)) = Len(r) - 1 /\ Lower(r, 1) \in Seq(Byte)
         /\ TopTag(r) \in Seq(Byte) /\ Len(TopTag(r)) = tagSize
         /\ \A j \in 1 .. tagSize : TopTag(r)[j] = r[Below(r, Len(r)) + r[Len(r)].n + j]
         /\ TopPayload(r) \in Seq(Byte) /\ Len(TopPayload(r)) = r[Len(r)].n
         /\ \A j \in 1 .. r[Len(r)].n : TopPayload(r)[j] = r[Below(r, Len(r)) + j]
         /\ BelowTop(r) \in Seq(Byte) /\ Len(BelowTop(r)) = Below(r, Len(r))
         /\ \A j \in 1 .. Below(r, Len(r)) : BelowTop(r)[j] = r[j]
<1> DEFINE n == Len(r)
           z == r[n].n
           b == Below(r, n)
<1>1. n \in Nat /\ n > 0
  BY EmptySeq, LenProperties
<1>2. z \in Nat /\ b \in Nat /\ b = n - (1 + tagSize + z) /\ TopSize(r) = z
  BY DEF Below, TopSize
<1> HIDE DEF z, b, n
<1>3. n = 1 + tagSize + z + b
  BY <1>1, <1>2
<1>4. Lower(r, 1) \in Seq(Byte) /\ Len(Lower(r, 1)) = n - 1 /\ \A j \in 1 .. n - 1 : Lower(r, 1)[j] = r[j]
  BY <1>1, LowerIs DEF n
<1>5. /\ TopTag(r) \in Seq(Byte) /\ Len(TopTag(r)) = tagSize
      /\ \A j \in 1 .. tagSize : TopTag(r)[j] = r[b + z + j]
  <2>1. tagSize <= Len(Lower(r, 1))
    BY <1>2, <1>3, <1>4
  <2>2. /\ TopTag(r) \in Seq(Byte) /\ Len(TopTag(r)) = tagSize
        /\ \A j \in 1 .. tagSize : TopTag(r)[j] = Lower(r, 1)[Len(Lower(r, 1)) - tagSize + j]
    BY <1>4, <2>1, UpperIs DEF TopTag
  <2>3. \A j \in 1 .. tagSize :
          Len(Lower(r, 1)) - tagSize + j = b + z + j /\ b + z + j \in 1 .. n - 1
    BY <1>2, <1>3, <1>4
  <2> QED BY <1>4, <2>2, <2>3
<1>6. /\ Lower(r, 1 + tagSize) \in Seq(Byte) /\ Len(Lower(r, 1 + tagSize)) = b + z
      /\ \A j \in 1 .. b + z : Lower(r, 1 + tagSize)[j] = r[j]
  <2>1. 1 + tagSize \in Nat /\ 1 + tagSize <= n /\ n - (1 + tagSize) = b + z
    BY <1>2, <1>3
  <2> QED BY <2>1, LowerIs DEF n
<1>7. /\ TopPayload(r) \in Seq(Byte) /\ Len(TopPayload(r)) = z
      /\ \A j \in 1 .. z : TopPayload(r)[j] = r[b + j]
  <2>1. z <= Len(Lower(r, 1 + tagSize)) /\ \A j \in 1 .. z : b + z - z + j = b + j /\ b + j \in 1 .. b + z
    BY <1>2, <1>6
  <2>2. /\ TopPayload(r) \in Seq(Byte) /\ Len(TopPayload(r)) = z
        /\ \A j \in 1 .. z : TopPayload(r)[j] = Lower(r, 1 + tagSize)[b + z - z + j]
    <3> DEFINE l == Lower(r, 1 + tagSize)
    <3>1. l \in Seq(Byte) /\ Len(l) = b + z /\ z <= Len(l) /\ TopPayload(r) = Upper(l, z)
      BY <1>2, <1>6, <2>1 DEF TopPayload
    <3> HIDE DEF l
    <3>2. /\ Upper(l, z) \in Seq(Byte) /\ Len(Upper(l, z)) = z
          /\ \A j \in 1 .. z : Upper(l, z)[j] = l[Len(l) - z + j]
      BY <1>2, <3>1, UpperIs
    <3>3. \A j \in 1 .. z : TopPayload(r)[j] = l[b + z - z + j]
      <4>1. Len(l) - z = b + z - z
        BY <1>2, <3>1
      <4> QED BY <3>1, <3>2, <4>1, Zenon
    <3> QED BY <3>1, <3>2, <3>3 DEF l
  <2> QED BY <1>6, <2>1, <2>2
<1>8. /\ BelowTop(r) \in Seq(Byte) /\ Len(BelowTop(r)) = b
      /\ \A j \in 1 .. b : BelowTop(r)[j] = r[j]
  <2>1. 1 + tagSize + z \in Nat /\ 1 + tagSize + z <= n /\ n - (1 + tagSize + z) = b
    BY <1>2, <1>3
  <2> QED BY <1>2, <2>1, LowerIs DEF BelowTop, n
<1> QED BY <1>4, <1>5, <1>7, <1>8 DEF n, z, b

(* A whole message, byte by byte. *)
LEMMA WholeIs ==
  ASSUME NEW q \in Seq(Byte), tagSize \in Nat, NEW e \in Ends(q)
  PROVE  /\ e \in 1 .. Len(q)
         /\ IsWhole(SubSeq(q, 1, e)) <=> WholeAt(q, e)
         /\ WholeAt(q, e) => Len(BelowTop(SubSeq(q, 1, e))) = Below(q, e)
<1> DEFINE r == SubSeq(q, 1, e)
           z == q[e].n
           i == q[e].of
           b == Below(q, e)
<1>1. e \in 1 .. Len(q) /\ q[e].part = "length" /\ Len(q) \in Nat
  BY LenProperties DEF Ends
<1>2. r \in Seq(Byte) /\ Len(r) = e /\ \A j \in 1 .. e : r[j] = q[j]
  BY <1>1, PrefixIs
<1>3. z \in Nat /\ i \in Nat
  <2>1. q[e] \in Byte
    BY <1>1, ElementOfSeq
  <2> QED BY <2>1 DEF Byte
<1>4. r[Len(r)] = q[e] /\ TopSize(r) = z /\ r # <<>> /\ e \in Nat
  BY <1>1, <1>2, EmptySeq DEF TopSize
<1>5. b = e - (1 + tagSize + z) /\ Below(r, Len(r)) = b
  BY <1>2, <1>4 DEF Below
<1>6. Unreadable(r) <=> b \notin Nat
  BY <1>1, <1>2, <1>3, <1>4, <1>5 DEF Unreadable
<1>7. MessageAt(r, Len(r)) = [id |-> i, size |-> z, tagSize |-> tagSize]
  BY <1>4 DEF MessageAt
<1> HIDE DEF r, z, i, b
<1>8. CASE b \in Nat
  <2>1. /\ TopTag(r) \in Seq(Byte) /\ Len(TopTag(r)) = tagSize
        /\ \A j \in 1 .. tagSize : TopTag(r)[j] = r[b + z + j]
        /\ TopPayload(r) \in Seq(Byte) /\ Len(TopPayload(r)) = z
        /\ \A j \in 1 .. z : TopPayload(r)[j] = r[b + j]
        /\ Len(BelowTop(r)) = b
    <3>1. r[Len(r)].n = z /\ Below(r, Len(r)) = b
      BY <1>4, <1>5 DEF z
    <3>2. r[Len(r)].n \in Nat /\ Below(r, Len(r)) \in Nat /\ r \in Seq(Byte) /\ r # <<>>
      BY <1>2, <1>3, <1>4, <1>8, <3>1
    <3>3. /\ TopTag(r) \in Seq(Byte) /\ Len(TopTag(r)) = tagSize
          /\ \A j \in 1 .. tagSize : TopTag(r)[j] = r[Below(r, Len(r)) + r[Len(r)].n + j]
          /\ TopPayload(r) \in Seq(Byte) /\ Len(TopPayload(r)) = r[Len(r)].n
          /\ \A j \in 1 .. r[Len(r)].n : TopPayload(r)[j] = r[Below(r, Len(r)) + j]
          /\ Len(BelowTop(r)) = Below(r, Len(r))
      BY <3>2, TopBytes
    <3> QED BY <3>1, <3>3
  <2>2. (\A j \in 1 .. tagSize : r[b + z + j] = q[b + z + j]) /\ (\A j \in 1 .. z : r[b + j] = q[b + j])
    BY <1>2, <1>3, <1>4, <1>5, <1>8
  <2>3. TopTag(r) = Bytes("tag", i, tagSize)
          <=> \A j \in 1 .. tagSize : q[b + z + j] = [part |-> "tag", of |-> i, n |-> j]
    <3>1. /\ Bytes("tag", i, tagSize) \in Seq(Byte) /\ Len(Bytes("tag", i, tagSize)) = tagSize
          /\ \A j \in 1 .. tagSize : Bytes("tag", i, tagSize)[j] = [part |-> "tag", of |-> i, n |-> j]
      BY <1>3, BytesAre
    <3>2. TopTag(r) = Bytes("tag", i, tagSize) <=> \A j \in 1 .. tagSize : TopTag(r)[j] = Bytes("tag", i, tagSize)[j]
      BY <2>1, <3>1, SeqEqual
    <3>3. \A j \in 1 .. tagSize : /\ TopTag(r)[j] = q[b + z + j]
                                 /\ Bytes("tag", i, tagSize)[j] = [part |-> "tag", of |-> i, n |-> j]
      BY <2>1, <2>2, <3>1
    <3> QED BY <3>2, <3>3, Zenon
  <2>4. TopPayload(r) = Bytes("payload", i, z)
          <=> \A j \in 1 .. z : q[b + j] = [part |-> "payload", of |-> i, n |-> j]
    <3>1. /\ Bytes("payload", i, z) \in Seq(Byte) /\ Len(Bytes("payload", i, z)) = z
          /\ \A j \in 1 .. z : Bytes("payload", i, z)[j] = [part |-> "payload", of |-> i, n |-> j]
      BY <1>3, BytesAre
    <3>2. TopPayload(r) = Bytes("payload", i, z) <=> \A j \in 1 .. z : TopPayload(r)[j] = Bytes("payload", i, z)[j]
      BY <2>1, <3>1, SeqEqual
    <3>3. \A j \in 1 .. z : /\ TopPayload(r)[j] = q[b + j]
                           /\ Bytes("payload", i, z)[j] = [part |-> "payload", of |-> i, n |-> j]
      BY <2>1, <2>2, <3>1
    <3> QED BY <3>2, <3>3, Zenon
  <2>5. IsWhole(r) <=> TopPayload(r) = Bytes("payload", i, z) /\ TopTag(r) = Bytes("tag", i, tagSize)
    BY <1>4, <1>6, <1>7, <1>8 DEF IsWhole, Intact
  <2>6. IsWhole(r) <=> WholeAt(q, e)
    BY <1>3, <1>8, <2>3, <2>4, <2>5 DEF WholeAt, z, i, b
  <2> QED BY <1>1, <2>1, <2>6 DEF r, b
<1>9. CASE b \notin Nat
  BY <1>1, <1>6, <1>9 DEF IsWhole, WholeAt, r, b
<1> QED BY <1>8, <1>9

LEMMA StackedIs ==
  ASSUME NEW q \in Seq(Byte), tagSize \in Nat
  PROVE  StackOfMessages(q) <=> Stacked(q)
BY WholeIs DEF StackOfMessages, Stacked

LEMMA ConcatenationOf ==
  ASSUME NEW a \in Seq(Byte), NEW b \in Seq(Byte), NEW m, NEW l, Len(a) = m, Len(b) = l
  PROVE  /\ a \o b \in Seq(Byte) /\ Len(a \o b) = m + l
         /\ \A i \in 1 .. m + l : (a \o b)[i] = IF i <= m THEN a[i] ELSE b[i - m]
BY ConcatProperties, Zenon

(* A message pushed on a stack. *)
Pushed(q, id, size) ==
  q \o Bytes("payload", id, size) \o Bytes("tag", id, tagSize) \o Length(id, size)

LEMMA PushedBytes ==
  ASSUME NEW q \in Seq(Byte), tagSize \in Nat, NEW id \in Nat, NEW size \in Nat
  PROVE  /\ Pushed(q, id, size) \in Seq(Byte)
         /\ Len(q) \in Nat /\ Len(Pushed(q, id, size)) = Len(q) + size + tagSize + 1
         /\ \A i \in 1 .. Len(q) : Pushed(q, id, size)[i] = q[i]
         /\ \A j \in 1 .. size :
              Pushed(q, id, size)[Len(q) + j] = [part |-> "payload", of |-> id, n |-> j]
         /\ \A j \in 1 .. tagSize :
              Pushed(q, id, size)[Len(q) + size + j] = [part |-> "tag", of |-> id, n |-> j]
         /\ Pushed(q, id, size)[Len(q) + size + tagSize + 1] = [part |-> "length", of |-> id, n |-> size]
<1> DEFINE a == Bytes("payload", id, size)
           b == Bytes("tag", id, tagSize)
           c == Length(id, size)
           n == Len(q)
           qa == q \o a
           qb == qa \o b
           w == qb \o c
<1>1. /\ a \in Seq(Byte) /\ Len(a) = size
      /\ \A j \in 1 .. size : a[j] = [part |-> "payload", of |-> id, n |-> j]
  BY BytesAre
<1>2. /\ b \in Seq(Byte) /\ Len(b) = tagSize
      /\ \A j \in 1 .. tagSize : b[j] = [part |-> "tag", of |-> id, n |-> j]
  BY BytesAre
<1>3. c \in Seq(Byte) /\ Len(c) = 1 /\ c[1] = [part |-> "length", of |-> id, n |-> size]
  BY LengthIs
<1>4. n \in Nat
  BY LenProperties
<1>5. w = Pushed(q, id, size)
  BY DEF Pushed
<1> HIDE DEF a, b, c
<1>6. /\ qa \in Seq(Byte) /\ Len(qa) = n + size
      /\ \A i \in 1 .. n + size : qa[i] = IF i <= n THEN q[i] ELSE a[i - n]
  BY <1>1, ConcatProperties
<1> HIDE DEF qa
<1>7. /\ qb \in Seq(Byte) /\ Len(qb) = n + size + tagSize
      /\ \A i \in 1 .. n + size + tagSize : qb[i] = IF i <= n + size THEN qa[i] ELSE b[i - (n + size)]
  <2> DEFINE m == n + size
  <2>1. qa \in Seq(Byte) /\ Len(qa) = m
    BY <1>6
  <2> HIDE DEF m
  <2>2. /\ qa \o b \in Seq(Byte) /\ Len(qa \o b) = m + tagSize
        /\ \A i \in 1 .. m + tagSize : (qa \o b)[i] = IF i <= m THEN qa[i] ELSE b[i - m]
    BY <1>2, <2>1, ConcatenationOf
  <2> QED BY <2>2, Zenon DEF m, qb
<1> HIDE DEF qb
<1>8. /\ w \in Seq(Byte) /\ Len(w) = n + size + tagSize + 1
      /\ \A i \in 1 .. n + size + tagSize + 1 :
           w[i] = IF i <= n + size + tagSize THEN qb[i] ELSE c[i - (n + size + tagSize)]
  <2> DEFINE m == n + size + tagSize
             l == 1
  <2>1. qb \in Seq(Byte) /\ Len(qb) = m /\ c \in Seq(Byte) /\ Len(c) = l
    BY <1>3, <1>7
  <2> HIDE DEF m, l
  <2>2. /\ qb \o c \in Seq(Byte) /\ Len(qb \o c) = m + l
        /\ \A i \in 1 .. m + l : (qb \o c)[i] = IF i <= m THEN qb[i] ELSE c[i - m]
    BY <2>1, ConcatenationOf
  <2> QED BY <2>2, Zenon DEF m, l, w
<1> HIDE DEF w
<1>9. \A i \in 1 .. n : w[i] = q[i]
  <2> SUFFICES ASSUME NEW i \in 1 .. n
               PROVE  w[i] = q[i]
    OBVIOUS
  <2>1. /\ i <= n + size + tagSize /\ i \in 1 .. n + size + tagSize + 1
        /\ i <= n + size /\ i \in 1 .. n + size + tagSize
        /\ i <= n /\ i \in 1 .. n + size
    BY <1>4
  <2> QED BY <1>6, <1>7, <1>8, <2>1, Zenon
<1>10. ASSUME NEW j \in 1 .. size
       PROVE  w[n + j] = [part |-> "payload", of |-> id, n |-> j]
  <2> DEFINE i == n + j
  <2>1. /\ i <= n + size + tagSize /\ i \in 1 .. n + size + tagSize + 1
        /\ i <= n + size /\ i \in 1 .. n + size + tagSize
        /\ ~ (i <= n) /\ i \in 1 .. n + size /\ i - n = j
    BY <1>4
  <2> HIDE DEF i
  <2>2. w[i] = a[j]
    BY <1>6, <1>7, <1>8, <2>1, Zenon
  <2> QED BY <1>1, <2>2 DEF i
<1>11. ASSUME NEW j \in 1 .. tagSize
       PROVE  w[n + size + j] = [part |-> "tag", of |-> id, n |-> j]
  <2> DEFINE i == n + size + j
  <2>1. /\ i <= n + size + tagSize /\ i \in 1 .. n + size + tagSize + 1
        /\ ~ (i <= n + size) /\ i \in 1 .. n + size + tagSize /\ i - (n + size) = j
    BY <1>4
  <2> HIDE DEF i
  <2>2. w[i] = b[j]
    BY <1>7, <1>8, <2>1, Zenon
  <2> QED BY <1>2, <2>2 DEF i
<1>12. w[n + size + tagSize + 1] = [part |-> "length", of |-> id, n |-> size]
  <2> DEFINE i == n + size + tagSize + 1
  <2>1. i \in 1 .. i /\ ~ (i <= n + size + tagSize) /\ i - (n + size + tagSize) = 1
    BY <1>4
  <2>2. w[i] = c[1]
    BY <1>8, <2>1, Zenon
  <2> QED BY <1>3, <2>2
<1> QED BY <1>4, <1>5, <1>8, <1>9, <1>10, <1>11, <1>12

(* Where a message ends in the longer stack, and that the others are as
   they were. *)
LEMMA SameBelow ==
  ASSUME NEW q \in Seq(Byte), NEW w \in Seq(Byte), tagSize \in Nat, NEW e \in 1 .. Len(q),
         \A i \in 1 .. e : w[i] = q[i]
  PROVE  /\ w[e] = q[e] /\ Below(w, e) = Below(q, e) /\ MessageAt(w, e) = MessageAt(q, e)
         /\ WholeAt(q, e) => WholeAt(w, e)
<1>1. Len(q) \in Nat /\ e \in Nat /\ e >= 1
  BY LenProperties
<1>2. w[e] = q[e]
  BY <1>1
<1>3. Below(w, e) = Below(q, e) /\ MessageAt(w, e) = MessageAt(q, e)
  BY <1>2 DEF Below, MessageAt
<1>4. ASSUME WholeAt(q, e)
      PROVE  WholeAt(w, e)
  <2> DEFINE z == q[e].n
             b == Below(q, e)
  <2>1. z \in Nat /\ b \in Nat /\ b = e - (1 + tagSize + z)
    BY <1>4 DEF WholeAt, Below
  <2> HIDE DEF z, b
  <2>2. (\A j \in 1 .. z : b + j \in 1 .. e) /\ (\A j \in 1 .. tagSize : b + z + j \in 1 .. e)
    BY <1>1, <2>1
  <2>3. (\A j \in 1 .. z : w[b + j] = q[b + j]) /\ (\A j \in 1 .. tagSize : w[b + z + j] = q[b + z + j])
    BY <2>2
  <2> QED BY <1>2, <1>3, <1>4, <2>3 DEF WholeAt, z, b
<1> QED BY <1>2, <1>3, <1>4

LEMMA Push ==
  ASSUME NEW q \in Seq(Byte), tagSize \in Nat, NEW id \in Nat, NEW size \in Nat,
         Stacked(q), \A m \in On(q) : m.id # id
  PROVE  /\ Stacked(Pushed(q, id, size))
         /\ On(Pushed(q, id, size)) = On(q) \cup {[id |-> id, size |-> size, tagSize |-> tagSize]}
<1> DEFINE w == Pushed(q, id, size)
           n == Len(q)
           l == n + size + tagSize + 1
<1>1. /\ w \in Seq(Byte) /\ n \in Nat /\ Len(w) = l
      /\ \A i \in 1 .. n : w[i] = q[i]
      /\ \A j \in 1 .. size : w[n + j] = [part |-> "payload", of |-> id, n |-> j]
      /\ \A j \in 1 .. tagSize : w[n + size + j] = [part |-> "tag", of |-> id, n |-> j]
      /\ w[l] = [part |-> "length", of |-> id, n |-> size]
  BY PushedBytes
<1> HIDE DEF w
<1>2. DOMAIN q = 1 .. n /\ DOMAIN w = 1 .. l
  BY <1>1, LenProperties
<1>3. \A e \in Ends(q) : e \in 1 .. n /\ q[e].of # id
  <2> SUFFICES ASSUME NEW e \in Ends(q)
               PROVE  e \in 1 .. n /\ q[e].of # id
    OBVIOUS
  <2>1. e \in 1 .. n
    BY <1>2 DEF Ends
  <2>2. MessageAt(q, e) \in On(q) /\ MessageAt(q, e).id = q[e].of
    BY DEF On, MessageAt
  <2> QED BY <2>1, <2>2
<1>4. Ends(w) = Ends(q) \cup {l}
  <2>1. \A e \in 1 .. n : e \in 1 .. l /\ w[e] = q[e]
    BY <1>1
  <2>2. ASSUME NEW e \in 1 .. l, e \notin 1 .. n, e # l
        PROVE  w[e].part # "length"
    <3>1. CASE e <= n + size
      <4>1. e - n \in 1 .. size /\ n + (e - n) = e
        BY <1>1, <2>2, <3>1
      <4>2. w[e] = [part |-> "payload", of |-> id, n |-> e - n]
        BY <1>1, <4>1
      <4> QED BY <4>2
    <3>2. CASE ~ (e <= n + size)
      <4>1. e - n - size \in 1 .. tagSize /\ n + size + (e - n - size) = e
        BY <1>1, <2>2, <3>2
      <4>2. w[e] = [part |-> "tag", of |-> id, n |-> e - n - size]
        BY <1>1, <4>1
      <4> QED BY <4>2
    <3> QED BY <3>1, <3>2
  <2>3. l \in 1 .. l
    BY <1>1
  <2> HIDE DEF n, l
  <2> QED BY <1>1, <1>2, <2>1, <2>2, <2>3 DEF Ends
<1>5. \A e \in Ends(q) : /\ w[e] = q[e] /\ Below(w, e) = Below(q, e) /\ MessageAt(w, e) = MessageAt(q, e)
                         /\ WholeAt(w, e)
  <2> SUFFICES ASSUME NEW e \in Ends(q)
               PROVE  /\ w[e] = q[e] /\ Below(w, e) = Below(q, e) /\ MessageAt(w, e) = MessageAt(q, e)
                      /\ WholeAt(w, e)
    OBVIOUS
  <2>1. e \in 1 .. n /\ WholeAt(q, e)
    BY <1>3 DEF Stacked
  <2>2. \A i \in 1 .. e : w[i] = q[i]
    BY <1>1, <2>1
  <2> HIDE DEF l
  <2> QED BY <1>1, <2>1, <2>2, SameBelow
<1>6. w[l].n = size /\ w[l].of = id /\ Below(w, l) = n
  BY <1>1 DEF Below
<1>7. WholeAt(w, l)
  BY <1>1, <1>6 DEF WholeAt
<1>8. Len(q) \in Ends(q) \cup {0}
  BY DEF Stacked
<1> HIDE DEF l, n
<1>9. Stacked(w)
  <2>1. Len(w) \in Ends(w) \cup {0}
    BY <1>1, <1>4
  <2>2. \A e \in Ends(w) : WholeAt(w, e) /\ Below(w, e) \in Ends(w) \cup {0}
    BY <1>4, <1>5, <1>6, <1>7, <1>8 DEF Stacked, n
  <2>3. \A d, e \in Ends(w) : w[d].of = w[e].of => d = e
    BY <1>3, <1>4, <1>5, <1>6 DEF Stacked
  <2> QED BY <2>1, <2>2, <2>3 DEF Stacked
<1>10. MessageAt(w, l) = [id |-> id, size |-> size, tagSize |-> tagSize]
  BY <1>6 DEF MessageAt
<1>11. On(w) = On(q) \cup {[id |-> id, size |-> size, tagSize |-> tagSize]}
  BY <1>4, <1>5, <1>10 DEF On
<1> QED BY <1>9, <1>11 DEF w

(* The message on top taken off. *)
LEMMA PopOff ==
  ASSUME NEW q \in Seq(Byte), tagSize \in Nat, Stacked(q), q # <<>>
  PROVE  /\ ~ Unreadable(q) /\ Len(q) \in Ends(q) /\ q[Len(q)].of \in Nat /\ q[Len(q)].n \in Nat
         /\ MessageAt(q, Len(q)) \in On(q)
         /\ TopPayload(q) = Bytes("payload", q[Len(q)].of, q[Len(q)].n)
         /\ TopTag(q) = Bytes("tag", q[Len(q)].of, tagSize)
         /\ Upper(q, 1) = Length(q[Len(q)].of, q[Len(q)].n)
         /\ BelowTop(q) \in Seq(Byte) /\ Stacked(BelowTop(q))
         /\ On(BelowTop(q)) = {m \in On(q) : m.id # q[Len(q)].of}
         /\ On(q) = On(BelowTop(q)) \cup {MessageAt(q, Len(q))}
<1> DEFINE n == Len(q)
           r == BelowTop(q)
           b == Below(q, n)
<1>1. n \in Nat /\ n > 0 /\ DOMAIN q = 1 .. n
  BY EmptySeq, LenProperties
<1>2. n \in Ends(q) /\ q[n].part = "length" /\ WholeAt(q, n) /\ b \in Ends(q) \cup {0}
  BY <1>1 DEF Stacked, Ends
<1>3. SubSeq(q, 1, n) = q
  BY SubSeqFull
<1>4. IsWhole(q)
  <2>1. IsWhole(SubSeq(q, 1, n))
    BY <1>2, WholeIs
  <2> QED BY <1>3, <2>1
<1>5. q[n] \in Byte
  BY <1>1, ElementOfSeq
<1>6. q[n].of \in Nat /\ q[n].n \in Nat /\ q[n] = [part |-> "length", of |-> q[n].of, n |-> q[n].n]
  BY <1>2, <1>5 DEF Byte
<1>7. /\ ~ Unreadable(q)
      /\ TopPayload(q) = Bytes("payload", q[n].of, q[n].n) /\ TopTag(q) = Bytes("tag", q[n].of, tagSize)
  BY <1>4 DEF IsWhole, Intact, MessageAt
<1>8. Upper(q, 1) = Length(q[n].of, q[n].n)
  <2>1. Upper(q, 1) \in Seq(Byte) /\ Len(Upper(q, 1)) = 1 /\ Upper(q, 1)[1] = q[n - 1 + 1]
    <3>1. 1 \in Nat /\ 1 <= Len(q) /\ 1 \in 1 .. 1
      BY <1>1
    <3>2. \A j \in 1 .. 1 : Upper(q, 1)[j] = q[Len(q) - 1 + j]
      BY <3>1, UpperIs, Zenon
    <3> QED BY <3>1, <3>2, UpperIs, Zenon
  <2>2. /\ Length(q[n].of, q[n].n) \in Seq(Byte) /\ Len(Length(q[n].of, q[n].n)) = 1
        /\ Length(q[n].of, q[n].n)[1] = q[n]
    BY <1>6, LengthIs
  <2>3. n - 1 + 1 = n
    BY <1>1
  <2> HIDE DEF n
  <2> QED BY <2>1, <2>2, <2>3, SeqEqual
<1>9. b \in Nat /\ b < n /\ b = n - (1 + tagSize + q[n].n)
  BY <1>1, <1>2, <1>6 DEF WholeAt, Below
<1>10. r \in Seq(Byte) /\ Len(r) = b /\ \A j \in 1 .. b : r[j] = q[j]
  BY <1>6, <1>9, TopBytes
<1>11. DOMAIN r = 1 .. b
  BY <1>10, LenProperties
<1> HIDE DEF r, b
<1>12. Ends(q) = Ends(r) \cup {n}
  <2>1. \A e \in 1 .. b : e \in 1 .. n /\ r[e] = q[e]
    BY <1>1, <1>9, <1>10
  <2>2. ASSUME NEW e \in 1 .. n, e \notin 1 .. b, e # n
        PROVE  q[e].part # "length"
    <3> DEFINE z == q[n].n
    <3>0. /\ \A j \in 1 .. z : q[b + j] = [part |-> "payload", of |-> q[n].of, n |-> j]
          /\ \A j \in 1 .. tagSize : q[b + z + j] = [part |-> "tag", of |-> q[n].of, n |-> j]
          /\ z \in Nat /\ n = b + 1 + tagSize + z
      BY <1>1, <1>2, <1>6, <1>9 DEF WholeAt, b
    <3> HIDE DEF z
    <3>1. CASE e <= b + z
      <4>1. e - b \in 1 .. z /\ b + (e - b) = e
        BY <1>9, <2>2, <3>0, <3>1
      <4>2. q[e] = [part |-> "payload", of |-> q[n].of, n |-> e - b]
        BY <3>0, <4>1
      <4> QED BY <4>2
    <3>2. CASE ~ (e <= b + z)
      <4>1. e - b - z \in 1 .. tagSize /\ b + z + (e - b - z) = e
        <5>1. e \in Nat /\ b \in Nat /\ z \in Nat /\ e <= n /\ e # n /\ n = b + 1 + tagSize + z /\ e > b + z
          BY <1>1, <1>9, <2>2, <3>0, <3>2
        <5> HIDE DEF n
        <5> QED BY <5>1
      <4>2. q[e] = [part |-> "tag", of |-> q[n].of, n |-> e - b - z]
        BY <3>0, <4>1
      <4> QED BY <4>2
    <3> QED BY <3>1, <3>2
  <2> HIDE DEF n
  <2> QED BY <1>1, <1>2, <1>11, <2>1, <2>2 DEF Ends
<1>13. \A e \in Ends(r) : /\ e \in 1 .. b /\ e \in 1 .. n /\ e # n /\ e \in Ends(q)
                          /\ r[e] = q[e] /\ Below(r, e) = Below(q, e)
                          /\ MessageAt(r, e) = MessageAt(q, e) /\ WholeAt(r, e)
  <2> SUFFICES ASSUME NEW e \in Ends(r)
               PROVE  /\ e \in 1 .. b /\ e \in 1 .. n /\ e # n /\ e \in Ends(q)
                      /\ r[e] = q[e] /\ Below(r, e) = Below(q, e)
                      /\ MessageAt(r, e) = MessageAt(q, e) /\ WholeAt(r, e)
    OBVIOUS
  <2>1. e \in 1 .. b /\ e \in 1 .. n /\ e # n /\ e \in Ends(q)
    BY <1>1, <1>9, <1>11, <1>12 DEF Ends
  <2>2. WholeAt(q, e)
    BY <2>1 DEF Stacked
  <2>3. \A i \in 1 .. e : r[i] = q[i]
    BY <1>9, <1>10, <2>1
  <2> QED BY <1>10, <2>1, <2>2, <2>3, SameBelow
<1> HIDE DEF n
<1>14. Stacked(r)
  <2>1. \A e \in Ends(r) : Below(r, e) \in Ends(r) \cup {0}
    <3> SUFFICES ASSUME NEW e \in Ends(r)
                 PROVE  Below(q, e) \in Ends(r) \cup {0}
      BY <1>13
    <3>1. Below(q, e) \in Ends(q) \cup {0} /\ WholeAt(q, e)
      BY <1>13 DEF Stacked
    <3>2. Below(q, e) # n
      <4>1. e \in 1 .. b /\ b < n /\ b \in Nat /\ n \in Nat
        BY <1>1, <1>9, <1>13
      <4>2. q[e].n \in Nat /\ Below(q, e) = e - (1 + tagSize + q[e].n)
        BY <3>1 DEF WholeAt, Below
      <4> QED BY <4>1, <4>2
    <3> QED BY <1>12, <3>1, <3>2
  <2>2. Len(r) \in Ends(r) \cup {0}
    BY <1>2, <1>9, <1>10, <1>12
  <2>3. \A d, e \in Ends(r) : r[d].of = r[e].of => d = e
    BY <1>13 DEF Stacked
  <2> QED BY <1>13, <2>1, <2>2, <2>3 DEF Stacked
<1>15. On(q) = On(r) \cup {MessageAt(q, n)}
  BY <1>12, <1>13 DEF On
<1>16. \A m \in On(r) : m.id # q[n].of
  <2> SUFFICES ASSUME NEW e \in Ends(r)
               PROVE  MessageAt(r, e).id # q[n].of
    BY DEF On
  <2>1. MessageAt(r, e).id = q[e].of
    BY <1>13 DEF MessageAt
  <2>2. e # n /\ e \in Ends(q) /\ n \in Ends(q)
    BY <1>2, <1>13
  <2> QED BY <2>1, <2>2 DEF Stacked
<1>17. MessageAt(q, n).id = q[n].of
  BY DEF MessageAt
<1>18. On(r) = {m \in On(q) : m.id # q[n].of}
  BY <1>15, <1>16, <1>17
<1> QED BY <1>2, <1>6, <1>7, <1>8, <1>10, <1>14, <1>15, <1>18 DEF n, r

----
(* What bsp_qsize finds on a stack. *)
FoundUpTo(q, f, i) ==
  LET r == SubSeq(q, 1, i)
  IN IF i = 0 THEN <<>>
     ELSE IF Unreadable(r) THEN <<"unreadable">>
     ELSE Append(f[Len(BelowTop(r))], <<TopPayload(r), TopTag(r), TopSize(r)>>)

Finds(q, n, f) == f = [i \in 0 .. n |-> FoundUpTo(q, f, i)]

LEMMA FoundBelow ==
  ASSUME NEW q \in Seq(Byte), tagSize \in Nat, NEW i \in 1 .. Len(q), ~ Unreadable(SubSeq(q, 1, i))
  PROVE  Len(BelowTop(SubSeq(q, 1, i))) \in 0 .. i - 1
<1> DEFINE r == SubSeq(q, 1, i)
<1>1. i \in Nat /\ i > 0 /\ r \in Seq(Byte) /\ Len(r) = i /\ Len(q) \in Nat
  BY PrefixIs, LenProperties
<1>2. r # <<>>
  BY <1>1, EmptySeq
<1> HIDE DEF r
<1>3. /\ TopSize(r) \in Nat /\ 1 + tagSize + TopSize(r) <= Len(r)
      /\ Len(BelowTop(r)) = Len(r) - (1 + tagSize + TopSize(r))
  BY <1>1, <1>2, TopIs DEF r
<1>4. Len(BelowTop(r)) \in 0 .. i - 1
  BY <1>1, <1>3
<1> QED BY <1>4 DEF r

(* The loop ends, whatever is on the stack. *)
LEMMA LoopEnds ==
  ASSUME NEW q \in Seq(Byte), tagSize \in Nat, NEW n \in 0 .. Len(q)
  PROVE  \E f : Finds(q, n, f)
<1> DEFINE T == {i \in 0 .. Len(q) : ~ \E f : Finds(q, i, f)}
<1>0. Len(q) \in Nat
  BY LenProperties
<1>1. CASE T = {}
  BY <1>1
<1>2. CASE T # {}
  <2>1. T \subseteq Nat
    BY <1>0
  <2>2. PICK i \in T : \A m \in T : ~ (m < i)
    BY <1>2, <2>1, LeastNumber
  <2>3. i \in Nat /\ i \in 0 .. Len(q) /\ ~ \E f : Finds(q, i, f)
    BY <1>0
  <2>4. CASE i = 0
    <3> DEFINE f == [j \in 0 .. 0 |-> <<>>]
    <3>1. \A j \in 0 .. 0 : FoundUpTo(q, f, j) = <<>>
      BY DEF FoundUpTo
    <3>2. Finds(q, 0, f)
      BY <3>1 DEF Finds
    <3> QED BY <2>3, <2>4, <3>2
  <2>5. CASE i # 0
    <3>1. i - 1 \in 0 .. Len(q) /\ i - 1 < i /\ i - 1 \notin T
      BY <1>0, <2>2, <2>3, <2>5
    <3>2. PICK f : Finds(q, i - 1, f)
      BY <3>1
    <3> DEFINE g == [j \in 0 .. i |-> FoundUpTo(q, f, j)]
    <3>3. f = [j \in 0 .. i - 1 |-> FoundUpTo(q, f, j)]
      BY <3>2 DEF Finds
    <3>4. \A j \in 0 .. i - 1 : g[j] = f[j]
      <4>1. \A j \in 0 .. i - 1 : j \in 0 .. i
        BY <2>3
      <4>2. \A j \in 0 .. i - 1 : f[j] = FoundUpTo(q, f, j)
        BY <3>3, Zenon
      <4> QED BY <4>1, <4>2
    <3> HIDE DEF g
    <3>5. ASSUME NEW j \in 0 .. i
          PROVE  FoundUpTo(q, g, j) = FoundUpTo(q, f, j)
      <4>1. CASE j = 0 \/ Unreadable(SubSeq(q, 1, j))
        BY <4>1 DEF FoundUpTo
      <4>2. CASE j # 0 /\ ~ Unreadable(SubSeq(q, 1, j))
        <5> DEFINE b == Len(BelowTop(SubSeq(q, 1, j)))
        <5>1. j \in 1 .. Len(q)
          BY <1>0, <2>3, <4>2
        <5>2. b \in 0 .. j - 1
          BY <4>2, <5>1, FoundBelow
        <5> HIDE DEF b
        <5>3. b \in 0 .. i - 1
          BY <1>0, <2>3, <5>1, <5>2
        <5>4. g[b] = f[b]
          BY <3>4, <5>3
        <5> QED BY <5>4 DEF FoundUpTo, b
      <4> QED BY <4>1, <4>2
    <3>6. g = [j \in 0 .. i |-> FoundUpTo(q, g, j)]
      BY <3>5 DEF g
    <3> QED BY <2>3, <3>6 DEF Finds
  <2> QED BY <2>4, <2>5
<1> QED BY <1>1, <1>2

LEMMA ContentIs ==
  ASSUME NEW q \in Seq(Byte), tagSize \in Nat
  PROVE  \E f : Finds(q, Len(q), f) /\ Content(q) = f[Len(q)]
<1> DEFINE f == CHOOSE f : f = [i \in 0 .. Len(q) |-> FoundUpTo(q, f, i)]
<1>1. Len(q) \in 0 .. Len(q)
  <2>1. Len(q) \in Nat
    BY LenProperties
  <2> QED BY <2>1
<1>2. \E g : g = [i \in 0 .. Len(q) |-> FoundUpTo(q, g, i)]
  BY <1>1, LoopEnds DEF Finds
<1>3. f = [i \in 0 .. Len(q) |-> FoundUpTo(q, f, i)]
  BY <1>2, Zenon
<1>4. Content(q) = f[Len(q)]
  BY Zenon DEF Content, FoundUpTo
<1> HIDE DEF f
<1> QED BY <1>3, <1>4 DEF Finds

(* The messages up to a place of the stack, and how many there are. *)
OnUpTo(q, e) == {MessageAt(q, d) : d \in {d \in Ends(q) : d <= e}}

RightlyFound(q, f, e) ==
  /\ f[e] \in Seq({Intact(m) : m \in On(q)})
  /\ {f[e][j] : j \in 1 .. Len(f[e])} = {Intact(m) : m \in OnUpTo(q, e)}
  /\ IsFiniteSet(OnUpTo(q, e)) /\ Len(f[e]) = Cardinality(OnUpTo(q, e))

LEMMA FoundIs ==
  ASSUME NEW q \in Seq(Byte), tagSize \in Nat, Stacked(q), NEW f, Finds(q, Len(q), f)
  PROVE  \A e \in Ends(q) \cup {0} : RightlyFound(q, f, e)
<1> DEFINE S == {Intact(m) : m \in On(q)}
           Right(i) == /\ f[i] \in Seq(S)
                       /\ {f[i][j] : j \in 1 .. Len(f[i])} = {Intact(m) : m \in OnUpTo(q, i)}
                       /\ IsFiniteSet(OnUpTo(q, i)) /\ Len(f[i]) = Cardinality(OnUpTo(q, i))
           T == {i \in Ends(q) \cup {0} : ~ Right(i)}
<1>0. Len(q) \in Nat /\ \A i \in Ends(q) : i \in 1 .. Len(q)
  BY LenProperties DEF Ends
<1>1. \A i \in 0 .. Len(q) : f[i] = FoundUpTo(q, f, i)
  BY Zenon DEF Finds
<1>2. CASE T = {}
  BY <1>2 DEF RightlyFound
<1>3. CASE T # {}
  <2>1. T \subseteq Nat
    BY <1>0
  <2>2. PICK i \in T : \A m \in T : ~ (m < i)
    BY <1>3, <2>1, LeastNumber
  <2>3. i \in Ends(q) \cup {0} /\ ~ Right(i) /\ i \in 0 .. Len(q)
    <3>1. i \in Ends(q) \cup {0} /\ ~ Right(i)
      BY <2>2
    <3>2. i \in 0 .. Len(q)
      BY <1>0, <3>1
    <3> QED BY <3>1, <3>2
  <2>4. ASSUME i = 0
        PROVE  Right(0)
    <3>1. OnUpTo(q, 0) = {}
      BY <1>0 DEF OnUpTo
    <3>2. f[0] = <<>>
      BY <1>1, <2>3, <2>4 DEF FoundUpTo
    <3>3. <<>> \in Seq(S) /\ Len(<<>>) = 0 /\ {<<>>[j] : j \in 1 .. 0} = {}
      BY EmptySeq
    <3>4. IsFiniteSet({}) /\ Cardinality({}) = 0
      BY FS_EmptySet
    <3> HIDE DEF S
    <3> QED BY <3>1, <3>2, <3>3, <3>4
  <2>5. ASSUME i # 0
        PROVE  Right(i)
    <3> DEFINE b == Below(q, i)
               x == Intact(MessageAt(q, i))
    <3>1. i \in Ends(q) /\ i \in 1 .. Len(q) /\ WholeAt(q, i) /\ b \in Ends(q) \cup {0}
      BY <1>0, <2>3, <2>5 DEF Stacked
    <3>2. b \in Nat /\ b < i
      BY <3>1 DEF WholeAt, Below
    <3>3. Right(b)
      BY <2>2, <3>1, <3>2
    <3>4. f[i] = Append(f[b], x)
      <4> DEFINE r == SubSeq(q, 1, i)
      <4>1. IsWhole(r) /\ Len(BelowTop(r)) = b
        BY <3>1, WholeIs
      <4>2. r \in Seq(Byte) /\ Len(r) = i /\ r[i] = q[i]
        BY <3>1, PrefixIs
      <4>3. MessageAt(r, Len(r)) = MessageAt(q, i)
        BY <4>2 DEF MessageAt
      <4> HIDE DEF r, b
      <4>4. ~ Unreadable(r) /\ <<TopPayload(r), TopTag(r), TopSize(r)>> = x
        BY <4>1, <4>3 DEF IsWhole
      <4>5. f[i] = Append(f[Len(BelowTop(r))], <<TopPayload(r), TopTag(r), TopSize(r)>>)
        BY <1>1, <2>3, <2>5, <4>4 DEF FoundUpTo, r
      <4> QED BY <4>1, <4>4, <4>5
    <3>5. OnUpTo(q, i) = OnUpTo(q, b) \cup {MessageAt(q, i)}
      <4>1. ASSUME NEW d \in Ends(q), d <= i, d # i
            PROVE  d <= b
        <5>1. d \in Nat /\ d > 0 /\ i \in Nat /\ d < i /\ q[d].part = "length"
          BY <1>0, <3>1, <4>1 DEF Ends
        <5> DEFINE z == q[i].n
        <5>2. /\ z \in Nat /\ i = b + 1 + tagSize + z
              /\ \A j \in 1 .. z : q[b + j] = [part |-> "payload", of |-> q[i].of, n |-> j]
              /\ \A j \in 1 .. tagSize : q[b + z + j] = [part |-> "tag", of |-> q[i].of, n |-> j]
          BY <3>1, <3>2, <5>1 DEF WholeAt, Below
        <5> HIDE DEF z, b
        <5>3. CASE d > b /\ d <= b + z
          <6>1. d - b \in 1 .. z /\ b + (d - b) = d
            BY <3>2, <5>1, <5>2, <5>3
          <6>2. q[d] = [part |-> "payload", of |-> q[i].of, n |-> d - b]
            BY <5>2, <6>1
          <6> QED BY <5>1, <6>2
        <5>4. CASE d > b + z
          <6>1. d - b - z \in 1 .. tagSize /\ b + z + (d - b - z) = d
            BY <3>2, <5>1, <5>2, <5>4
          <6>2. q[d] = [part |-> "tag", of |-> q[i].of, n |-> d - b - z]
            BY <5>2, <6>1
          <6> QED BY <5>1, <6>2
        <5> QED BY <3>2, <5>1, <5>2, <5>3, <5>4
      <4>2. \A d \in Ends(q) : d <= i <=> d <= b \/ d = i
        BY <1>0, <3>1, <3>2, <4>1
      <4> HIDE DEF b
      <4> QED BY <3>1, <4>2 DEF OnUpTo
    <3>6. MessageAt(q, i) \notin OnUpTo(q, b)
      <4> SUFFICES ASSUME NEW d \in Ends(q), d <= b, MessageAt(q, d) = MessageAt(q, i)
                   PROVE  FALSE
        BY DEF OnUpTo
      <4>1. q[d].of = q[i].of
        BY DEF MessageAt
      <4>2. d = i
        BY <3>1, <4>1 DEF Stacked
      <4>3. i \in Nat
        BY <1>0, <3>1
      <4> HIDE DEF b
      <4> QED BY <3>2, <4>2, <4>3
    <3>7. x \in S
      BY <3>1 DEF On
    <3> HIDE DEF b, x, S
    <3>8. f[b] \in Seq(S)
      BY <3>3
    <3>9. /\ f[i] \in Seq(S) /\ Len(f[b]) \in Nat /\ Len(f[i]) = Len(f[b]) + 1
          /\ \A j \in 1 .. Len(f[b]) : f[i][j] = f[b][j]
          /\ f[i][Len(f[b]) + 1] = x
      BY <3>4, <3>7, <3>8, AppendProperties, LenProperties
    <3>10. {f[i][j] : j \in 1 .. Len(f[i])} = {f[b][j] : j \in 1 .. Len(f[b])} \cup {x}
      <4>1. 1 .. Len(f[i]) = 1 .. Len(f[b]) \cup {Len(f[b]) + 1}
        BY <3>9
      <4> QED BY <3>9, <4>1
    <3>11. {f[i][j] : j \in 1 .. Len(f[i])} = {Intact(m) : m \in OnUpTo(q, i)}
      BY <3>3, <3>5, <3>10 DEF x
    <3>12. /\ IsFiniteSet(OnUpTo(q, i))
           /\ Cardinality(OnUpTo(q, i)) = Cardinality(OnUpTo(q, b)) + 1
      BY <3>3, <3>5, <3>6, FS_AddElement
    <3> QED BY <3>3, <3>9, <3>11, <3>12
  <2> QED BY <2>3, <2>4, <2>5
<1> QED BY <1>2, <1>3

LEMMA ContentOfStack ==
  ASSUME NEW q \in Seq(Byte), tagSize \in Nat, Stacked(q)
  PROVE  /\ {Content(q)[j] : j \in DOMAIN Content(q)} = {Intact(m) : m \in On(q)}
         /\ Len(Content(q)) = Cardinality(On(q))
<1>1. PICK f : Finds(q, Len(q), f) /\ Content(q) = f[Len(q)]
  BY ContentIs
<1>2. Len(q) \in Ends(q) \cup {0}
  BY DEF Stacked
<1>3. /\ f[Len(q)] \in Seq({Intact(m) : m \in On(q)})
      /\ {f[Len(q)][j] : j \in 1 .. Len(f[Len(q)])} = {Intact(m) : m \in OnUpTo(q, Len(q))}
      /\ Len(f[Len(q)]) = Cardinality(OnUpTo(q, Len(q)))
  <2>1. RightlyFound(q, f, Len(q))
    BY <1>1, <1>2, FoundIs
  <2> QED BY <2>1, Zenon DEF RightlyFound
<1>4. OnUpTo(q, Len(q)) = On(q)
  <2>1. Len(q) \in Nat /\ \A d \in Ends(q) : d <= Len(q)
    BY LenProperties DEF Ends
  <2> QED BY <2>1 DEF OnUpTo, On
<1>5. DOMAIN f[Len(q)] = 1 .. Len(f[Len(q)])
  BY <1>3, LenProperties
<1> QED BY <1>1, <1>3, <1>4, <1>5

----
(* Synchronisations. *)
LEMMA CompletedUniqueNext == Sound' => NoOtherIsCompleted'
BY CompletedUnique, PTL

(* Only the last arrival at the last barrier completes a synchronisation. *)
LEMMA Arrivals ==
  ASSUME Sound, [Next]_vars,
         NEW s \in Procs, Phase(s) \in {"drain", "get", "deliver"}, Arrives(s)
  PROVE  \/ /\ Completed' = Completed
            /\ Phase(s) = "deliver" => \E t \in Procs \ {s} : ~ (entered[t] >= entered'[s])
         \/ /\ Completed' = Completed + 1
            /\ Phase(s) = "deliver"
            /\ \A t \in Procs \ {s} : entered[t] >= entered'[s]
            /\ \A t \in Procs : /\ crossed[t] = 3 * Completed + 2 /\ calls[t] = Completed + 1
                                /\ entered'[t] = 3 * Completed + 3
                                /\ t # s => entered[t] = 3 * Completed + 3
<1> DEFINE c == Completed
<1>1. Sound'
  BY SoundStep
<1>2. /\ c \in Nat /\ c <= MaxSupersteps /\ MaxSupersteps \in Nat
      /\ \A t \in Procs : /\ entered[t] \in Nat /\ crossed[t] \in Nat /\ calls[t] \in Nat
                          /\ 3 * c <= entered[t] /\ entered[t] <= 3 * c + 3 /\ crossed[t] <= 3 * c + 2
                          /\ crossed[t] = entered[t] \/ entered[t] = crossed[t] + 1
                          /\ entered[t] > 3 * c => calls[t] = c + 1
                          /\ calls[t] <= MaxSupersteps
  BY Positions, CompletedExists, ConstantFacts DEF Sound
<1>3. /\ crossed' = crossed /\ calls' = calls
      /\ \A t \in Procs : entered'[t] = IF t = s THEN entered[s] + 1 ELSE entered[t]
  BY TypesOfState DEF Sound, Arrives, Bar!Arrive
<1>4. /\ Phase(s) = "drain" => entered[s] = 3 * c
      /\ Phase(s) = "get" => entered[s] = 3 * c + 1
      /\ Phase(s) = "deliver" => entered[s] = 3 * c + 2
  BY Phases
<1>5. PICK u \in Procs : entered[u] < 3 * (c + 1)
  BY CompletedExists
<1> HIDE DEF c
<1>6. CASE \E t \in Procs : entered'[t] < 3 * (c + 1)
  <2>1. c \in 0 .. MaxSupersteps /\ \A t \in Procs : entered'[t] >= 3 * c
    BY <1>2, <1>3
  <2>2. Completed' = c
    BY <1>1, <1>6, <2>1, CompletedUniqueNext DEF NoOtherIsCompleted
  <2>3. Phase(s) = "deliver" => \E t \in Procs \ {s} : ~ (entered[t] >= entered'[s])
    BY <1>2, <1>3, <1>4, <1>6
  <2> QED BY <2>2, <2>3 DEF c
<1>7. CASE \A t \in Procs : ~ (entered'[t] < 3 * (c + 1))
  <2>1. u = s /\ entered[s] = 3 * c + 2
    BY <1>2, <1>3, <1>5, <1>7
  <2>2. Phase(s) = "deliver"
    BY <1>2, <1>4, <2>1
  <2>3. \A t \in Procs : entered'[t] = 3 * c + 3 /\ (t # s => entered[t] = 3 * c + 3)
    BY <1>2, <1>3, <1>7, <2>1
  <2>4. \A t \in Procs : calls[t] = c + 1 /\ crossed[t] = 3 * c + 2
    <3> SUFFICES ASSUME NEW t \in Procs
                 PROVE  calls[t] = c + 1 /\ crossed[t] = 3 * c + 2
      OBVIOUS
    <3>1. CASE t = s
      <4>1. crossed[s] = entered[s]
        BY <2>2 DEF Phase
      <4> QED BY <1>2, <2>1, <3>1, <4>1
    <3>2. CASE t # s
      BY <1>2, <2>3, <3>2
    <3> QED BY <3>1, <3>2
  <2>5. c + 1 \in 0 .. MaxSupersteps
    BY <1>2, <2>4
  <2>6. (\A t \in Procs : entered'[t] >= 3 * (c + 1)) /\ (\E t \in Procs : entered'[t] < 3 * (c + 1 + 1))
    BY <1>2, <2>3
  <2>7. Completed' = c + 1
    BY <1>1, <2>5, <2>6, CompletedUniqueNext DEF NoOtherIsCompleted
  <2>8. \A t \in Procs \ {s} : entered[t] >= entered'[s]
    BY <1>2, <2>3
  <2> QED BY <2>2, <2>3, <2>4, <2>7, <2>8 DEF c
<1> QED BY <1>6, <1>7

(* The loop over the senders visits every one of them. *)
LEMMA Senders ==
  ASSUME ConstantsOK, NEW s \in Procs
  PROVE  /\ (0 + s) % P = s
         /\ \A j \in 0 .. P-1 : (j + s) % P \in Procs /\ ((j + s) % P = s => j = 0)
         /\ \A u \in Procs : \E j \in 0 .. P-1 : (j + s) % P = u
<1>1. P \in Nat /\ P > 0 /\ s \in Nat /\ s < P
  BY ConstantFacts
<1>2. \A x \in Nat : x < P => x % P = x
  BY <1>1
<1>3. \A x \in Nat : x < P => (x + P) % P = x
  BY <1>1
<1>4. (0 + s) % P = s
  BY <1>1, <1>2
<1>5. ASSUME NEW j \in 0 .. P-1
      PROVE  (j + s) % P \in Procs /\ ((j + s) % P = s => j = 0)
  <2>1. CASE j + s < P
    <3>1. (j + s) % P = j + s
      BY <1>1, <1>2, <2>1
    <3> QED BY <1>1, <2>1, <3>1, ConstantFacts
  <2>2. CASE ~ (j + s < P)
    <3> DEFINE x == j + s - P
    <3>1. x \in Nat /\ x < P /\ x + P = j + s
      BY <1>1, <2>2
    <3>2. (x + P) % P = x
      BY <1>3, <3>1
    <3> HIDE DEF x
    <3>3. (j + s) % P = x
      BY <3>1, <3>2
    <3>4. x # s
      BY <1>1 DEF x
    <3> QED BY <3>1, <3>3, <3>4, ConstantFacts
  <2> QED BY <2>1, <2>2
<1>6. ASSUME NEW u \in Procs
      PROVE  \E j \in 0 .. P-1 : (j + s) % P = u
  <2>1. u \in Nat /\ u < P
    BY ConstantFacts
  <2>2. CASE s <= u
    <3>1. u - s \in 0 .. P-1 /\ (u - s) + s = u
      BY <1>1, <2>1, <2>2
    <3>2. ((u - s) + s) % P = u
      BY <1>2, <2>1, <3>1
    <3> QED BY <3>1, <3>2
  <2>3. CASE ~ (s <= u)
    <3>1. u - s + P \in 0 .. P-1 /\ (u - s + P) + s = u + P
      BY <1>1, <2>1, <2>3
    <3>2. ((u - s + P) + s) % P = u
      BY <1>3, <2>1, <3>1
    <3> QED BY <3>1, <3>2
  <2> QED BY <2>2, <2>3
<1> QED BY <1>4, <1>5, <1>6

----
(* Sizes wait for messages to arrive. *)
LEMMA AwaitStep ==
  ASSUME Sound, SizesAwaitMessages, [Next]_vars, ResizesWhileSending = FALSE
  PROVE  SizesAwaitMessages'
<1>t. /\ newTagSize \in [Procs -> TagSizes \cup {0}] /\ sent \in [Procs -> SUBSET Message] /\ 0 \in Procs
  BY TypesOfState, ConstantFacts DEF Sound
<1>1. ASSUME NEW s \in Procs, Step(s)
      PROVE  SizesAwaitMessages'
  <2>1. CASE \E size \in TagSizes : SetTagSize(s, size)
    BY <2>1 DEF SetTagSize, SizesAwaitMessages, historyVars
  <2>2. CASE \E t \in Procs, size \in PayloadSizes : Send(s, t, size) \/ HpSend(s, t, size)
    BY <2>2 DEF Send, HpSend, Sends, SizesAwaitMessages, sizeVars
  <2>3. CASE Move(s) \/ Call(s) \/ ArriveStart(s) \/ Check(s) \/ DeliverHp(s) \/ Deliver(s) \/ NextQueue(s) \/ Cross(s)
    <3>1. UNCHANGED <<newTagSize, tagSize, sent>>
      BY <2>3 DEF Move, Call, ArriveStart, Check, DeliverHp, Deliver, NextQueue, Cross, sizeVars, historyVars
    <3> QED BY <3>1 DEF SizesAwaitMessages
  <2>4. CASE ArriveMid(s)
    <3>1. /\ UNCHANGED <<newTagSize, sent>>
          /\ tagSize' = tagSize \/ tagSize' = newTagSize[0]
      BY <2>4 DEF ArriveMid, historyVars
    <3> QED BY <1>t, <3>1 DEF SizesAwaitMessages
  <2>5. CASE ArriveEnd(s)
    <3>1. /\ UNCHANGED <<newTagSize, tagSize>>
          /\ sent' = sent \/ sent' = [t \in Procs |-> {}]
      BY <2>5 DEF ArriveEnd, sizeVars
    <3> QED BY <3>1 DEF SizesAwaitMessages
  <2> QED BY <1>1, <2>1, <2>2, <2>3, <2>4, <2>5 DEF Step
<1>2. Finished \/ UNCHANGED vars => SizesAwaitMessages'
  BY DEF Finished, vars, SizesAwaitMessages
<1> QED BY <1>1, <1>2 DEF Next

(* The tag size changes only when nothing is on its way. *)
LEMMA ResizedAtRest ==
  ASSUME Sound, SizesAwaitMessages, [Next]_vars, tagSize' # tagSize
  PROVE  \A t \in Procs : sent[t] = {}
<1>1. ArriveMid(0)
  BY TagSizeStep
<1>2. newTagSize[0] # tagSize /\ 0 \in Procs
  BY <1>1, ConstantFacts DEF ArriveMid, Sound
<1> QED BY <1>2 DEF SizesAwaitMessages

----
(* Queues are emptied one after the other. *)
Emptied(t) ==
  calls[t] = Completed + 1 /\ crossed[t] = 3 * Completed + 2 =>
    /\ \A j \in 0 .. P-1 : j < k[t] =>
         queues[(j + t) % P][t] = <<>> /\ hpsend_queues[(j + t) % P][t] = <<>>
    /\ entered[t] = 3 * Completed + 3 => k[t] = P

LEMMA AllEmptied == QueuesAreEmptied <=> \A t \in Procs : Emptied(t)
BY DEF QueuesAreEmptied, Emptied

LEMMA AllEmptiedNext == QueuesAreEmptied' <=> \A t \in Procs : Emptied(t)'
BY DEF QueuesAreEmptied, Emptied

SameEmptiness(t) ==
  /\ calls'[t] = calls[t] /\ crossed'[t] = crossed[t] /\ entered'[t] = entered[t] /\ k'[t] = k[t]
  /\ Completed' = Completed
  /\ \A u \in Procs : /\ queues[u][t] = <<>> => queues'[u][t] = <<>>
                      /\ hpsend_queues[u][t] = <<>> => hpsend_queues'[u][t] = <<>>

LEMMA StaysEmptied ==
  ASSUME Sound, NEW t \in Procs, Emptied(t), SameEmptiness(t)
  PROVE  Emptied(t)'
<1>1. \A j \in 0 .. P-1 : (j + t) % P \in Procs
  BY Senders DEF Sound
<1> QED BY <1>1 DEF Emptied, SameEmptiness

(* What delivering one message does to the queues: one of them is shorter. *)
LEMMA DeliveringEmpties ==
  ASSUME Sound, NEW s \in Procs, DeliverHp(s) \/ Deliver(s), NEW t \in Procs, NEW u \in Procs
  PROVE  /\ queues[u][t] = <<>> => queues'[u][t] = <<>>
         /\ hpsend_queues[u][t] = <<>> => hpsend_queues'[u][t] = <<>>
<1>t. /\ queues \in [Procs -> [Procs -> Seq(Byte)]]
      /\ hpsend_queues \in [Procs -> [Procs -> Seq(HpEntry)]]
      /\ From(s) \in Procs
  BY TypesOfState, FromIsAProcess DEF Sound
<1>1. CASE DeliverHp(s)
  <2>1. /\ queues' = queues /\ hpsend_queues[From(s)][s] # <<>>
        /\ \E x : hpsend_queues' = [hpsend_queues EXCEPT ![From(s)][s] = x]
    BY <1>1 DEF DeliverHp
  <2>2. ~ (u = From(s) /\ t = s) => hpsend_queues'[u][t] = hpsend_queues[u][t]
    BY <1>t, <2>1
  <2> QED BY <2>1, <2>2
<1>2. CASE Deliver(s)
  <2>1. /\ hpsend_queues' = hpsend_queues /\ queues[From(s)][s] # <<>>
        /\ \E x : queues' = [queues EXCEPT ![From(s)][s] = x]
    BY <1>2 DEF Deliver
  <2>2. ~ (u = From(s) /\ t = s) => queues'[u][t] = queues[u][t]
    BY <1>t, <2>1
  <2> QED BY <2>1, <2>2
<1> QED BY <1>1, <1>2

LEMMA EmptiedStep ==
  ASSUME Sound, QueuesAreEmptied, [Next]_vars
  PROVE  QueuesAreEmptied'
<1>t. /\ calls \in [Procs -> 0 .. MaxSupersteps] /\ k \in [Procs -> 0 .. P]
      /\ entered \in [Procs -> Nat] /\ crossed \in [Procs -> Nat]
      /\ Completed \in Nat /\ P \in Nat /\ P > 0
      /\ \A t \in Procs : crossed[t] \in Nat /\ entered[t] \in Nat /\ k[t] \in 0 .. P
  <2>1. /\ calls \in [Procs -> 0 .. MaxSupersteps] /\ k \in [Procs -> 0 .. P]
        /\ entered \in [Procs -> Nat] /\ crossed \in [Procs -> Nat]
    BY TypesOfState DEF Sound
  <2>2. P \in Nat /\ P > 0 /\ MaxSupersteps \in Nat
    BY ConstantFacts DEF Sound
  <2>3. Completed \in Nat
    BY <2>2, CompletedExists
  <2> QED BY <2>1, <2>2, <2>3
<1>c. \A t \in Procs : Emptied(t)
  BY AllEmptied
<1>0. \A t \in Procs : SameEmptiness(t) => Emptied(t)'
  BY <1>c, StaysEmptied
<1>1. ASSUME NEW s \in Procs, Step(s), NEW t \in Procs
      PROVE  Emptied(t)'
  <2>1. CASE (\E size \in TagSizes : SetTagSize(s, size)) \/ Move(s) \/ Check(s)
    <3>1. UNCHANGED <<calls, crossed, entered, k, queues, hpsend_queues>>
      BY <2>1 DEF SetTagSize, Move, Check, queueVars
    <3> QED BY <1>0, <3>1, SameCompleted DEF SameEmptiness
  <2>2. CASE \E u \in Procs, size \in PayloadSizes : Send(s, u, size) \/ HpSend(s, u, size)
    <3>1. UNCHANGED <<calls, crossed, entered, k>> /\ Phase(s) = "compute"
      BY <2>2 DEF Send, HpSend, Sends, InUserCode
    <3>2. crossed[t] <= 3 * Completed
      BY <3>1, Phases DEF Sound, BarriersInStep
    <3>3. crossed'[t] # 3 * Completed' + 2
      BY <1>t, <3>1, <3>2, SameCompleted
    <3> QED BY <3>3 DEF Emptied
  <2>3. CASE Call(s)
    <3>1. /\ UNCHANGED <<crossed, entered, k, queues, hpsend_queues>> /\ Phase(s) = "compute"
          /\ calls' = [calls EXCEPT ![s] = @ + 1]
      BY <2>3 DEF Call
    <3>2. CASE t = s
      <4>1. crossed'[t] = 3 * Completed'
        BY <3>1, <3>2, Phases, SameCompleted
      <4>2. crossed'[t] # 3 * Completed' + 2
        BY <1>t, <3>1, <4>1, SameCompleted
      <4> QED BY <4>2 DEF Emptied
    <3>3. CASE t # s
      BY <1>0, <1>t, <3>1, <3>3, SameCompleted DEF SameEmptiness
    <3> QED BY <3>2, <3>3
  <2>4. CASE ArriveStart(s) \/ ArriveMid(s)
    <3>1. /\ UNCHANGED <<crossed, calls, k, queues, hpsend_queues>> /\ Phase(s) \in {"drain", "get"}
          /\ Arrives(s) /\ entered' = [entered EXCEPT ![s] = @ + 1]
      BY <2>4 DEF ArriveStart, ArriveMid, Arrives, Bar!Arrive, queueVars
    <3>2. Completed' = Completed
      BY <3>1, Arrivals
    <3>3. CASE t = s
      <4>1. crossed[s] = 3 * Completed \/ crossed[s] = 3 * Completed + 1
        BY <3>1, Phases
      <4>2. crossed'[t] # 3 * Completed' + 2
        BY <1>t, <3>1, <3>2, <3>3, <4>1
      <4> QED BY <4>2 DEF Emptied
    <3>4. CASE t # s
      BY <1>0, <1>t, <3>1, <3>2, <3>4 DEF SameEmptiness
    <3> QED BY <3>3, <3>4
  <2>5. CASE DeliverHp(s) \/ Deliver(s)
    <3>1. UNCHANGED <<calls, crossed, entered, k>>
      BY <2>5 DEF DeliverHp, Deliver
    <3> QED BY <1>0, <2>5, <3>1, DeliveringEmpties, SameCompleted DEF SameEmptiness
  <2>6. CASE NextQueue(s)
    <3>1. /\ UNCHANGED <<calls, crossed, entered, queues, hpsend_queues>>
          /\ k' = [k EXCEPT ![s] = @ + 1] /\ Phase(s) = "deliver"
          /\ hpsend_queues[(k[s] + s) % P][s] = <<>> /\ queues[(k[s] + s) % P][s] = <<>>
      BY <2>6 DEF NextQueue, Delivers, From, queueVars
    <3>2. CASE t = s
      <4>1. entered[s] = 3 * Completed + 2
        BY <3>1, Phases
      <4>2. entered'[t] # 3 * Completed' + 3
        BY <1>t, <3>1, <3>2, <4>1, SameCompleted
      <4>3. ASSUME calls'[t] = Completed' + 1, crossed'[t] = 3 * Completed' + 2,
                   NEW j \in 0 .. P-1, j < k'[t]
            PROVE  queues'[(j + t) % P][t] = <<>> /\ hpsend_queues'[(j + t) % P][t] = <<>>
        <5>1. j < k[s] \/ j = k[s]
          <6>1. k'[t] = k[s] + 1 /\ k[s] \in Nat /\ j \in Nat
            BY <1>t, <3>1, <3>2
          <6> QED BY <4>3, <6>1
        <5>2. calls[s] = Completed + 1 /\ crossed[s] = 3 * Completed + 2
          BY <3>1, Phases
        <5> QED BY <1>c, <3>1, <3>2, <5>1, <5>2 DEF Emptied
      <4> QED BY <4>2, <4>3 DEF Emptied
    <3>3. CASE t # s
      BY <1>0, <1>t, <3>1, <3>3, SameCompleted DEF SameEmptiness
    <3> QED BY <3>2, <3>3
  <2>7. CASE ArriveEnd(s)
    <3>1. /\ UNCHANGED <<crossed, calls, k, queues, hpsend_queues>> /\ Phase(s) = "deliver" /\ k[s] = P
          /\ Arrives(s) /\ entered' = [entered EXCEPT ![s] = @ + 1]
      BY <2>7 DEF ArriveEnd, Arrives, Bar!Arrive, queueVars
    <3>2. CASE Completed' = Completed
      <4>1. CASE t = s
        BY <1>c, <3>1, <3>2, <4>1 DEF Emptied
      <4>2. CASE t # s
        BY <1>0, <1>t, <3>1, <3>2, <4>2 DEF SameEmptiness
      <4> QED BY <4>1, <4>2
    <3>3. CASE Completed' = Completed + 1 /\ crossed[t] = 3 * Completed + 2
      <4>1. crossed'[t] # 3 * Completed' + 2
        BY <1>t, <3>1, <3>3
      <4> QED BY <4>1 DEF Emptied
    <3> QED BY <3>1, <3>2, <3>3, Arrivals
  <2>8. CASE Cross(s)
    <3>1. /\ UNCHANGED <<calls, entered, queues, hpsend_queues>> /\ crossed[s] # entered[s]
          /\ k' = [k EXCEPT ![s] = 0] /\ crossed' = [crossed EXCEPT ![s] = @ + 1]
      BY <2>8 DEF Cross, Bar!Cross, queueVars
    <3>2. CASE t = s
      <4>1. entered[s] = crossed[s] + 1
        BY <1>t, <3>1, Positions
      <4>2. k'[t] = 0 /\ crossed'[t] = entered'[t]
        BY <1>t, <3>1, <3>2, <4>1
      <4>3. crossed'[t] = 3 * Completed' + 2 => entered'[t] # 3 * Completed' + 3
        BY <1>t, <3>1, <4>2, SameCompleted
      <4>4. \A j \in 0 .. P-1 : ~ (j < k'[t])
        BY <1>t, <4>2
      <4> QED BY <4>3, <4>4 DEF Emptied
    <3>3. CASE t # s
      BY <1>0, <1>t, <3>1, <3>3, SameCompleted DEF SameEmptiness
    <3> QED BY <3>2, <3>3
  <2> QED BY <1>1, <2>1, <2>2, <2>3, <2>4, <2>5, <2>6, <2>7, <2>8 DEF Step
<1>2. ASSUME Finished \/ UNCHANGED vars, NEW t \in Procs
      PROVE  Emptied(t)'
  <2>1. UNCHANGED <<calls, crossed, entered, k, queues, hpsend_queues>>
    BY <1>2 DEF Finished, vars
  <2> QED BY <1>0, <2>1, SameCompleted DEF SameEmptiness
<1> QED BY <1>1, <1>2, AllEmptiedNext DEF Next

----
(* Where messages are, as a function of the state's parts. *)
OnAt(q, size) == {[id |-> q[e].of, size |-> q[e].n, tagSize |-> size] : e \in Ends(q)}
NotedAt(q, size) == {[id |-> q[j].id, size |-> q[j].size, tagSize |-> size] : j \in DOMAIN q}
NotedOnce(q) == \A d, e \in DOMAIN q : q[d].id = q[e].id => d = e

KeptAt(qs, hps, b, size, t, p) ==
  CASE p[2] = "send" -> OnAt(qs[p[1]][t], size)
    [] p[2] = "hpsend" -> NotedAt(hps[p[1]][t], size)
    [] p[2] = "bsmp" -> IF p[1] = t THEN OnAt(b[t], size) ELSE {}

Holdings == [t \in Procs |-> [p \in Places |-> KeptAt(queues, hpsend_queues, bsmp, tagSize, t, p)]]

(* The messages for t, in the places h, are those sent in this superstep
   and, in user code, those that are due. *)
Holding(t, h, count, st, du, inUserCode) ==
  /\ \A p, q \in Places : p # q => \A m \in h[p], n \in h[q] : m.id # n.id
  /\ \A p \in Places : \A m \in h[p] : m.id <= count
  /\ st = UNION {h[p] : p \in IF inUserCode THEN Places \ {<<t, "bsmp">>} ELSE Places}
  /\ inUserCode => du = h[<<t, "bsmp">>]

HoldingFor(t) == Holding(t, Holdings[t], messages, sent[t], due[t], calls[t] = Completed)

StackedFor(t) ==
  /\ Stacked(bsmp[t]) /\ \A s \in Procs : Stacked(queues[s][t])
  /\ \A s \in Procs : NotedOnce(hpsend_queues[s][t])

LEMMA OnIs == \A q : On(q) = OnAt(q, tagSize) /\ Noted(q) = NotedAt(q, tagSize)
BY DEF On, OnAt, Noted, NotedAt, MessageAt

LEMMA PlacesAre ==
  /\ \A p \in Places : p = <<p[1], p[2]>> /\ p[1] \in Procs /\ p[2] \in {"send", "hpsend", "bsmp"}
  /\ \A s \in Procs : /\ <<s, "send">> \in Places /\ <<s, "hpsend">> \in Places /\ <<s, "bsmp">> \in Places
                      /\ \A t \in Procs : <<s, "send">> # <<t, "bsmp">> /\ <<s, "hpsend">> # <<t, "bsmp">>
BY DEF Places

LEMMA HoldingsAre ==
  ASSUME NEW t \in Procs
  PROVE  /\ \A s \in Procs : Holdings[t][<<s, "send">>] = On(queues[s][t])
         /\ \A s \in Procs : Holdings[t][<<s, "hpsend">>] = Noted(hpsend_queues[s][t])
         /\ \A s \in Procs : s # t => Holdings[t][<<s, "bsmp">>] = {}
         /\ Holdings[t][<<t, "bsmp">>] = On(bsmp[t])
         /\ \A p \in Places : Holdings[t][p] = Kept(t, p)
<1>1. \A p \in Places : Holdings[t][p] = KeptAt(queues, hpsend_queues, bsmp, tagSize, t, p)
  BY DEF Holdings
<1>2. \A p \in Places : Holdings[t][p] = Kept(t, p)
  BY <1>1, OnIs DEF Kept, KeptAt
<1>4. Kept(t, <<t, "bsmp">>) = On(bsmp[t])
  BY DEF Kept
<1>5. \A s \in Procs : <<s, "send">> \in Places /\ <<s, "hpsend">> \in Places /\ <<s, "bsmp">> \in Places
  BY PlacesAre
<1>6. ASSUME NEW s \in Procs
      PROVE  /\ Holdings[t][<<s, "send">>] = On(queues[s][t])
             /\ Holdings[t][<<s, "hpsend">>] = Noted(hpsend_queues[s][t])
             /\ s # t => Holdings[t][<<s, "bsmp">>] = {}
  <2>1. /\ Holdings[t][<<s, "send">>] = Kept(t, <<s, "send">>)
        /\ Holdings[t][<<s, "hpsend">>] = Kept(t, <<s, "hpsend">>)
        /\ Holdings[t][<<s, "bsmp">>] = Kept(t, <<s, "bsmp">>)
    BY <1>2, <1>5
  <2>2. Kept(t, <<s, "send">>) = On(queues[s][t])
    BY DEF Kept
  <2>3. Kept(t, <<s, "hpsend">>) = Noted(hpsend_queues[s][t])
    BY DEF Kept
  <2>4. s # t => Kept(t, <<s, "bsmp">>) = {}
    BY DEF Kept
  <2> QED BY <2>1, <2>2, <2>3, <2>4
<1>7. Holdings[t][<<t, "bsmp">>] = On(bsmp[t])
  BY <1>2, <1>4, <1>5
<1> QED BY <1>2, <1>6, <1>7

(* The invariant, in these terms. *)
AllKept == \A t \in Procs : StackedFor(t) /\ HoldingFor(t)

LEMMA KeptIs == Sound => (MessagesAreKept <=> AllKept)
<1> SUFFICES ASSUME Sound
             PROVE  MessagesAreKept <=> AllKept
  OBVIOUS
<1>t. /\ queues \in [Procs -> [Procs -> Seq(Byte)]] /\ bsmp \in [Procs -> Seq(Byte)] /\ tagSize \in Nat
  BY TypesOfState, ConstantFacts DEF Sound
<1>1. ASSUME NEW t \in Procs
      PROVE  /\ StackOfMessages(bsmp[t]) <=> Stacked(bsmp[t])
             /\ \A s \in Procs : StackOfMessages(queues[s][t]) <=> Stacked(queues[s][t])
  BY <1>t, StackedIs
<1> DEFINE Parts(t) ==
      /\ StackOfMessages(bsmp[t]) /\ \A s \in Procs : StackOfMessages(queues[s][t])
      /\ \A s \in Procs : NotedOnce(hpsend_queues[s][t])
      /\ \A p, q \in Places : p # q => \A m \in Kept(t, p), n \in Kept(t, q) : m.id # n.id
      /\ \A p \in Places : \A m \in Kept(t, p) : m.id <= messages
      /\ sent[t] = UNION {Kept(t, p) : p \in
           IF calls[t] = Completed THEN Places \ {<<t, "bsmp">>} ELSE Places}
      /\ calls[t] = Completed => due[t] = On(bsmp[t])
<1>2. MessagesAreKept <=> \A t \in Procs : Parts(t)
  BY DEF MessagesAreKept, NotedOnce
<1>3. ASSUME NEW t \in Procs
      PROVE  Parts(t) <=> StackedFor(t) /\ HoldingFor(t)
  <2> DEFINE h == Holdings[t]
  <2>1. h[<<t, "bsmp">>] = On(bsmp[t]) /\ \A p \in Places : h[p] = Kept(t, p)
    BY HoldingsAre
  <2> DEFINE U == IF calls[t] = Completed THEN Places \ {<<t, "bsmp">>} ELSE Places
  <2>2. {h[p] : p \in U} = {Kept(t, p) : p \in U}
    BY <2>1
  <2>3. (\A p, q \in Places : p # q => \A m \in Kept(t, p), n \in Kept(t, q) : m.id # n.id)
          <=> (\A p, q \in Places : p # q => \A m \in h[p], n \in h[q] : m.id # n.id)
    BY <2>1
  <2>4. (\A p \in Places : \A m \in Kept(t, p) : m.id <= messages)
          <=> (\A p \in Places : \A m \in h[p] : m.id <= messages)
    BY <2>1
  <2> HIDE DEF h
  <2>5. HoldingFor(t) <=>
          /\ \A p, q \in Places : p # q => \A m \in h[p], n \in h[q] : m.id # n.id
          /\ \A p \in Places : \A m \in h[p] : m.id <= messages
          /\ sent[t] = UNION {h[p] : p \in U}
          /\ calls[t] = Completed => due[t] = h[<<t, "bsmp">>]
    BY DEF HoldingFor, Holding, h
  <2> HIDE DEF U
  <2>6. Parts(t) <=>
          /\ StackOfMessages(bsmp[t]) /\ \A s \in Procs : StackOfMessages(queues[s][t])
          /\ \A s \in Procs : NotedOnce(hpsend_queues[s][t])
          /\ \A p, q \in Places : p # q => \A m \in Kept(t, p), n \in Kept(t, q) : m.id # n.id
          /\ \A p \in Places : \A m \in Kept(t, p) : m.id <= messages
          /\ sent[t] = UNION {Kept(t, p) : p \in U}
          /\ calls[t] = Completed => due[t] = On(bsmp[t])
    BY DEF U
  <2> HIDE DEF Parts
  <2> QED BY <1>1, <2>1, <2>2, <2>3, <2>4, <2>5, <2>6 DEF StackedFor
<1> HIDE DEF Parts
<1> QED BY <1>2, <1>3 DEF AllKept

----
(* What can happen to the messages for one process. *)
LEMMA PlacesDiffer ==
  ASSUME NEW t \in Procs
  PROVE  /\ <<t, "bsmp">> \in Places
         /\ \A s \in Procs : /\ <<s, "send">> \in Places /\ <<s, "send">> # <<t, "bsmp">>
                             /\ <<s, "hpsend">> \in Places /\ <<s, "hpsend">> # <<t, "bsmp">>
                             /\ <<s, "hpsend">> # <<s, "send">>
BY DEF Places

(* One is sent. *)
LEMMA OneIsSent ==
  ASSUME NEW t \in Procs, NEW h, NEW g, NEW count \in Nat, NEW st, NEW du, NEW u \in BOOLEAN,
         Holding(t, h, count, st, du, u),
         NEW p \in Places, p # <<t, "bsmp">>, NEW x, x.id = count + 1,
         g[p] = h[p] \cup {x}, \A q \in Places : q # p => g[q] = h[q],
         \A q \in Places : \A m \in h[q] : m.id \in Nat
  PROVE  Holding(t, g, count + 1, st \cup {x}, du, u)
<1> DEFINE W == IF u THEN Places \ {<<t, "bsmp">>} ELSE Places
<1>1. p \in W /\ W \subseteq Places /\ <<t, "bsmp">> \in Places
  BY PlacesDiffer
<1>2. \A q \in Places : \A m \in h[q] : m.id <= count /\ m.id \in Nat
  BY DEF Holding
<1>3. \A q \in Places : \A m \in g[q] : m \in h[q] \/ (q = p /\ m = x)
  OBVIOUS
<1>4. \A q, r \in Places : q # r => \A m \in g[q], n \in g[r] : m.id # n.id
  <2> SUFFICES ASSUME NEW q \in Places, NEW r \in Places, q # r, NEW m \in g[q], NEW n \in g[r]
               PROVE  m.id # n.id
    OBVIOUS
  <2>1. CASE m \in h[q] /\ n \in h[r]
    BY <2>1 DEF Holding
  <2>2. CASE q = p /\ m = x /\ n \in h[r]
    <3>1. n.id <= count /\ n.id \in Nat /\ m.id = count + 1
      BY <1>2, <2>2
    <3> QED BY <3>1
  <2>3. CASE m \in h[q] /\ r = p /\ n = x
    <3>1. m.id <= count /\ m.id \in Nat /\ n.id = count + 1
      BY <1>2, <2>3
    <3> QED BY <3>1
  <2> QED BY <1>3, <2>1, <2>2, <2>3
<1>5. \A q \in Places : \A m \in g[q] : m.id <= count + 1
  <2> SUFFICES ASSUME NEW q \in Places, NEW m \in g[q]
               PROVE  m.id <= count + 1
    OBVIOUS
  <2>1. CASE m \in h[q]
    <3>1. m.id <= count /\ m.id \in Nat
      BY <1>2, <2>1
    <3> QED BY <3>1
  <2>2. CASE m = x
    <3>1. m.id = count + 1
      BY <2>2
    <3> QED BY <3>1
  <2> QED BY <1>3, <2>1, <2>2
<1> HIDE DEF W
<1>6. UNION {g[q] : q \in W} = (UNION {h[q] : q \in W}) \cup {x}
  BY <1>1
<1>7. st = UNION {h[q] : q \in W}
  BY DEF Holding, W
<1>8. g[<<t, "bsmp">>] = h[<<t, "bsmp">>]
  BY <1>1
<1> QED BY <1>4, <1>5, <1>6, <1>7, <1>8 DEF Holding, W

(* One is delivered. *)
LEMMA OneIsDelivered ==
  ASSUME NEW t \in Procs, NEW h, NEW g, NEW count, NEW st, NEW du,
         Holding(t, h, count, st, du, FALSE),
         NEW p \in Places, p # <<t, "bsmp">>, NEW x,
         h[p] = g[p] \cup {x}, \A m \in g[p] : m.id # x.id,
         g[<<t, "bsmp">>] = h[<<t, "bsmp">>] \cup {x},
         \A q \in Places : q # p /\ q # <<t, "bsmp">> => g[q] = h[q]
  PROVE  Holding(t, g, count, st, du, FALSE)
<1> DEFINE b == <<t, "bsmp">>
<1>1. b \in Places
  BY PlacesDiffer
<1> HIDE DEF b
<1>2. \A q \in Places : \A m \in g[q] : (m \in h[q] /\ (q = p => m.id # x.id)) \/ (q = b /\ m = x)
  BY DEF b
<1>3. \A q \in Places : q # p => \A n \in h[q] : n.id # x.id
  BY DEF Holding
<1>4. \A q, r \in Places : q # r => \A m \in g[q], n \in g[r] : m.id # n.id
  <2> SUFFICES ASSUME NEW q \in Places, NEW r \in Places, q # r, NEW m \in g[q], NEW n \in g[r]
               PROVE  m.id # n.id
    OBVIOUS
  <2>1. CASE m \in h[q] /\ n \in h[r]
    BY <2>1 DEF Holding
  <2>2. CASE q = b /\ m = x /\ n \in h[r] /\ (r = p => n.id # x.id)
    BY <1>3, <2>2
  <2>3. CASE m \in h[q] /\ (q = p => m.id # x.id) /\ r = b /\ n = x
    BY <1>3, <2>3
  <2> QED BY <1>2, <2>1, <2>2, <2>3
<1>5. \A q \in Places : \A m \in g[q] : \E r \in Places : m \in h[r]
  BY <1>2
<1>6. \A q \in Places : \A m \in h[q] : \E r \in Places : m \in g[r]
  <2> SUFFICES ASSUME NEW q \in Places, NEW m \in h[q]
               PROVE  \E r \in Places : m \in g[r]
    OBVIOUS
  <2>1. CASE q = p
    BY <1>1, <2>1 DEF b
  <2>2. CASE q # p
    BY <1>1, <2>2 DEF b
  <2> QED BY <2>1, <2>2
<1>7. UNION {g[q] : q \in Places} = UNION {h[q] : q \in Places}
  BY <1>5, <1>6
<1>8. \A q \in Places : \A m \in g[q] : m.id <= count
  BY <1>5 DEF Holding
<1> QED BY <1>4, <1>7, <1>8 DEF Holding

(* One is moved by the program. *)
LEMMA OneIsMoved ==
  ASSUME NEW t \in Procs, NEW h, NEW g, NEW count, NEW st, NEW du, NEW i, NEW rest,
         Holding(t, h, count, st, du, TRUE),
         \A m : m \in g[<<t, "bsmp">>] <=> m \in h[<<t, "bsmp">>] /\ m.id # i,
         \A m : m \in rest <=> m \in du /\ m.id # i,
         \A q \in Places : q # <<t, "bsmp">> => g[q] = h[q]
  PROVE  Holding(t, g, count, st, rest, TRUE)
<1> DEFINE b == <<t, "bsmp">>
<1>1. b \in Places
  BY PlacesDiffer
<1> HIDE DEF b
<1>2. \A q \in Places : \A m \in g[q] : m \in h[q]
  BY DEF b
<1>3. \A q, r \in Places : q # r => \A m \in g[q], n \in g[r] : m.id # n.id
  BY <1>2 DEF Holding
<1>4. \A q \in Places : \A m \in g[q] : m.id <= count
  BY <1>2 DEF Holding
<1>5. {g[q] : q \in Places \ {b}} = {h[q] : q \in Places \ {b}}
  BY DEF b
<1>6. st = UNION {h[q] : q \in Places \ {b}} /\ du = h[b]
  BY DEF Holding, b
<1>7. \A m : m \in rest <=> m \in g[b]
  BY <1>6 DEF b
<1>8. rest = g[b]
  BY <1>7
<1> QED BY <1>3, <1>4, <1>5, <1>6, <1>8 DEF Holding, b

(* bsp_sync is called. *)
LEMMA TheRestIsForgotten ==
  ASSUME NEW t \in Procs, NEW h, NEW g, NEW count, NEW st, NEW du,
         Holding(t, h, count, st, du, TRUE),
         g[<<t, "bsmp">>] = {}, \A q \in Places : q # <<t, "bsmp">> => g[q] = h[q]
  PROVE  Holding(t, g, count, st, du, FALSE)
<1> DEFINE b == <<t, "bsmp">>
<1>1. b \in Places
  BY PlacesDiffer
<1> HIDE DEF b
<1>2. \A q \in Places : g[q] \subseteq h[q]
  BY DEF b
<1>3. \A q, r \in Places : q # r => \A m \in g[q], n \in g[r] : m.id # n.id
  BY <1>2 DEF Holding
<1>4. \A q \in Places : \A m \in g[q] : m.id <= count
  BY <1>2 DEF Holding
<1>5. st = UNION {h[q] : q \in Places \ {b}}
  BY DEF Holding, b
<1>6. UNION {h[q] : q \in Places \ {b}} = UNION {g[q] : q \in Places}
  <2>1. \A q \in Places : \A m \in g[q] : q # b /\ m \in h[q]
    BY DEF b
  <2>2. \A q \in Places \ {b} : \A m \in h[q] : m \in g[q]
    BY DEF b
  <2> QED BY <2>1, <2>2
<1> QED BY <1>3, <1>4, <1>5, <1>6 DEF Holding

(* The synchronisation is complete. *)
LEMMA EverythingIsDue ==
  ASSUME NEW t \in Procs, NEW h, NEW count, NEW st, NEW du,
         Holding(t, h, count, st, du, FALSE),
         \A q \in Places : q # <<t, "bsmp">> => h[q] = {}
  PROVE  Holding(t, h, count, {}, st, TRUE)
<1> DEFINE b == <<t, "bsmp">>
<1>1. b \in Places
  BY PlacesDiffer
<1> HIDE DEF b
<1>2. \A q \in Places : q # b => h[q] = {}
  BY DEF b
<1>3. st = UNION {h[q] : q \in Places}
  BY DEF Holding
<1>4. UNION {h[q] : q \in Places} = h[b]
  BY <1>1, <1>2
<1>5. UNION {h[q] : q \in Places \ {b}} = {}
  BY <1>2
<1> QED BY <1>3, <1>4, <1>5 DEF Holding, b

(* Nothing happens to them, though others may be sent. *)
LEMMA NothingHappens ==
  ASSUME NEW t \in Procs, NEW h, NEW g, NEW count \in Nat, NEW st, NEW du, NEW u \in BOOLEAN,
         Holding(t, h, count, st, du, u), \A q \in Places : g[q] = h[q],
         \A q \in Places : \A m \in h[q] : m.id \in Nat
  PROVE  Holding(t, g, count, st, du, u) /\ Holding(t, g, count + 1, st, du, u)
<1> DEFINE W == IF u THEN Places \ {<<t, "bsmp">>} ELSE Places
<1>1. W \subseteq Places /\ <<t, "bsmp">> \in Places
  BY PlacesDiffer
<1>2. \A q \in Places : \A m \in g[q] : m.id <= count /\ m.id \in Nat
  BY DEF Holding
<1>3. \A q \in Places : \A m \in g[q] : m.id <= count + 1
  <2> SUFFICES ASSUME NEW q \in Places, NEW m \in g[q]
               PROVE  m.id <= count + 1
    OBVIOUS
  <2>1. m.id <= count /\ m.id \in Nat
    BY <1>2
  <2> QED BY <2>1
<1>4. \A q, r \in Places : q # r => \A m \in g[q], n \in g[r] : m.id # n.id
  BY DEF Holding
<1>5. st = UNION {h[q] : q \in W}
  BY DEF Holding
<1> HIDE DEF W
<1>6. {h[q] : q \in W} = {g[q] : q \in W}
  BY <1>1
<1>7. u => du = g[<<t, "bsmp">>]
  BY <1>1 DEF Holding
<1> QED BY <1>2, <1>3, <1>4, <1>5, <1>6, <1>7 DEF Holding, W

----
(* What each step does to the messages. *)
LEMMA IdsAreNumbers ==
  ASSUME Sound, NEW t \in Procs
  PROVE  \A q \in Places : \A m \in Holdings[t][q] : m.id \in Nat
<1>t. /\ queues \in [Procs -> [Procs -> Seq(Byte)]] /\ bsmp \in [Procs -> Seq(Byte)]
      /\ hpsend_queues \in [Procs -> [Procs -> Seq(HpEntry)]]
  BY TypesOfState DEF Sound
<1>1. ASSUME NEW q \in Seq(Byte), NEW m \in On(q)
      PROVE  m.id \in Nat
  <2>1. PICK e \in Ends(q) : m = MessageAt(q, e)
    BY <1>1 DEF On
  <2>2. e \in 1 .. Len(q)
    BY LenProperties DEF Ends
  <2>3. q[e] \in Byte
    BY <2>2, ElementOfSeq
  <2> QED BY <2>1, <2>3 DEF MessageAt, Byte
<1>2. ASSUME NEW q \in Seq(HpEntry), NEW m \in Noted(q)
      PROVE  m.id \in Nat
  <2>1. PICK j \in DOMAIN q : m = [id |-> q[j].id, size |-> q[j].size, tagSize |-> tagSize]
    BY <1>2 DEF Noted
  <2>2. j \in 1 .. Len(q)
    BY LenProperties
  <2>3. q[j] \in HpEntry
    BY <2>2, ElementOfSeq
  <2>4. q[j].id \in 1 .. MaxMessages /\ MaxMessages \in Nat
    BY <2>3, ConstantFacts DEF HpEntry, Sound
  <2>5. q[j].id \in Nat
    BY <2>4
  <2> QED BY <2>1, <2>5
<1> SUFFICES ASSUME NEW q \in Places, NEW m \in Holdings[t][q]
             PROVE  m.id \in Nat
  OBVIOUS
<1>3. q = <<q[1], q[2]>> /\ q[1] \in Procs /\ q[2] \in {"send", "hpsend", "bsmp"}
  BY PlacesAre
<1>4. Holdings[t][q] = KeptAt(queues, hpsend_queues, bsmp, tagSize, t, q)
  BY DEF Holdings
<1>5. CASE q[2] = "send"
  <2>1. m \in On(queues[q[1]][t]) /\ queues[q[1]][t] \in Seq(Byte)
    BY <1>t, <1>3, <1>4, <1>5, OnIs DEF KeptAt
  <2> QED BY <1>1, <2>1
<1>6. CASE q[2] = "hpsend"
  <2>1. m \in Noted(hpsend_queues[q[1]][t]) /\ hpsend_queues[q[1]][t] \in Seq(HpEntry)
    BY <1>t, <1>3, <1>4, <1>6, OnIs DEF KeptAt
  <2> QED BY <1>2, <2>1
<1>7. CASE q[2] = "bsmp"
  <2>1. m \in On(bsmp[t]) /\ bsmp[t] \in Seq(Byte)
    BY <1>t, <1>3, <1>4, <1>7, OnIs DEF KeptAt
  <2> QED BY <1>1, <2>1
<1> QED BY <1>3, <1>5, <1>6, <1>7

(* The places X aside, nothing changes for t. *)
OnlyIn(t, X) ==
  /\ tagSize' = tagSize
  /\ \A s \in Procs : <<s, "send">> \notin X => queues'[s][t] = queues[s][t]
  /\ \A s \in Procs : <<s, "hpsend">> \notin X => hpsend_queues'[s][t] = hpsend_queues[s][t]
  /\ <<t, "bsmp">> \notin X => bsmp'[t] = bsmp[t]

LEMMA ElsewhereTheSame ==
  ASSUME NEW t \in Procs, NEW X, OnlyIn(t, X)
  PROVE  \A q \in Places : q \notin X => Holdings'[t][q] = Holdings[t][q]
<1> SUFFICES ASSUME NEW q \in Places, q \notin X
             PROVE  Holdings'[t][q] = Holdings[t][q]
  OBVIOUS
<1>1. q = <<q[1], q[2]>> /\ q[1] \in Procs /\ q[2] \in {"send", "hpsend", "bsmp"}
  BY PlacesAre
<1>2. /\ Holdings[t][q] = KeptAt(queues, hpsend_queues, bsmp, tagSize, t, q)
      /\ Holdings'[t][q] = KeptAt(queues', hpsend_queues', bsmp', tagSize', t, q)
  BY DEF Holdings
<1>3. CASE q[2] = "send"
  <2>1. queues'[q[1]][t] = queues[q[1]][t] /\ tagSize' = tagSize
    BY <1>1, <1>3 DEF OnlyIn
  <2> QED BY <1>2, <1>3, <2>1 DEF KeptAt
<1>4. CASE q[2] = "hpsend"
  <2>1. hpsend_queues'[q[1]][t] = hpsend_queues[q[1]][t] /\ tagSize' = tagSize
    BY <1>1, <1>4 DEF OnlyIn
  <2> QED BY <1>2, <1>4, <2>1 DEF KeptAt
<1>5. CASE q[2] = "bsmp"
  <2>1. (q[1] = t => bsmp'[t] = bsmp[t]) /\ tagSize' = tagSize
    BY <1>1, <1>5 DEF OnlyIn
  <2> QED BY <1>2, <1>5, <2>1 DEF KeptAt
<1> QED BY <1>1, <1>3, <1>4, <1>5

LEMMA HoldingsNext ==
  ASSUME NEW t \in Procs, tagSize' = tagSize, NEW s \in Procs
  PROVE  /\ Holdings'[t][<<s, "send">>] = On(queues'[s][t])
         /\ Holdings'[t][<<s, "hpsend">>] = Noted(hpsend_queues'[s][t])
         /\ Holdings'[t][<<t, "bsmp">>] = On(bsmp'[t])
<1>1. \A q \in Places : Holdings'[t][q] = KeptAt(queues', hpsend_queues', bsmp', tagSize', t, q)
  BY DEF Holdings
<1>2. /\ Holdings'[t][<<s, "send">>] = KeptAt(queues', hpsend_queues', bsmp', tagSize', t, <<s, "send">>)
      /\ Holdings'[t][<<s, "hpsend">>] = KeptAt(queues', hpsend_queues', bsmp', tagSize', t, <<s, "hpsend">>)
      /\ Holdings'[t][<<t, "bsmp">>] = KeptAt(queues', hpsend_queues', bsmp', tagSize', t, <<t, "bsmp">>)
  BY <1>1, PlacesDiffer
<1> QED BY <1>2, OnIs DEF KeptAt

(* Stacks stay well formed when the tag size stays the same. *)
LEMMA StackedNext ==
  ASSUME NEW t \in Procs, tagSize' = tagSize
  PROVE  StackedFor(t)' <=>
           /\ Stacked(bsmp'[t]) /\ \A s \in Procs : Stacked(queues'[s][t])
           /\ \A s \in Procs : NotedOnce(hpsend_queues'[s][t])
BY DEF StackedFor, Stacked, WholeAt, Below, NotedOnce

LEMMA StackedWhereUnchanged ==
  ASSUME NEW t \in Procs, NEW X, OnlyIn(t, X), StackedFor(t),
         <<t, "bsmp">> \in X => Stacked(bsmp'[t]),
         \A s \in Procs : <<s, "send">> \in X => Stacked(queues'[s][t]),
         \A s \in Procs : <<s, "hpsend">> \in X => NotedOnce(hpsend_queues'[s][t])
  PROVE  StackedFor(t)'
<1>1. tagSize' = tagSize
  BY DEF OnlyIn
<1>2. Stacked(bsmp'[t])
  BY DEF OnlyIn, StackedFor
<1>3. \A s \in Procs : Stacked(queues'[s][t])
  BY DEF OnlyIn, StackedFor
<1>4. \A s \in Procs : NotedOnce(hpsend_queues'[s][t])
  BY DEF OnlyIn, StackedFor
<1> QED BY <1>1, <1>2, <1>3, <1>4, StackedNext

(* Nobody else's messages are touched. *)
Untouched(t) ==
  /\ OnlyIn(t, {}) /\ sent'[t] = sent[t] /\ due'[t] = due[t]
  /\ messages' \in {messages, messages + 1}
  /\ (calls'[t] = Completed') = (calls[t] = Completed)

LEMMA StaysKept ==
  ASSUME Sound, NEW t \in Procs, StackedFor(t), HoldingFor(t), Untouched(t)
  PROVE  StackedFor(t)' /\ HoldingFor(t)'
<1>0. OnlyIn(t, {})
  BY DEF Untouched
<1> DEFINE X == {}
<1>a. OnlyIn(t, X) /\ \A p : p \notin X
  BY <1>0
<1> HIDE DEF X
<1>1. StackedFor(t)'
  BY <1>a, StackedWhereUnchanged
<1>2. /\ \A q \in Places : Holdings'[t][q] = Holdings[t][q]
      /\ \A q \in Places : \A m \in Holdings[t][q] : m.id \in Nat
      /\ messages \in Nat
  <2>1. \A q \in Places : Holdings'[t][q] = Holdings[t][q]
    BY <1>a, ElsewhereTheSame
  <2>2. messages \in 0 .. MaxMessages /\ MaxMessages \in Nat
    BY TypesOfState, ConstantFacts DEF Sound
  <2>3. messages \in Nat
    BY <2>2
  <2> QED BY <2>1, <2>3, IdsAreNumbers
<1> DEFINE u == calls[t] = Completed
           h == Holdings[t]
           g == Holdings'[t]
<1>3. Holding(t, h, messages, sent[t], due[t], u)
  BY DEF HoldingFor
<1>4. u \in BOOLEAN
  OBVIOUS
<1> HIDE DEF h, g, u
<1>5. Holding(t, g, messages, sent[t], due[t], u) /\ Holding(t, g, messages + 1, sent[t], due[t], u)
  <2>1. (\A q \in Places : g[q] = h[q]) /\ \A q \in Places : \A m \in h[q] : m.id \in Nat
    BY <1>2 DEF h, g
  <2> QED BY <1>2, <1>3, <1>4, <2>1, NothingHappens
<1>6. Holding(t, g, messages', sent'[t], due'[t], (calls'[t] = Completed'))
  BY <1>5 DEF Untouched, u
<1>7. HoldingFor(t)'
  BY <1>6 DEF HoldingFor, g
<1> QED BY <1>1, <1>7

(* Entries of an hpsend queue: one more, one less. *)
LEMMA OneMoreNoted ==
  ASSUME NEW q \in Seq(HpEntry), NEW e \in HpEntry, NotedOnce(q), \A j \in DOMAIN q : q[j].id # e.id
  PROVE  /\ NotedOnce(Append(q, e))
         /\ Noted(Append(q, e)) = Noted(q) \cup {[id |-> e.id, size |-> e.size, tagSize |-> tagSize]}
<1> DEFINE w == Append(q, e)
           n == Len(q)
<1>1. /\ n \in Nat /\ DOMAIN q = 1 .. n /\ DOMAIN w = 1 .. n + 1 /\ w[n + 1] = e
      /\ \A j \in 1 .. n : w[j] = q[j]
  BY LenProperties, AppendProperties
<1> HIDE DEF w, n
<1>2. \A j \in DOMAIN w : (j \in DOMAIN q /\ w[j] = q[j]) \/ (j = n + 1 /\ w[j] = e)
  BY <1>1
<1>3. n + 1 \in DOMAIN w /\ \A j \in DOMAIN q : j \in DOMAIN w /\ w[j] = q[j]
  BY <1>1
<1>4. NotedOnce(w)
  BY <1>2 DEF NotedOnce
<1>5. Noted(w) = Noted(q) \cup {[id |-> e.id, size |-> e.size, tagSize |-> tagSize]}
  <2>1. ASSUME NEW m \in Noted(w)
        PROVE  m \in Noted(q) \/ m = [id |-> e.id, size |-> e.size, tagSize |-> tagSize]
    BY <1>2 DEF Noted
  <2>2. ASSUME NEW m \in Noted(q)
        PROVE  m \in Noted(w)
    BY <1>3 DEF Noted
  <2>3. [id |-> e.id, size |-> e.size, tagSize |-> tagSize] \in Noted(w)
    BY <1>1, <1>3 DEF Noted
  <2> QED BY <2>1, <2>2, <2>3
<1> QED BY <1>4, <1>5 DEF w

LEMMA OneLessNoted ==
  ASSUME NEW q \in Seq(HpEntry), q # <<>>, NotedOnce(q)
  PROVE  /\ q[Len(q)] \in HpEntry
         /\ NotedOnce(SubSeq(q, 1, Len(q) - 1))
         /\ Noted(q) = Noted(SubSeq(q, 1, Len(q) - 1))
                         \cup {[id |-> q[Len(q)].id, size |-> q[Len(q)].size, tagSize |-> tagSize]}
         /\ \A m \in Noted(SubSeq(q, 1, Len(q) - 1)) : m.id # q[Len(q)].id
<1> DEFINE n == Len(q)
           r == SubSeq(q, 1, n - 1)
           e == q[n]
<1>1. n \in Nat /\ n > 0 /\ DOMAIN q = 1 .. n
  BY EmptySeq, LenProperties
<1>2. DOMAIN r = 1 .. n - 1 /\ \A j \in 1 .. n - 1 : r[j] = q[j]
  <2>1. n - 1 \in 0 .. Len(q)
    BY <1>1
  <2>2. r \in Seq(HpEntry) /\ Len(r) = n - 1 /\ \A j \in 1 .. n - 1 : r[j] = q[j]
    BY <2>1, PrefixIs
  <2> QED BY <2>2, LenProperties
<1>3. e \in HpEntry
  BY <1>1, ElementOfSeq
<1> HIDE DEF r
<1>4. \A j \in DOMAIN r : j \in DOMAIN q /\ r[j] = q[j] /\ j # n
  BY <1>1, <1>2
<1>5. n \in DOMAIN q /\ \A j \in DOMAIN q : j = n \/ (j \in DOMAIN r /\ r[j] = q[j])
  BY <1>1, <1>2
<1> HIDE DEF n, e
<1>6. NotedOnce(r)
  BY <1>4 DEF NotedOnce
<1>7. \A m \in Noted(r) : m.id # e.id
  BY <1>4, <1>5 DEF NotedOnce, Noted, e
<1>8. Noted(q) = Noted(r) \cup {[id |-> e.id, size |-> e.size, tagSize |-> tagSize]}
  <2>1. ASSUME NEW m \in Noted(q)
        PROVE  m \in Noted(r) \/ m = [id |-> e.id, size |-> e.size, tagSize |-> tagSize]
    BY <1>5 DEF Noted, e
  <2>2. ASSUME NEW m \in Noted(r)
        PROVE  m \in Noted(q)
    BY <1>4 DEF Noted
  <2>3. [id |-> e.id, size |-> e.size, tagSize |-> tagSize] \in Noted(q)
    BY <1>5 DEF Noted, e
  <2> QED BY <2>1, <2>2, <2>3
<1> QED BY <1>3, <1>6, <1>7, <1>8 DEF n, e, r

(* A message is sent: to the queue of its sender. *)
LEMMA SentIsKept ==
  ASSUME Sound, AllKept, NEW s \in Procs, NEW t \in Procs, NEW size \in PayloadSizes,
         Send(s, t, size) \/ HpSend(s, t, size)
  PROVE  StackedFor(t)' /\ HoldingFor(t)'
<1> DEFINE x == [id |-> messages + 1, size |-> size, tagSize |-> tagSize]
           p == IF Send(s, t, size) THEN <<s, "send">> ELSE <<s, "hpsend">>
           X == {p}
           h == Holdings[t]
           g == Holdings'[t]
           u == calls[t] = Completed
<1>t. /\ queues \in [Procs -> [Procs -> Seq(Byte)]] /\ queues[s][t] \in Seq(Byte)
      /\ hpsend_queues \in [Procs -> [Procs -> Seq(HpEntry)]] /\ hpsend_queues[s][t] \in Seq(HpEntry)
      /\ sent \in [Procs -> SUBSET Message]
  BY TypesOfState DEF Sound
<1>1. /\ messages' = messages + 1 /\ messages + 1 \in 1 .. MaxMessages /\ messages \in Nat
      /\ size \in Nat /\ tagSize \in Nat /\ Sends(s, t, size)
      /\ UNCHANGED <<tagSize, bsmp, due, calls, entered>>
      /\ sent'[t] = sent[t] \cup {x}
  <2>1. Sends(s, t, size) /\ UNCHANGED <<tagSize, bsmp, due, calls, entered>>
    BY DEF Send, HpSend, sizeVars
  <2>2. messages' = messages + 1 /\ messages' \in 1 .. MaxMessages /\ size \in Nat /\ tagSize \in Nat
    BY <2>1, SendsIs DEF Sound
  <2>3. messages \in Nat
    <3>1. messages \in 0 .. MaxMessages /\ MaxMessages \in Nat
      BY TypesOfState, ConstantFacts DEF Sound
    <3> QED BY <3>1
  <2>4. sent'[t] = sent[t] \cup {x}
    BY <1>t, <2>1, <2>2 DEF Sends
  <2> QED BY <2>1, <2>2, <2>3, <2>4
<1>2. /\ StackedFor(t) /\ Holding(t, h, messages, sent[t], due[t], u)
      /\ \A q \in Places : \A m \in h[q] : m.id \in Nat
  BY IdsAreNumbers DEF AllKept, HoldingFor
<1>3. \A q \in Places : \A m \in h[q] : m.id # messages + 1
  <2> SUFFICES ASSUME NEW q \in Places, NEW m \in h[q]
               PROVE  m.id # messages + 1
    OBVIOUS
  <2>1. m.id \in Nat /\ m.id <= messages
    BY <1>2 DEF Holding
  <2> QED BY <1>1, <2>1
<1>4. p \in Places /\ p # <<t, "bsmp">>
  BY PlacesDiffer
<1>5. ASSUME Send(s, t, size)
      PROVE  OnlyIn(t, X) /\ g[p] = h[p] \cup {x} /\ StackedFor(t)'
  <2>1. queues' = [queues EXCEPT ![s][t] = Pushed(queues[s][t], messages + 1, size)]
    BY <1>1, <1>5 DEF Send, Pushed
  <2>2. hpsend_queues' = hpsend_queues
    BY <1>5 DEF Send
  <2>3. p = <<s, "send">>
    BY <1>5
  <2>4. OnlyIn(t, X)
    BY <1>t, <1>1, <2>1, <2>2, <2>3 DEF OnlyIn
  <2>5. queues'[s][t] = Pushed(queues[s][t], messages + 1, size)
    BY <1>t, <2>1
  <2>6. h[p] = On(queues[s][t])
    BY <2>3, HoldingsAre
  <2>7. /\ Stacked(Pushed(queues[s][t], messages + 1, size))
        /\ On(Pushed(queues[s][t], messages + 1, size)) = On(queues[s][t]) \cup {x}
    <3>1. messages + 1 \in Nat /\ Stacked(queues[s][t]) /\ \A m \in On(queues[s][t]) : m.id # messages + 1
      BY <1>1, <1>2, <1>3, <1>4, <2>6 DEF StackedFor
    <3> QED BY <1>t, <1>1, <3>1, Push
  <2>8. g[p] = h[p] \cup {x}
    BY <1>1, <2>3, <2>5, <2>6, <2>7, HoldingsNext
  <2>9. StackedFor(t)'
    <3>1. /\ <<t, "bsmp">> \notin X
          /\ \A v \in Procs : <<v, "send">> \in X => v = s
          /\ \A v \in Procs : <<v, "hpsend">> \notin X
      BY <2>3
    <3> HIDE DEF X, p, h, g, x, u
    <3> QED BY <1>2, <2>4, <2>5, <2>7, <3>1, StackedWhereUnchanged
  <2> QED BY <2>4, <2>8, <2>9
<1>6. ASSUME HpSend(s, t, size), ~ Send(s, t, size)
      PROVE  OnlyIn(t, X) /\ g[p] = h[p] \cup {x} /\ StackedFor(t)'
  <2> DEFINE q == hpsend_queues[s][t]
             e == [id |-> messages + 1, size |-> size]
  <2>1. hpsend_queues' = [hpsend_queues EXCEPT ![s][t] = Append(q, e)]
    BY <1>1, <1>6 DEF HpSend
  <2>2. queues' = queues
    BY <1>6 DEF HpSend
  <2>3. p = <<s, "hpsend">>
    BY <1>6
  <2>4. OnlyIn(t, X)
    BY <1>t, <1>1, <2>1, <2>2, <2>3 DEF OnlyIn
  <2>5. hpsend_queues'[s][t] = Append(q, e)
    BY <1>t, <2>1
  <2>6. h[p] = Noted(q)
    BY <2>3, HoldingsAre
  <2>7. NotedOnce(Append(q, e)) /\ Noted(Append(q, e)) = Noted(q) \cup {x}
    <3>1. NotedOnce(q) /\ \A m \in Noted(q) : m.id # messages + 1
      BY <1>2, <1>3, <1>4, <2>6 DEF StackedFor
    <3>2. \A j \in DOMAIN q : q[j].id # e.id
      <4> DEFINE m(j) == [id |-> q[j].id, size |-> q[j].size, tagSize |-> tagSize]
      <4>1. \A j \in DOMAIN q : m(j) \in Noted(q) /\ m(j).id = q[j].id
        BY DEF Noted
      <4>2. e.id = messages + 1
        OBVIOUS
      <4> HIDE DEF m, q, e
      <4> QED BY <3>1, <4>1, <4>2
    <3>3. e \in HpEntry /\ q \in Seq(HpEntry)
      BY <1>t, <1>1 DEF HpEntry
    <3>4. x = [id |-> e.id, size |-> e.size, tagSize |-> tagSize]
      OBVIOUS
    <3> HIDE DEF q, e, x
    <3> QED BY <3>1, <3>2, <3>3, <3>4, OneMoreNoted
  <2>8. g[p] = h[p] \cup {x}
    BY <1>1, <2>3, <2>5, <2>6, <2>7, HoldingsNext
  <2>9. StackedFor(t)'
    <3>1. /\ <<t, "bsmp">> \notin X
          /\ \A v \in Procs : <<v, "hpsend">> \in X => v = s
          /\ \A v \in Procs : <<v, "send">> \notin X
      BY <2>3
    <3> HIDE DEF X, p, h, g, x, u, q, e
    <3> QED BY <1>2, <2>4, <2>5, <2>7, <3>1, StackedWhereUnchanged
  <2> QED BY <2>4, <2>8, <2>9
<1>7. OnlyIn(t, X) /\ g[p] = h[p] \cup {x} /\ StackedFor(t)'
  BY <1>5, <1>6
<1>8. \A q \in Places : q # p => g[q] = h[q]
  <2>1. \A q : q # p => q \notin X
    OBVIOUS
  <2> HIDE DEF X, p, x, u
  <2> QED BY <1>7, <2>1, ElsewhereTheSame
<1>9. Holding(t, g, messages + 1, sent[t] \cup {x}, due[t], u)
  <2>1. x.id = messages + 1 /\ u \in BOOLEAN /\ messages \in Nat
    BY <1>1
  <2> HIDE DEF X, p, h, g, x, u
  <2> QED BY <1>2, <1>4, <1>7, <1>8, <2>1, OneIsSent
<1>10. /\ sent'[t] = sent[t] \cup {x} /\ due'[t] = due[t] /\ messages' = messages + 1
       /\ (calls'[t] = Completed') = u
  BY <1>1, SameCompleted
<1>11. HoldingFor(t)'
  <2> HIDE DEF X, p, h, x, u
  <2>1. Holding(t, g, messages', sent'[t], due'[t], (calls'[t] = Completed'))
    BY <1>9, <1>10
  <2> QED BY <2>1 DEF HoldingFor
<1> QED BY <1>7, <1>11
(* A message is delivered: from the place p, it is x. *)
Delivery(s, p, x) ==
  /\ p \in Places /\ p # <<s, "bsmp">>
  /\ OnlyIn(s, {p, <<s, "bsmp">>}) /\ StackedFor(s)'
  /\ Holdings[s][p] = Holdings'[s][p] \cup {x} /\ \A m \in Holdings'[s][p] : m.id # x.id
  /\ Holdings'[s][<<s, "bsmp">>] = Holdings[s][<<s, "bsmp">>] \cup {x}

LEMMA NotYetThere ==
  ASSUME NEW s \in Procs, HoldingFor(s), NEW p \in Places, p # <<s, "bsmp">>, NEW x \in Holdings[s][p]
  PROVE  \A m \in On(bsmp[s]) : m.id # x.id
<1>1. On(bsmp[s]) = Holdings[s][<<s, "bsmp">>] /\ <<s, "bsmp">> \in Places
  BY HoldingsAre, PlacesDiffer
<1>2. \A q, r \in Places : q # r => \A m \in Holdings[s][q], n \in Holdings[s][r] : m.id # n.id
  BY DEF HoldingFor, Holding
<1> QED BY <1>1, <1>2

LEMMA DeliveryOfHp ==
  ASSUME Sound, AllKept, NEW s \in Procs, DeliverHp(s)
  PROVE  \E p, x : Delivery(s, p, x)
<1> DEFINE o == From(s)
           q == hpsend_queues[o][s]
           e == q[Len(q)]
           r == SubSeq(q, 1, Len(q) - 1)
           x == [id |-> e.id, size |-> e.size, tagSize |-> tagSize]
           p == <<o, "hpsend">>
           b == <<s, "bsmp">>
           h == Holdings[s]
           g == Holdings'[s]
<1>t. /\ o \in Procs
      /\ bsmp \in [Procs -> Seq(Byte)] /\ bsmp[s] \in Seq(Byte) /\ tagSize \in Nat
      /\ hpsend_queues \in [Procs -> [Procs -> Seq(HpEntry)]] /\ q \in Seq(HpEntry)
  <2>1. /\ o \in Procs /\ bsmp \in [Procs -> Seq(Byte)] /\ tagSize \in Nat
        /\ hpsend_queues \in [Procs -> [Procs -> Seq(HpEntry)]]
    BY TypesOfState, FromIsAProcess, ConstantFacts DEF Sound
  <2> HIDE DEF o
  <2> QED BY <2>1
<1>1. /\ q # <<>> /\ hpsend_queues' = [hpsend_queues EXCEPT ![o][s] = r]
      /\ bsmp' = [bsmp EXCEPT ![s] = Pushed(bsmp[s], e.id, e.size)]
      /\ UNCHANGED <<tagSize, queues>>
  BY DEF DeliverHp, Pushed, sizeVars
<1>2. StackedFor(s) /\ HoldingFor(s)
  BY DEF AllKept
<1>3. p \in Places /\ p # b
  BY <1>t, PlacesDiffer
<1>4. hpsend_queues'[o][s] = r /\ bsmp'[s] = Pushed(bsmp[s], e.id, e.size)
  BY <1>t, <1>1
<1>5. OnlyIn(s, {p, b})
  BY <1>t, <1>1 DEF OnlyIn
<1>6. /\ e \in HpEntry /\ NotedOnce(r) /\ Noted(q) = Noted(r) \cup {x}
      /\ \A m \in Noted(r) : m.id # e.id
  <2>1. NotedOnce(q)
    BY <1>2, <1>t DEF StackedFor
  <2> QED BY <1>t, <1>1, <2>1, OneLessNoted
<1>7. h[p] = Noted(q) /\ g[p] = Noted(r) /\ h[b] = On(bsmp[s]) /\ g[b] = On(bsmp'[s])
  BY <1>t, <1>1, <1>4, HoldingsAre, HoldingsNext
<1>8. e.id \in Nat /\ e.size \in Nat
  <2>1. MaxMessages \in Nat /\ PayloadSizes \subseteq Nat
    BY ConstantFacts DEF Sound
  <2>2. \A j \in 1 .. MaxMessages : j \in Nat
    BY <2>1
  <2>3. e.id \in 1 .. MaxMessages /\ e.size \in PayloadSizes
    BY <1>6 DEF HpEntry
  <2> HIDE DEF e
  <2> QED BY <2>1, <2>2, <2>3
<1>9. \A m \in On(bsmp[s]) : m.id # e.id
  <2>1. x \in h[p] /\ x.id = e.id
    BY <1>6, <1>7
  <2> HIDE DEF x, p, e
  <2> QED BY <1>2, <1>3, <2>1, NotYetThere
<1>10. Stacked(bsmp'[s]) /\ On(bsmp'[s]) = On(bsmp[s]) \cup {x}
  <2>1. Stacked(bsmp[s])
    BY <1>2 DEF StackedFor
  <2> DEFINE i == e.id
             z == e.size
  <2>2. i \in Nat /\ z \in Nat /\ \A m \in On(bsmp[s]) : m.id # i
    BY <1>8, <1>9
  <2> HIDE DEF i, z
  <2>3. /\ Stacked(Pushed(bsmp[s], i, z))
        /\ On(Pushed(bsmp[s], i, z)) = On(bsmp[s]) \cup {[id |-> i, size |-> z, tagSize |-> tagSize]}
    BY <1>t, <2>1, <2>2, Push
  <2> QED BY <1>4, <2>3 DEF i, z
<1>11. StackedFor(s)'
  <2> DEFINE X == {p, b}
  <2>1. /\ \A v \in Procs : <<v, "send">> \notin X
        /\ \A v \in Procs : <<v, "hpsend">> \in X => v = o
        /\ OnlyIn(s, X)
    BY <1>5
  <2>2. \A v \in Procs : <<v, "hpsend">> \in X => NotedOnce(hpsend_queues'[v][s])
    BY <1>4, <1>6, <2>1
  <2> HIDE DEF X
  <2> QED BY <1>2, <1>10, <2>1, <2>2, StackedWhereUnchanged
<1>12. /\ h[p] = g[p] \cup {x} /\ g[b] = h[b] \cup {x} /\ \A m \in g[p] : m.id # x.id
  BY <1>6, <1>7, <1>10
<1>13. Delivery(s, p, x)
  <2> HIDE DEF x, p
  <2> QED BY <1>3, <1>5, <1>11, <1>12 DEF Delivery
<1> QED BY <1>13

LEMMA DeliveryOfSent ==
  ASSUME Sound, AllKept, NEW s \in Procs, Deliver(s)
  PROVE  \E p, x : Delivery(s, p, x)
<1> DEFINE o == From(s)
           q == queues[o][s]
           i == q[Len(q)].of
           z == q[Len(q)].n
           r == BelowTop(q)
           x == [id |-> i, size |-> z, tagSize |-> tagSize]
           p == <<o, "send">>
           b == <<s, "bsmp">>
           h == Holdings[s]
           g == Holdings'[s]
<1>t. /\ o \in Procs
      /\ bsmp \in [Procs -> Seq(Byte)] /\ bsmp[s] \in Seq(Byte) /\ tagSize \in Nat
      /\ queues \in [Procs -> [Procs -> Seq(Byte)]] /\ q \in Seq(Byte)
  BY TypesOfState, FromIsAProcess, ConstantFacts DEF Sound
<1>0. /\ q # <<>> /\ queues' = [queues EXCEPT ![o][s] = r]
      /\ bsmp' = [bsmp EXCEPT ![s] = bsmp[s] \o TopPayload(q) \o TopTag(q) \o Upper(q, 1)]
      /\ UNCHANGED <<tagSize, hpsend_queues>>
  BY DEF Deliver, sizeVars
<1>2. StackedFor(s) /\ HoldingFor(s)
  BY DEF AllKept
<1>3. p \in Places /\ p # b
  BY <1>t, PlacesDiffer
<1>6. /\ i \in Nat /\ z \in Nat /\ x = MessageAt(q, Len(q))
      /\ TopPayload(q) = Bytes("payload", i, z) /\ TopTag(q) = Bytes("tag", i, tagSize)
      /\ Upper(q, 1) = Length(i, z)
      /\ Stacked(r) /\ On(r) = {m \in On(q) : m.id # i} /\ On(q) = On(r) \cup {x}
  <2>1. Stacked(q)
    BY <1>2, <1>t DEF StackedFor
  <2>2. x = MessageAt(q, Len(q))
    BY DEF MessageAt
  <2> HIDE DEF x
  <2> QED BY <1>t, <1>0, <2>1, <2>2, PopOff
<1>1. bsmp' = [bsmp EXCEPT ![s] = Pushed(bsmp[s], i, z)]
  <2>1. bsmp[s] \o TopPayload(q) \o TopTag(q) \o Upper(q, 1) = Pushed(bsmp[s], i, z)
    BY <1>6, Zenon DEF Pushed
  <2> QED BY <1>0, <2>1, Zenon
<1>4. queues'[o][s] = r /\ bsmp'[s] = Pushed(bsmp[s], i, z)
  BY <1>t, <1>0, <1>1
<1>5. OnlyIn(s, {p, b})
  BY <1>t, <1>0, <1>1 DEF OnlyIn
<1>7. h[p] = On(q) /\ g[p] = On(r) /\ h[b] = On(bsmp[s]) /\ g[b] = On(bsmp'[s])
  BY <1>t, <1>0, <1>4, HoldingsAre, HoldingsNext
<1>9. \A m \in On(bsmp[s]) : m.id # i
  <2>1. x \in h[p] /\ x.id = i
    BY <1>6, <1>7
  <2> HIDE DEF x, p, i
  <2> QED BY <1>2, <1>3, <2>1, NotYetThere
<1>10. Stacked(bsmp'[s]) /\ On(bsmp'[s]) = On(bsmp[s]) \cup {x}
  <2>1. Stacked(bsmp[s])
    BY <1>2 DEF StackedFor
  <2>2. i \in Nat /\ z \in Nat /\ \A m \in On(bsmp[s]) : m.id # i
    BY <1>6, <1>9
  <2> HIDE DEF i, z
  <2>3. /\ Stacked(Pushed(bsmp[s], i, z))
        /\ On(Pushed(bsmp[s], i, z)) = On(bsmp[s]) \cup {[id |-> i, size |-> z, tagSize |-> tagSize]}
    BY <1>t, <2>1, <2>2, Push
  <2> QED BY <1>4, <2>3
<1>11. StackedFor(s)'
  <2> DEFINE X == {p, b}
  <2>1. /\ \A v \in Procs : <<v, "hpsend">> \notin X
        /\ \A v \in Procs : <<v, "send">> \in X => v = o
        /\ OnlyIn(s, X)
    BY <1>5
  <2>2. \A v \in Procs : <<v, "send">> \in X => Stacked(queues'[v][s])
    BY <1>4, <1>6, <2>1
  <2> HIDE DEF X
  <2> QED BY <1>2, <1>10, <2>1, <2>2, StackedWhereUnchanged
<1>12. /\ h[p] = g[p] \cup {x} /\ g[b] = h[b] \cup {x} /\ \A m \in g[p] : m.id # x.id
  BY <1>6, <1>7, <1>10
<1>13. Delivery(s, p, x)
  <2> HIDE DEF x, p
  <2> QED BY <1>3, <1>5, <1>11, <1>12 DEF Delivery
<1> QED BY <1>13

LEMMA DeliveredIsKept ==
  ASSUME Sound, AllKept, NEW s \in Procs, DeliverHp(s) \/ Deliver(s)
  PROVE  StackedFor(s)' /\ HoldingFor(s)'
<1>1. PICK p, x : Delivery(s, p, x)
  BY DeliveryOfHp, DeliveryOfSent
<1> DEFINE h == Holdings[s]
           g == Holdings'[s]
           X == {p, <<s, "bsmp">>}
<1>2. \A q \in Places : q # p /\ q # <<s, "bsmp">> => g[q] = h[q]
  <2>1. OnlyIn(s, X) /\ \A q : q # p /\ q # <<s, "bsmp">> => q \notin X
    BY <1>1 DEF Delivery
  <2> HIDE DEF X
  <2> QED BY <2>1, ElsewhereTheSame
<1>3. /\ UNCHANGED <<sent, due, messages, calls, entered>> /\ Phase(s) = "deliver"
  BY DEF DeliverHp, Deliver, Delivers, historyVars
<1>4. (calls[s] = Completed) = FALSE
  <2>1. calls[s] = Completed + 1 /\ Completed \in 0 .. MaxSupersteps /\ MaxSupersteps \in Nat
    BY <1>3, Phases, CompletedExists, ConstantFacts DEF Sound
  <2>2. Completed + 1 # Completed
    BY <2>1
  <2> QED BY <2>1, <2>2
<1>5. Holding(s, h, messages, sent[s], due[s], FALSE)
  BY <1>4 DEF AllKept, HoldingFor
<1>6. Holding(s, g, messages, sent[s], due[s], FALSE)
  <2>1. /\ p \in Places /\ p # <<s, "bsmp">> /\ h[p] = g[p] \cup {x} /\ \A m \in g[p] : m.id # x.id
        /\ g[<<s, "bsmp">>] = h[<<s, "bsmp">>] \cup {x}
    BY <1>1 DEF Delivery
  <2> HIDE DEF h, g
  <2> QED BY <1>2, <1>5, <2>1, OneIsDelivered
<1>7. (calls'[s] = Completed') = FALSE
  BY <1>3, <1>4, SameCompleted
<1>8. HoldingFor(s)'
  <2>1. Holding(s, Holdings'[s], messages', sent'[s], due'[s], (calls'[s] = Completed'))
    BY <1>3, <1>6, <1>7
  <2> QED BY <2>1 DEF HoldingFor
<1> QED BY <1>1, <1>8 DEF Delivery
(* The program moves a message. *)
LEMMA MovedIsKept ==
  ASSUME Sound, AllKept, NEW s \in Procs, Move(s)
  PROVE  StackedFor(s)' /\ HoldingFor(s)'
<1> DEFINE q == bsmp[s]
           i == q[Len(q)].of
           b == <<s, "bsmp">>
           X == {b}
           h == Holdings[s]
           g == Holdings'[s]
<1>t. bsmp \in [Procs -> Seq(Byte)] /\ q \in Seq(Byte) /\ tagSize \in Nat /\ due \in [Procs -> SUBSET Message]
  BY TypesOfState, ConstantFacts DEF Sound
<1>1. /\ q # <<>> /\ bsmp' = [bsmp EXCEPT ![s] = BelowTop(q)]
      /\ due' = [due EXCEPT ![s] = {m \in due[s] : m.id # i}]
      /\ UNCHANGED <<tagSize, queues, hpsend_queues, calls, entered, messages, sent>> /\ Phase(s) = "compute"
  BY DEF Move, sizeVars, InUserCode
<1>2. StackedFor(s) /\ HoldingFor(s)
  BY DEF AllKept
<1>3. bsmp'[s] = BelowTop(q) /\ due'[s] = {m \in due[s] : m.id # i}
  BY <1>t, <1>1
<1>4. Stacked(BelowTop(q)) /\ On(BelowTop(q)) = {m \in On(q) : m.id # i}
  <2>1. Stacked(q)
    BY <1>2 DEF StackedFor
  <2> QED BY <1>t, <1>1, <2>1, PopOff
<1>5. OnlyIn(s, X)
  BY <1>1 DEF OnlyIn
<1>6. g[b] = {m \in h[b] : m.id # i} /\ \A p \in Places : p # b => g[p] = h[p]
  <2>1. h[b] = On(q) /\ g[b] = On(bsmp'[s])
    BY <1>1, HoldingsAre, HoldingsNext
  <2>2. \A p : p # b => p \notin X
    OBVIOUS
  <2> HIDE DEF X, b, q, i
  <2>3. \A p \in Places : p # b => g[p] = h[p]
    BY <1>5, <2>2, ElsewhereTheSame
  <2> QED BY <1>3, <1>4, <2>1, <2>3
<1>7. StackedFor(s)'
  <2>1. (\A v \in Procs : <<v, "send">> \notin X) /\ (\A v \in Procs : <<v, "hpsend">> \notin X)
    OBVIOUS
  <2> HIDE DEF X
  <2> QED BY <1>2, <1>3, <1>4, <1>5, <2>1, StackedWhereUnchanged
<1>8. (calls[s] = Completed) = TRUE /\ (calls'[s] = Completed') = TRUE
  BY <1>1, Phases, SameCompleted
<1>9. Holding(s, g, messages, sent[s], {m \in due[s] : m.id # i}, TRUE)
  <2>1. Holding(s, h, messages, sent[s], due[s], TRUE)
    BY <1>2, <1>8 DEF HoldingFor
  <2> DEFINE rest == {m \in due[s] : m.id # i}
  <2>2. \A m : m \in rest <=> m \in due[s] /\ m.id # i
    OBVIOUS
  <2>3. \A m : m \in g[b] <=> m \in h[b] /\ m.id # i
    BY <1>6
  <2>4. \A p \in Places : p # <<s, "bsmp">> => g[p] = h[p]
    BY <1>6
  <2> HIDE DEF h, g, i, rest
  <2>5. Holding(s, g, messages, sent[s], rest, TRUE)
    BY <2>1, <2>2, <2>3, <2>4, OneIsMoved
  <2> QED BY <2>5 DEF rest
<1>10. HoldingFor(s)'
  <2>1. Holding(s, Holdings'[s], messages', sent'[s], due'[s], (calls'[s] = Completed'))
    BY <1>1, <1>3, <1>8, <1>9
  <2> QED BY <2>1 DEF HoldingFor
<1> QED BY <1>7, <1>10

LEMMA NothingOnEmpty ==
  /\ Ends(<<>>) = {} /\ Stacked(<<>>) /\ NotedOnce(<<>>) /\ On(<<>>) = {} /\ Noted(<<>>) = {}
  /\ \A size : OnAt(<<>>, size) = {} /\ NotedAt(<<>>, size) = {}
<1>1. DOMAIN <<>> = {} /\ Len(<<>>) = 0
  OBVIOUS
<1>2. Ends(<<>>) = {}
  BY <1>1 DEF Ends
<1> QED BY <1>1, <1>2 DEF Stacked, NotedOnce, On, Noted, OnAt, NotedAt

(* bsp_sync is called. *)
LEMMA CalledIsKept ==
  ASSUME Sound, AllKept, NEW s \in Procs, Call(s)
  PROVE  StackedFor(s)' /\ HoldingFor(s)'
<1> DEFINE b == <<s, "bsmp">>
           X == {b}
           h == Holdings[s]
           g == Holdings'[s]
<1>t. bsmp \in [Procs -> Seq(Byte)] /\ calls \in [Procs -> 0 .. MaxSupersteps] /\ Completed \in Nat
  <2>1. bsmp \in [Procs -> Seq(Byte)] /\ calls \in [Procs -> 0 .. MaxSupersteps]
    BY TypesOfState DEF Sound
  <2>2. Completed \in 0 .. MaxSupersteps /\ MaxSupersteps \in Nat
    BY CompletedExists, ConstantFacts DEF Sound
  <2>3. Completed \in Nat
    BY <2>2
  <2> QED BY <2>1, <2>3
<1>1. /\ bsmp' = [bsmp EXCEPT ![s] = <<>>] /\ calls' = [calls EXCEPT ![s] = calls[s] + 1]
      /\ UNCHANGED <<tagSize, queues, hpsend_queues, entered, messages, sent, due>> /\ Phase(s) = "compute"
  BY DEF Call, sizeVars, historyVars
<1>2. StackedFor(s) /\ HoldingFor(s)
  BY DEF AllKept
<1>3. bsmp'[s] = <<>> /\ calls'[s] = calls[s] + 1
  BY <1>t, <1>1
<1>5. OnlyIn(s, X)
  BY <1>1 DEF OnlyIn
<1>6. g[b] = {} /\ \A p \in Places : p # b => g[p] = h[p]
  <2>1. g[b] = On(bsmp'[s])
    BY <1>1, HoldingsNext
  <2>2. \A p : p # b => p \notin X
    OBVIOUS
  <2> HIDE DEF X, b
  <2>3. \A p \in Places : p # b => g[p] = h[p]
    BY <1>5, <2>2, ElsewhereTheSame
  <2> QED BY <1>3, <2>1, <2>3, NothingOnEmpty
<1>7. StackedFor(s)'
  <2>1. (\A v \in Procs : <<v, "send">> \notin X) /\ (\A v \in Procs : <<v, "hpsend">> \notin X)
    OBVIOUS
  <2> HIDE DEF X
  <2> QED BY <1>2, <1>3, <1>5, <2>1, StackedWhereUnchanged, NothingOnEmpty
<1>8. (calls[s] = Completed) = TRUE /\ (calls'[s] = Completed') = FALSE
  <2>1. calls[s] = Completed /\ Completed' = Completed
    BY <1>1, Phases, SameCompleted
  <2>2. Completed + 1 # Completed
    BY <1>t
  <2> QED BY <1>3, <2>1, <2>2
<1>9. Holding(s, g, messages, sent[s], due[s], FALSE)
  <2>1. Holding(s, h, messages, sent[s], due[s], TRUE)
    BY <1>2, <1>8 DEF HoldingFor
  <2> HIDE DEF h, g
  <2> QED BY <1>6, <2>1, TheRestIsForgotten
<1>10. HoldingFor(s)'
  <2>1. Holding(s, Holdings'[s], messages', sent'[s], due'[s], (calls'[s] = Completed'))
    BY <1>1, <1>8, <1>9
  <2> QED BY <2>1 DEF HoldingFor
<1> QED BY <1>7, <1>10

(* The last process arrives at the last barrier. *)
LEMMA CompletedIsKept ==
  ASSUME Sound, AllKept, QueuesAreEmptied, [Next]_vars, NEW s \in Procs, ArriveEnd(s),
         \A t \in Procs \ {s} : entered[t] >= entered'[s],
         NEW t \in Procs
  PROVE  StackedFor(t)' /\ HoldingFor(t)'
<1> DEFINE h == Holdings[t]
           g == Holdings'[t]
           X == {}
           b == <<t, "bsmp">>
<1>t. Completed \in Nat /\ P \in Nat /\ P > 0
  <2>1. Completed \in 0 .. MaxSupersteps /\ MaxSupersteps \in Nat /\ P \in Nat /\ P > 0
    BY CompletedExists, ConstantFacts DEF Sound
  <2> QED BY <2>1
<1>1. /\ UNCHANGED <<tagSize, queues, hpsend_queues, bsmp, calls, messages>>
      /\ due' = sent /\ sent' = [u \in Procs |-> {}] /\ k[s] = P /\ Phase(s) = "deliver" /\ Arrives(s)
  BY DEF ArriveEnd, sizeVars, queueVars, Arrives
<1>2. /\ Completed' = Completed + 1
      /\ crossed[t] = 3 * Completed + 2 /\ calls[t] = Completed + 1
      /\ t # s => entered[t] = 3 * Completed + 3
  BY <1>1, Arrivals
<1>3. Emptied(t)
  BY AllEmptied
<1>4. k[t] = P
  BY <1>1, <1>2, <1>3 DEF Emptied
<1>5. \A u \in Procs : queues[u][t] = <<>> /\ hpsend_queues[u][t] = <<>>
  <2>1. \A j \in 0 .. P-1 : j < P
    BY <1>t
  <2>2. \A j \in 0 .. P-1 : queues[(j + t) % P][t] = <<>> /\ hpsend_queues[(j + t) % P][t] = <<>>
    BY <1>2, <1>3, <1>4, <2>1 DEF Emptied
  <2>3. \A u \in Procs : \E j \in 0 .. P-1 : (j + t) % P = u
    BY Senders DEF Sound
  <2> QED BY <2>2, <2>3
<1>6. \A q \in Places : q # b => h[q] = {}
  <2> SUFFICES ASSUME NEW q \in Places, q # b
               PROVE  h[q] = {}
    OBVIOUS
  <2>1. q = <<q[1], q[2]>> /\ q[1] \in Procs /\ q[2] \in {"send", "hpsend", "bsmp"}
    BY PlacesAre
  <2>2. q[2] = "bsmp" => q[1] # t
    BY <2>1
  <2>3. h[q] = Kept(t, q)
    BY HoldingsAre
  <2> HIDE DEF h
  <2>4. CASE q[2] = "send"
    BY <1>5, <2>1, <2>3, <2>4, NothingOnEmpty DEF Kept
  <2>5. CASE q[2] = "hpsend"
    BY <1>5, <2>1, <2>3, <2>5, NothingOnEmpty DEF Kept
  <2>6. CASE q[2] = "bsmp"
    BY <2>2, <2>3, <2>6 DEF Kept
  <2> QED BY <2>1, <2>4, <2>5, <2>6
<1>7. OnlyIn(t, X) /\ \A q : q \notin X
  BY <1>1 DEF OnlyIn
<1>8. StackedFor(t) /\ HoldingFor(t)
  BY DEF AllKept
<1>9. StackedFor(t)' /\ \A q \in Places : g[q] = h[q]
  <2> HIDE DEF X
  <2> QED BY <1>7, <1>8, StackedWhereUnchanged, ElsewhereTheSame
<1>10. (calls[t] = Completed) = FALSE /\ (calls'[t] = Completed') = TRUE
  <2>1. Completed + 1 # Completed
    BY <1>t
  <2> QED BY <1>1, <1>2, <2>1
<1>11. Holding(t, g, messages, {}, sent[t], TRUE)
  <2>1. Holding(t, h, messages, sent[t], due[t], FALSE)
    BY <1>8, <1>10 DEF HoldingFor
  <2> HIDE DEF h, g
  <2>2. Holding(t, h, messages, {}, sent[t], TRUE)
    BY <1>6, <2>1, EverythingIsDue
  <2>3. b \in Places
    BY PlacesDiffer
  <2>4. {g[p] : p \in Places \ {b}} = {h[p] : p \in Places \ {b}}
    BY <1>9
  <2> HIDE DEF b
  <2> QED BY <1>9, <2>2, <2>3, <2>4 DEF Holding, b
<1>12. HoldingFor(t)'
  <2>1. sent'[t] = {} /\ due'[t] = sent[t]
    BY <1>1
  <2>2. Holding(t, Holdings'[t], messages', sent'[t], due'[t], (calls'[t] = Completed'))
    BY <1>1, <1>10, <1>11, <2>1
  <2> QED BY <2>2 DEF HoldingFor
<1> QED BY <1>9, <1>12
(* The tag size changes: there are no messages at all. *)
LEMMA NothingOnItsWay ==
  ASSUME Sound, NEW t \in Procs, StackedFor(t), HoldingFor(t), sent[t] = {}, calls[t] # Completed
  PROVE  /\ bsmp[t] = <<>>
         /\ \A u \in Procs : queues[u][t] = <<>> /\ hpsend_queues[u][t] = <<>>
<1> DEFINE h == Holdings[t]
<1>t. /\ queues \in [Procs -> [Procs -> Seq(Byte)]] /\ bsmp \in [Procs -> Seq(Byte)]
      /\ hpsend_queues \in [Procs -> [Procs -> Seq(HpEntry)]]
  BY TypesOfState DEF Sound
<1>1. \A q \in Places : h[q] = {}
  <2>1. {} = UNION {h[q] : q \in Places}
    BY DEF HoldingFor, Holding
  <2> HIDE DEF h
  <2> QED BY <2>1
<1>2. ASSUME NEW q \in Seq(Byte), Stacked(q), On(q) = {}
      PROVE  q = <<>>
  <2>1. Ends(q) = {}
    BY <1>2 DEF On
  <2>2. Len(q) = 0
    BY <1>2, <2>1 DEF Stacked
  <2> QED BY <2>2, EmptySeq
<1>3. ASSUME NEW q \in Seq(HpEntry), Noted(q) = {}
      PROVE  q = <<>>
  <2>1. DOMAIN q = {}
    BY <1>3 DEF Noted
  <2>2. DOMAIN q = 1 .. Len(q) /\ Len(q) \in Nat
    BY LenProperties
  <2>3. Len(q) = 0
    BY <2>1, <2>2
  <2> QED BY <2>3, EmptySeq
<1>4. On(bsmp[t]) = {} /\ \A u \in Procs : On(queues[u][t]) = {} /\ Noted(hpsend_queues[u][t]) = {}
  <2>1. /\ h[<<t, "bsmp">>] = On(bsmp[t])
        /\ \A u \in Procs : h[<<u, "send">>] = On(queues[u][t]) /\ h[<<u, "hpsend">>] = Noted(hpsend_queues[u][t])
    BY HoldingsAre
  <2> HIDE DEF h
  <2> QED BY <1>1, <2>1, PlacesDiffer
<1>5. bsmp[t] = <<>>
  BY <1>t, <1>2, <1>4 DEF StackedFor
<1>6. ASSUME NEW u \in Procs
      PROVE  queues[u][t] = <<>> /\ hpsend_queues[u][t] = <<>>
  <2>1. queues[u][t] \in Seq(Byte) /\ hpsend_queues[u][t] \in Seq(HpEntry) /\ Stacked(queues[u][t])
    BY <1>t DEF StackedFor
  <2> QED BY <1>2, <1>3, <1>4, <2>1
<1> QED BY <1>5, <1>6

NoMessages(t) ==
  /\ bsmp[t] = <<>> /\ \A u \in Procs : queues[u][t] = <<>> /\ hpsend_queues[u][t] = <<>>
  /\ sent[t] = {} /\ (calls[t] = Completed => due[t] = {})

LEMMA KeptWithout ==
  ASSUME NEW t \in Procs, NoMessages(t)
  PROVE  StackedFor(t) /\ HoldingFor(t)
<1>1. StackedFor(t)
  BY NothingOnEmpty DEF StackedFor, NoMessages
<1>2. \A q \in Places : Holdings[t][q] = {}
  <2> SUFFICES ASSUME NEW q \in Places
               PROVE  Holdings[t][q] = {}
    OBVIOUS
  <2>1. q[1] \in Procs /\ q[2] \in {"send", "hpsend", "bsmp"} /\ Holdings[t][q] = Kept(t, q)
    BY PlacesAre, HoldingsAre
  <2>2. CASE q[2] = "send"
    BY <2>1, <2>2, NothingOnEmpty DEF Kept, NoMessages
  <2>3. CASE q[2] = "hpsend"
    BY <2>1, <2>3, NothingOnEmpty DEF Kept, NoMessages
  <2>4. CASE q[2] = "bsmp"
    BY <2>1, <2>4, NothingOnEmpty DEF Kept, NoMessages
  <2> QED BY <2>1, <2>2, <2>3, <2>4
<1> DEFINE h == Holdings[t]
<1>3. HoldingFor(t) <=> Holding(t, h, messages, sent[t], due[t], calls[t] = Completed)
  BY DEF HoldingFor
<1>4. <<t, "bsmp">> \in Places
  BY PlacesDiffer
<1> DEFINE W == IF calls[t] = Completed THEN Places \ {<<t, "bsmp">>} ELSE Places
<1>5. W \subseteq Places
  OBVIOUS
<1> HIDE DEF h
<1>6. \A q \in Places : h[q] = {}
  BY <1>2 DEF h
<1>7. UNION {h[q] : q \in W} = {}
  <2> HIDE DEF W
  <2> QED BY <1>5, <1>6
<1>8. Holding(t, h, messages, sent[t], due[t], calls[t] = Completed)
  BY <1>4, <1>6, <1>7 DEF Holding, NoMessages
<1> QED BY <1>1, <1>3, <1>8

AllWithout == \A t \in Procs : NoMessages(t)
LEMMA AllKeptWithout == AllWithout => AllKept
BY KeptWithout DEF AllWithout, AllKept
LEMMA AllKeptWithoutNext == AllWithout' => AllKept'
BY AllKeptWithout, PTL

LEMMA ResizedIsKept ==
  ASSUME Sound, AllKept, SizesAwaitMessages, [Next]_vars, tagSize' # tagSize
  PROVE  AllKept'
<1>1. ArriveMid(0) /\ 0 \in Procs
  BY TagSizeStep, ConstantFacts DEF Sound
<1>2. /\ UNCHANGED <<queues, hpsend_queues, bsmp, calls, sent>> /\ Phase(0) = "get" /\ Arrives(0)
  BY <1>1 DEF ArriveMid, queueVars, historyVars, Arrives
<1>3. Completed' = Completed
  BY <1>1, <1>2, Arrivals
<1>4. crossed[0] = 3 * Completed + 1
  BY <1>1, <1>2, Phases
<1>5. ASSUME NEW t \in Procs
      PROVE  NoMessages(t)'
  <2>1. sent[t] = {}
    BY ResizedAtRest
  <2>2. crossed[0] <= entered[t]
    BY <1>1 DEF Sound, BarriersInStep
  <2>3. /\ entered[t] \in Nat /\ Completed \in 0 .. MaxSupersteps /\ MaxSupersteps \in Nat
        /\ entered[t] > 3 * Completed => calls[t] = Completed + 1
    BY Positions, ConstantFacts DEF Sound
  <2>4. Completed \in Nat
    BY <2>3
  <2>5. calls[t] = Completed + 1 /\ calls[t] # Completed
    BY <1>4, <2>2, <2>3, <2>4
  <2>6. /\ bsmp[t] = <<>>
        /\ \A u \in Procs : queues[u][t] = <<>> /\ hpsend_queues[u][t] = <<>>
    BY <2>1, <2>5, NothingOnItsWay DEF AllKept
  <2> QED BY <1>2, <1>3, <2>1, <2>5, <2>6 DEF NoMessages
<1> QED BY <1>5, AllKeptWithoutNext DEF AllWithout
(* Every step keeps every message. *)
LEMMA KeptNextIs == AllKept' <=> \A t \in Procs : StackedFor(t)' /\ HoldingFor(t)'
BY DEF AllKept

LEMMA KeptStep ==
  ASSUME Sound, AllKept, SizesAwaitMessages, QueuesAreEmptied, [Next]_vars
  PROVE  AllKept'
<1>0. \A t \in Procs : Untouched(t) => StackedFor(t)' /\ HoldingFor(t)'
  BY StaysKept DEF AllKept
<1>t. /\ queues \in [Procs -> [Procs -> Seq(Byte)]] /\ bsmp \in [Procs -> Seq(Byte)]
      /\ hpsend_queues \in [Procs -> [Procs -> Seq(HpEntry)]]
      /\ sent \in [Procs -> SUBSET Message] /\ due \in [Procs -> SUBSET Message]
      /\ calls \in [Procs -> 0 .. MaxSupersteps]
  BY TypesOfState DEF Sound
<1>1. ASSUME NEW s \in Procs, Step(s), tagSize' = tagSize, NEW t \in Procs
      PROVE  StackedFor(t)' /\ HoldingFor(t)'
  <2>1. ASSUME (\E size \in TagSizes : SetTagSize(s, size)) \/ Check(s) \/ NextQueue(s) \/ Cross(s)
        PROVE  Untouched(t)
    <3>1. UNCHANGED <<queues, hpsend_queues, bsmp, sent, due, messages, calls, entered>>
      BY <2>1 DEF SetTagSize, Check, NextQueue, Cross, Bar!Cross, queueVars, historyVars
    <3> QED BY <1>1, <3>1, SameCompleted DEF Untouched, OnlyIn
  <2>2. ASSUME NEW u \in Procs, NEW size \in PayloadSizes, Send(s, u, size) \/ HpSend(s, u, size), t # u
        PROVE  Untouched(t)
    <3>1. /\ UNCHANGED <<bsmp, due, calls, entered>> /\ messages' = messages + 1
          /\ \E x : sent' = [sent EXCEPT ![u] = x]
          /\ queues' = queues \/ \E x : queues' = [queues EXCEPT ![s][u] = x]
          /\ hpsend_queues' = hpsend_queues \/ \E x : hpsend_queues' = [hpsend_queues EXCEPT ![s][u] = x]
      BY <2>2 DEF Send, HpSend, Sends
    <3>2. sent'[t] = sent[t]
      BY <1>t, <2>2, <3>1
    <3>3. ASSUME NEW v \in Procs
          PROVE  queues'[v][t] = queues[v][t] /\ hpsend_queues'[v][t] = hpsend_queues[v][t]
      <4>1. queues'[v][t] = queues[v][t]
        <5>1. CASE queues' = queues
          BY <5>1
        <5>2. CASE \E x : queues' = [queues EXCEPT ![s][u] = x]
          <6>1. PICK x : queues' = [queues EXCEPT ![s][u] = x]
            BY <5>2, Zenon
          <6>2. queues \in [Procs -> [Procs -> Seq(Byte)]] /\ t # u
            BY <1>t, <2>2
          <6> QED BY <6>1, <6>2
        <5> QED BY <3>1, <5>1, <5>2, Zenon
      <4>2. hpsend_queues'[v][t] = hpsend_queues[v][t]
        <5>1. CASE hpsend_queues' = hpsend_queues
          BY <5>1
        <5>2. CASE \E x : hpsend_queues' = [hpsend_queues EXCEPT ![s][u] = x]
          <6>1. PICK x : hpsend_queues' = [hpsend_queues EXCEPT ![s][u] = x]
            BY <5>2, Zenon
          <6>2. hpsend_queues \in [Procs -> [Procs -> Seq(HpEntry)]] /\ t # u
            BY <1>t, <2>2
          <6> QED BY <6>1, <6>2
        <5> QED BY <3>1, <5>1, <5>2, Zenon
      <4> QED BY <4>1, <4>2
    <3> QED BY <1>1, <3>1, <3>2, <3>3, SameCompleted DEF Untouched, OnlyIn
  <2>3. ASSUME Move(s) \/ Call(s), t # s
        PROVE  Untouched(t)
    <3>1. /\ UNCHANGED <<queues, hpsend_queues, sent, messages, entered>>
          /\ \E x : bsmp' = [bsmp EXCEPT ![s] = x]
          /\ due' = due \/ \E x : due' = [due EXCEPT ![s] = x]
          /\ calls' = calls \/ \E x : calls' = [calls EXCEPT ![s] = x]
      BY <2>3 DEF Move, Call, historyVars
    <3>2. bsmp'[t] = bsmp[t] /\ due'[t] = due[t] /\ calls'[t] = calls[t]
      BY <1>t, <2>3, <3>1
    <3> QED BY <1>1, <3>1, <3>2, SameCompleted DEF Untouched, OnlyIn
  <2>4. ASSUME DeliverHp(s) \/ Deliver(s), t # s
        PROVE  Untouched(t)
    <3>0. From(s) \in Procs
      BY FromIsAProcess DEF Sound
    <3>1. /\ UNCHANGED <<sent, due, messages, calls, entered>>
          /\ \E x : bsmp' = [bsmp EXCEPT ![s] = x]
          /\ queues' = queues \/ \E x : queues' = [queues EXCEPT ![From(s)][s] = x]
          /\ hpsend_queues' = hpsend_queues \/ \E x : hpsend_queues' = [hpsend_queues EXCEPT ![From(s)][s] = x]
      BY <2>4 DEF DeliverHp, Deliver, historyVars
    <3>2. bsmp'[t] = bsmp[t]
      BY <1>t, <2>4, <3>1
    <3>3. ASSUME NEW v \in Procs
          PROVE  queues'[v][t] = queues[v][t] /\ hpsend_queues'[v][t] = hpsend_queues[v][t]
      <4>1. queues'[v][t] = queues[v][t]
        <5>1. CASE queues' = queues
          BY <5>1
        <5>2. CASE \E x : queues' = [queues EXCEPT ![From(s)][s] = x]
          <6>1. PICK x : queues' = [queues EXCEPT ![From(s)][s] = x]
            BY <5>2, Zenon
          <6>2. queues \in [Procs -> [Procs -> Seq(Byte)]] /\ t # s
            BY <1>t, <2>4
          <6> QED BY <3>0, <6>1, <6>2
        <5> QED BY <3>1, <5>1, <5>2, Zenon
      <4>2. hpsend_queues'[v][t] = hpsend_queues[v][t]
        <5>1. CASE hpsend_queues' = hpsend_queues
          BY <5>1
        <5>2. CASE \E x : hpsend_queues' = [hpsend_queues EXCEPT ![From(s)][s] = x]
          <6>1. PICK x : hpsend_queues' = [hpsend_queues EXCEPT ![From(s)][s] = x]
            BY <5>2, Zenon
          <6>2. hpsend_queues \in [Procs -> [Procs -> Seq(HpEntry)]] /\ t # s
            BY <1>t, <2>4
          <6> QED BY <3>0, <6>1, <6>2
        <5> QED BY <3>1, <5>1, <5>2, Zenon
      <4> QED BY <4>1, <4>2
    <3> QED BY <1>1, <3>1, <3>2, <3>3, SameCompleted DEF Untouched, OnlyIn
  <2>5. ASSUME ArriveStart(s) \/ ArriveMid(s)
        PROVE  Untouched(t)
    <3>1. /\ UNCHANGED <<queues, hpsend_queues, bsmp, sent, due, messages, calls>>
          /\ Phase(s) \in {"drain", "get"} /\ Arrives(s)
      BY <2>5 DEF ArriveStart, ArriveMid, Arrives, queueVars, historyVars
    <3>2. Completed' = Completed
      BY <3>1, Arrivals
    <3> QED BY <1>1, <3>1, <3>2 DEF Untouched, OnlyIn
  <2>6. CASE ArriveEnd(s) /\ \A u \in Procs \ {s} : entered[u] >= entered'[s]
    BY <2>6, CompletedIsKept
  <2>7. ASSUME ArriveEnd(s), ~ \A u \in Procs \ {s} : entered[u] >= entered'[s]
        PROVE  Untouched(t)
    <3>1. /\ UNCHANGED <<queues, hpsend_queues, bsmp, sent, due, messages, calls>>
          /\ Phase(s) = "deliver" /\ Arrives(s)
      BY <2>7 DEF ArriveEnd, Arrives, queueVars
    <3>2. Completed' = Completed
      BY <2>7, <3>1, Arrivals
    <3> QED BY <1>1, <3>1, <3>2 DEF Untouched, OnlyIn
  <2>8. CASE \E u \in Procs, size \in PayloadSizes : Send(s, u, size) \/ HpSend(s, u, size)
    <3>1. PICK u \in Procs, size \in PayloadSizes : Send(s, u, size) \/ HpSend(s, u, size)
      BY <2>8
    <3>2. CASE t = u
      BY <3>1, <3>2, SentIsKept
    <3>3. CASE t # u
      BY <1>0, <2>2, <3>1, <3>3
    <3> QED BY <3>2, <3>3
  <2>9. CASE Move(s) \/ Call(s)
    BY <1>0, <2>3, <2>9, MovedIsKept, CalledIsKept
  <2>10. CASE DeliverHp(s) \/ Deliver(s)
    BY <1>0, <2>4, <2>10, DeliveredIsKept
  <2> QED BY <1>0, <1>1, <2>1, <2>5, <2>6, <2>7, <2>8, <2>9, <2>10 DEF Step
<1>2. ASSUME Finished \/ UNCHANGED vars, NEW t \in Procs
      PROVE  StackedFor(t)' /\ HoldingFor(t)'
  <2>1. UNCHANGED <<tagSize, queues, hpsend_queues, bsmp, sent, due, messages, calls, entered>>
    BY <1>2 DEF Finished, vars
  <2>2. Untouched(t)
    BY <2>1, SameCompleted DEF Untouched, OnlyIn
  <2> QED BY <1>0, <2>2
<1>3. CASE tagSize' = tagSize
  BY <1>1, <1>2, <1>3, KeptNextIs DEF Next
<1>4. CASE tagSize' # tagSize
  BY <1>4, ResizedIsKept
<1> QED BY <1>3, <1>4

----
(* What is kept is found. *)
LEMMA KeptIsFound == Sound /\ AllKept => EveryMessageArrivesIntact
<1> SUFFICES ASSUME Sound, AllKept, NEW s \in Procs, Phase(s) = "compute"
             PROVE  /\ {Content(bsmp[s])[j] : j \in DOMAIN Content(bsmp[s])} = {Intact(m) : m \in due[s]}
                    /\ Len(Content(bsmp[s])) = Cardinality(due[s])
  BY DEF EveryMessageArrivesIntact
<1>1. bsmp[s] \in Seq(Byte) /\ tagSize \in Nat
  BY TypesOfState, ConstantFacts DEF Sound
<1>2. Stacked(bsmp[s])
  BY DEF AllKept, StackedFor
<1>3. due[s] = On(bsmp[s])
  <2>1. calls[s] = Completed
    BY Phases
  <2>2. due[s] = Holdings[s][<<s, "bsmp">>]
    BY <2>1 DEF AllKept, HoldingFor, Holding
  <2> QED BY <2>2, HoldingsAre
<1> QED BY <1>1, <1>2, <1>3, ContentOfStack

(* The invariant without its consequence, as one operator. *)
KeptSafely == Sound /\ SizesAreCompared /\ SizesAwaitMessages /\ QueuesAreEmptied /\ AllKept

LEMMA MessagesInvIs == ConstantsOK => (MessagesInv <=> KeptSafely)
<1> SUFFICES ASSUME ConstantsOK
             PROVE  MessagesInv <=> KeptSafely
  OBVIOUS
<1>1. SizesInv <=> Sound /\ SizesAreCompared
  BY SizesInvIs
<1>2. Sound => (MessagesAreKept <=> AllKept)
  BY KeptIs
<1>3. Sound /\ AllKept => EveryMessageArrivesIntact
  BY KeptIsFound
<1> QED BY <1>1, <1>2, <1>3 DEF MessagesInv, KeptSafely

LEMMA InitKeptSafely == ConstantsOK /\ Init => KeptSafely
<1> SUFFICES ASSUME ConstantsOK, Init
             PROVE  KeptSafely
  OBVIOUS
<1>1. Sound /\ SizesAreCompared
  BY InitSound, InitCompared
<1>2. SizesAwaitMessages
  BY DEF Init, SizesAwaitMessages
<1>3. \A t \in Procs : crossed[t] = 0
  BY DEF Init, Bar!Init, Bar!Procs, Procs
<1>4. Completed \in Nat
  <2>1. Completed \in 0 .. MaxSupersteps /\ MaxSupersteps \in Nat
    BY <1>1, CompletedExists, ConstantFacts
  <2> QED BY <2>1
<1>5. QueuesAreEmptied
  <2>1. 0 # 3 * Completed + 2
    BY <1>4
  <2> QED BY <1>3, <2>1 DEF QueuesAreEmptied
<1>6. AllKept
  <2>1. \A t \in Procs : NoMessages(t)
    BY DEF Init, NoMessages
  <2> QED BY <2>1, AllKeptWithout DEF AllWithout
<1> QED BY <1>1, <1>2, <1>5, <1>6 DEF KeptSafely

LEMMA KeptSafelyStep == KeptSafely /\ ResizesWhileSending = FALSE /\ [Next]_vars => KeptSafely'
BY SoundStep, ComparedStep, AwaitStep, EmptiedStep, KeptStep DEF KeptSafely

(* In every superstep a process finds exactly the messages sent to it in
   the one before and not moved since, each once, with its tag and payload,
   provided no superstep both sends and sets another tag size (bsp_send,
   bsp_hpsend, bsp_move and their part of bsp_sync). *)
THEOREM MessagesCorrect ==
  ASSUME ConstantsOK, ResizesWhileSending = FALSE
  PROVE  Spec => []MessagesInv
<1>1. Init => KeptSafely
  BY InitKeptSafely
<1>2. KeptSafely /\ [Next]_vars => KeptSafely'
  BY KeptSafelyStep
<1>3. KeptSafely => MessagesInv
  BY MessagesInvIs
<1> QED BY <1>1, <1>2, <1>3, PTL DEF Spec
====
