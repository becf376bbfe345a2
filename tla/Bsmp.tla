---- MODULE Bsmp ----
(***************************************************************************)
(* Message passing in MulticoreBSP for C (bsp.c): bsp_send, bsp_hpsend,    *)
(* bsp_set_tagsize, bsp_move, and their part of bsp_sync.  Messages travel *)
(* on untyped stacks of bytes: first the payload, then the tag, then the   *)
(* payload's length.  The size of the tag is not on the stack: whoever     *)
(* takes a message off uses the tag size that is current then.  The        *)
(* barriers are those of module Barrier.                                   *)
(***************************************************************************)
EXTENDS Integers, Sequences, FiniteSets

CONSTANTS
  P,                \* number of BSP processes (init->P)
  TagSizes,         \* tag sizes the program may ask for
  PayloadSizes,     \* payload sizes of its messages
  Primitives,       \* which of "send" and "hpsend" the program uses
  ResizesWhileSending, \* may a superstep both set the tag size and send?
  MaxSupersteps,    \* bound: how many times a process calls bsp_sync
  MaxMessages       \* bound: messages sent by the whole program

(* What the constants are.                                                 *)
ConstantsOK ==
  /\ P \in Nat \ {0}
  /\ {MaxSupersteps, MaxMessages} \cup TagSizes \cup PayloadSizes \subseteq Nat

Procs == 0 .. P-1

VARIABLES
  tagSize,          \* init->tagSize, shared
  newTagSize,       \* newTagSize[s]: what s last asked for
  queues,           \* queues[s][t]: the bytes s has for t
  hpsend_queues,    \* hpsend_queues[s][t]: addresses and sizes only
  bsmp,             \* bsmp[t]: the bytes delivered to t
  calls,            \* how many times each process called bsp_sync
  k,                \* the loop variable k of the delivery loop (local)
  checked,          \* checked[s]: s has compared the tag sizes in this call
  fatal,            \* somebody called mcbsp_util_fatal: the program is over
  entered,          \* of the barriers: arrivals of each process
  crossed,          \* of the barriers: departures of each process
  messages,         \* how many messages were sent
  sent,             \* history: sent[t]: messages for t in this superstep
  due               \* history: due[t]: messages t has not yet moved

queueVars == <<queues, hpsend_queues, bsmp>>
sizeVars == <<tagSize, newTagSize>>
historyVars == <<messages, sent, due>>
vars == <<tagSize, newTagSize, queues, hpsend_queues, bsmp, calls, k, checked,
          fatal, entered, crossed, messages, sent, due>>

Bar == INSTANCE Barrier

Phase(s) ==
  IF fatal THEN "over"
  ELSE IF crossed[s] # entered[s] THEN "waiting"
  ELSE IF crossed[s] = 3 * calls[s] THEN "compute"
  ELSE CASE crossed[s] % 3 = 0 -> "drain"
         [] crossed[s] % 3 = 1 -> "get"
         [] crossed[s] % 3 = 2 -> "deliver"

(* A byte is known by what it is part of.  A length takes one place.       *)
Bytes(part, id, size) == [j \in 1 .. size |-> [part |-> part, of |-> id, n |-> j]]
Length(id, size) == <<[part |-> "length", of |-> id, n |-> size]>>

(* The uppermost size bytes of a stack, and what is below them.            *)
Upper(q, size) == SubSeq(q, Len(q) - size + 1, Len(q))
Lower(q, size) == SubSeq(q, 1, Len(q) - size)

(* The message on top of a stack, as it looks with the current tag size.   *)
TopSize(q) == q[Len(q)].n
TopTag(q) == Upper(Lower(q, 1), tagSize)
TopPayload(q) == Upper(Lower(q, 1 + tagSize), TopSize(q))
BelowTop(q) == Lower(q, 1 + tagSize + TopSize(q))

(* The stack does not end in a message of this form at all.                *)
Unreadable(q) == q[Len(q)].part # "length" \/ Len(q) < 1 + tagSize + TopSize(q)

Byte == [part : {"payload", "tag", "length"}, of : Nat, n : Nat]
Message == [id : 1 .. MaxMessages, size : PayloadSizes, tagSize : TagSizes \cup {0}]

TypeOK ==
  /\ tagSize \in TagSizes \cup {0}
  /\ newTagSize \in [Procs -> TagSizes \cup {0}]
  /\ queues \in [Procs -> [Procs -> Seq(Byte)]]
  /\ hpsend_queues \in [Procs -> [Procs -> Seq([id : 1 .. MaxMessages, size : PayloadSizes])]]
  /\ bsmp \in [Procs -> Seq(Byte)]
  /\ calls \in [Procs -> 0 .. MaxSupersteps]
  /\ k \in [Procs -> 0 .. P]
  /\ checked \in [Procs -> BOOLEAN]
  /\ fatal \in BOOLEAN
  /\ Bar!TypeOK
  /\ messages \in 0 .. MaxMessages
  /\ sent \in [Procs -> SUBSET Message]
  /\ due \in [Procs -> SUBSET Message]

Init ==
  /\ tagSize = 0
  /\ newTagSize = [s \in Procs |-> 0]
  /\ queues = [s \in Procs |-> [t \in Procs |-> <<>>]]
  /\ hpsend_queues = [s \in Procs |-> [t \in Procs |-> <<>>]]
  /\ bsmp = [s \in Procs |-> <<>>]
  /\ calls = [s \in Procs |-> 0]
  /\ k = [s \in Procs |-> 0]
  /\ checked = [s \in Procs |-> FALSE]
  /\ fatal = FALSE
  /\ Bar!Init
  /\ messages = 0
  /\ sent = [s \in Procs |-> {}]
  /\ due = [s \in Procs |-> {}]

InUserCode(s) == Phase(s) = "compute" /\ calls[s] < MaxSupersteps

(* The program sends a message, unless it sets the tag size instead.       *)
Sends(s, t, size) ==
  /\ InUserCode(s)
  /\ messages < MaxMessages
  /\ ResizesWhileSending \/ \A u \in Procs : newTagSize[u] = tagSize
  /\ messages' = messages + 1
  /\ sent' = [sent EXCEPT ![t] = @ \cup {[id |-> messages', size |-> size, tagSize |-> tagSize]}]
----
(* Faulty variants.                                                        *)

(* Process 0 makes its tag size current when it calls bsp_sync.            *)
CallAndResize(s) ==
  /\ Phase(s) = "compute"
  /\ calls[s] < MaxSupersteps
  /\ calls' = [calls EXCEPT ![s] = @ + 1]
  /\ bsmp' = [bsmp EXCEPT ![s] = <<>>]
  /\ checked' = [checked EXCEPT ![s] = FALSE]
  /\ tagSize' = IF s = 0 THEN newTagSize[0] ELSE tagSize
  /\ UNCHANGED <<newTagSize, queues, hpsend_queues, k, fatal, entered, crossed, historyVars>>

(* Messages not moved in the last superstep are kept.                      *)
CallAndKeep(s) ==
  /\ Phase(s) = "compute"
  /\ calls[s] < MaxSupersteps
  /\ calls' = [calls EXCEPT ![s] = @ + 1]
  /\ checked' = [checked EXCEPT ![s] = FALSE]
  /\ UNCHANGED <<sizeVars, queueVars, k, fatal, entered, crossed, historyVars>>

(* The tag sizes are not compared.                                         *)
CheckNothing(s) ==
  /\ Phase(s) = "deliver"
  /\ ~ checked[s]
  /\ checked' = [checked EXCEPT ![s] = TRUE]
  /\ UNCHANGED <<sizeVars, queueVars, calls, k, fatal, entered, crossed, historyVars>>

----
(* bsp_set_tagsize.                                                        *)
SetTagSize(s, size) ==
  /\ InUserCode(s)
  /\ ResizesWhileSending \/ \A t \in Procs : sent[t] = {}
  /\ newTagSize' = [newTagSize EXCEPT ![s] = size]
  /\ UNCHANGED <<tagSize, queueVars, calls, k, checked, fatal, entered, crossed, historyVars>>

(* bsp_send: payload, tag and length are copied into the queue.            *)
Send(s, t, size) ==
  /\ "send" \in Primitives
  /\ Sends(s, t, size)
  /\ queues' = [queues EXCEPT ![s][t] =
       @ \o Bytes("payload", messages', size) \o Bytes("tag", messages', tagSize)
         \o Length(messages', size)]
  /\ UNCHANGED <<sizeVars, hpsend_queues, bsmp, calls, k, checked, fatal, entered, crossed, due>>

(* bsp_hpsend: only the addresses are, and the length.                     *)
HpSend(s, t, size) ==
  /\ "hpsend" \in Primitives
  /\ Sends(s, t, size)
  /\ hpsend_queues' = [hpsend_queues EXCEPT ![s][t] =
       Append(@, [id |-> messages', size |-> size])]
  /\ UNCHANGED <<sizeVars, queues, bsmp, calls, k, checked, fatal, entered, crossed, due>>

(* bsp_move or bsp_hpmove: take the message on top.                        *)
Move(s) ==
  /\ InUserCode(s)
  /\ bsmp[s] # <<>>
  /\ ~ Unreadable(bsmp[s])
  /\ bsmp' = [bsmp EXCEPT ![s] = BelowTop(@)]
  /\ due' = [due EXCEPT ![s] = {m \in @ : m.id # bsmp[s][Len(bsmp[s])].of}]
  /\ UNCHANGED <<sizeVars, queues, hpsend_queues, calls, k, checked, fatal,
                 entered, crossed, messages, sent>>

(* bsp_sync is called: what was not moved is forgotten.                    *)
Call(s) ==
  /\ Phase(s) = "compute"
  /\ calls[s] < MaxSupersteps
  /\ calls' = [calls EXCEPT ![s] = @ + 1]
  /\ bsmp' = [bsmp EXCEPT ![s] = <<>>]
  /\ checked' = [checked EXCEPT ![s] = FALSE]
  /\ UNCHANGED <<sizeVars, queues, hpsend_queues, k, fatal, entered, crossed, historyVars>>

ArriveStart(s) ==
  /\ Phase(s) = "drain"
  /\ Bar!Arrive(s)
  /\ UNCHANGED <<sizeVars, queueVars, calls, k, checked, fatal, historyVars>>

(* Between the first two barriers process 0 makes its tag size current.    *)
ArriveMid(s) ==
  /\ Phase(s) = "get"
  /\ tagSize' = IF s = 0 THEN newTagSize[0] ELSE tagSize
  /\ Bar!Arrive(s)
  /\ UNCHANGED <<newTagSize, queueVars, calls, k, checked, fatal, historyVars>>

(* After the second everybody compares it with what it asked for itself.   *)
Check(s) ==
  /\ Phase(s) = "deliver"
  /\ ~ checked[s]
  /\ checked' = [checked EXCEPT ![s] = TRUE]
  /\ fatal' = (newTagSize[s] # tagSize)
  /\ UNCHANGED <<sizeVars, queueVars, calls, k, entered, crossed, historyVars>>

From(s) == (k[s] + s) % P

Delivers(s) == Phase(s) = "deliver" /\ checked[s] /\ k[s] < P

(* From each sender, the hpsend queue first: payload and tag are copied    *)
(* from the sender's own memory.                                           *)
DeliverHp(s) ==
  /\ Delivers(s)
  /\ LET q == hpsend_queues[From(s)][s]
     IN /\ q # <<>>
        /\ hpsend_queues' = [hpsend_queues EXCEPT ![From(s)][s] = SubSeq(q, 1, Len(q) - 1)]
        /\ bsmp' = [bsmp EXCEPT ![s] =
             @ \o Bytes("payload", q[Len(q)].id, q[Len(q)].size)
               \o Bytes("tag", q[Len(q)].id, tagSize)
               \o Length(q[Len(q)].id, q[Len(q)].size)]
  /\ UNCHANGED <<sizeVars, queues, calls, k, checked, fatal, entered, crossed, historyVars>>

(* Then the messages on the queue, newest first.                           *)
Deliver(s) ==
  /\ Delivers(s)
  /\ hpsend_queues[From(s)][s] = <<>>
  /\ LET q == queues[From(s)][s]
     IN /\ q # <<>>
        /\ ~ Unreadable(q)
        /\ queues' = [queues EXCEPT ![From(s)][s] = BelowTop(q)]
        /\ bsmp' = [bsmp EXCEPT ![s] = @ \o TopPayload(q) \o TopTag(q) \o Upper(q, 1)]
  /\ UNCHANGED <<sizeVars, hpsend_queues, calls, k, checked, fatal, entered, crossed, historyVars>>

NextQueue(s) ==
  /\ Delivers(s)
  /\ hpsend_queues[From(s)][s] = <<>>
  /\ queues[From(s)][s] = <<>>
  /\ k' = [k EXCEPT ![s] = @ + 1]
  /\ UNCHANGED <<sizeVars, queueVars, calls, checked, fatal, entered, crossed, historyVars>>

(* (The last to arrive ends the synchronisation: what was sent is due.)    *)
ArriveEnd(s) ==
  /\ Phase(s) = "deliver"
  /\ k[s] = P
  /\ Bar!Arrive(s)
  /\ IF \A t \in Procs \ {s} : entered[t] >= entered'[s]
       THEN due' = sent /\ sent' = [t \in Procs |-> {}]
       ELSE UNCHANGED <<sent, due>>
  /\ UNCHANGED <<sizeVars, queueVars, calls, k, checked, fatal, messages>>

Cross(s) ==
  /\ ~ fatal
  /\ Bar!Cross(s)
  /\ k' = [k EXCEPT ![s] = 0]
  /\ UNCHANGED <<sizeVars, queueVars, calls, checked, fatal, historyVars>>

(* The end of a bounded behaviour, or of the program.                      *)
Finished ==
  /\ \/ fatal
     \/ \A s \in Procs : Phase(s) = "compute" /\ calls[s] = MaxSupersteps
  /\ UNCHANGED vars

Step(s) ==
  \/ \E size \in TagSizes : SetTagSize(s, size)
  \/ \E t \in Procs, size \in PayloadSizes : Send(s, t, size) \/ HpSend(s, t, size)
  \/ Move(s) \/ Call(s) \/ ArriveStart(s) \/ ArriveMid(s) \/ Check(s)
  \/ DeliverHp(s) \/ Deliver(s) \/ NextQueue(s) \/ ArriveEnd(s) \/ Cross(s)

Next == (\E s \in Procs : Step(s)) \/ Finished

Spec == Init /\ [][Next]_vars
----
(* The messages a stack holds, from the bottom up to its i-th place, as the*)
(* loop of bsp_qsize finds them.                                           *)
Content(stack) ==
  LET messagesUpTo[i \in 0 .. Len(stack)] ==
        LET q == SubSeq(stack, 1, i)
        IN IF i = 0 THEN <<>>
           ELSE IF Unreadable(q) THEN <<"unreadable">>
           ELSE Append(messagesUpTo[Len(BelowTop(q))],
                       <<TopPayload(q), TopTag(q), TopSize(q)>>)
  IN messagesUpTo[Len(stack)]

Intact(m) == <<Bytes("payload", m.id, m.size), Bytes("tag", m.id, m.tagSize), m.size>>

(* In user code a process finds exactly the messages sent to it in the     *)
(* previous superstep and not moved since, each once, with its own tag and *)
(* payload: "messages will be available at the destination thread in the   *)
(* next superstep" (bsp.h, bsp_send), sent with the tag size that was valid*)
(* then (bsp.h, bsp_set_tagsize).                                          *)
EveryMessageArrivesIntact ==
  \A s \in Procs :
    Phase(s) = "compute" =>
      LET found == Content(bsmp[s])
      IN /\ {found[j] : j \in DOMAIN found} = {Intact(m) : m \in due[s]}
         /\ Len(found) = Cardinality(due[s])

(* Every call of bsp_sync goes through three barriers, and no process is   *)
(* ahead of another by more than the barrier it waits at.                  *)
BarriersInStep ==
  /\ \A s \in Procs :
       /\ crossed[s] <= entered[s] /\ entered[s] <= crossed[s] + 1
       /\ entered[s] <= 3 * calls[s] /\ 3 * calls[s] <= crossed[s] + 3
  /\ \A s, t \in Procs : crossed[s] <= entered[t]

(* The synchronisations everybody has completed, up to the last barrier.   *)
Completed == CHOOSE d \in 0 .. MaxSupersteps :
  /\ \A s \in Procs : entered[s] >= 3 * d
  /\ \E s \in Procs : entered[s] < 3 * (d + 1)

(* Who delivers, or waits for the others to, has compared the tag sizes;   *)
(* the size it asked for stays the current one.                            *)
SizesAreCompared ==
  \A s \in Procs :
    /\ crossed[s] + 1 < 3 * calls[s] => ~ checked[s]
    /\ crossed[s] + 1 = 3 * calls[s] =>
         /\ k[s] > 0 \/ entered[s] = 3 * calls[s] => checked[s]
         /\ checked[s] /\ ~ fatal => newTagSize[s] = tagSize

(* No other size is asked for while messages are on their way.             *)
SizesAwaitMessages == (\E t \in Procs : sent[t] # {}) => \A s \in Procs : newTagSize[s] = tagSize

(* While t delivers, the queues it is through with are empty.              *)
QueuesAreEmptied ==
  \A t \in Procs : calls[t] = Completed + 1 /\ crossed[t] = 3 * Completed + 2 =>
    /\ \A j \in 0 .. P-1 : j < k[t] =>
         queues[(j + t) % P][t] = <<>> /\ hpsend_queues[(j + t) % P][t] = <<>>
    /\ entered[t] = 3 * Completed + 3 => k[t] = P

(* A stack is made of whole messages with the current tag size: each ends  *)
(* in its length, and right below it ends another, or nothing is.          *)
Ends(q) == {e \in DOMAIN q : q[e].part = "length"}
MessageAt(q, e) == [id |-> q[e].of, size |-> q[e].n, tagSize |-> tagSize]

IsWhole(q) ==
  /\ ~ Unreadable(q)
  /\ <<TopPayload(q), TopTag(q), TopSize(q)>> = Intact(MessageAt(q, Len(q)))

StackOfMessages(q) ==
  /\ Len(q) \in Ends(q) \cup {0}
  /\ \A e \in Ends(q) :
       /\ IsWhole(SubSeq(q, 1, e))
       /\ Len(BelowTop(SubSeq(q, 1, e))) \in Ends(q) \cup {0}
  /\ \A d, e \in Ends(q) : q[d].of = q[e].of => d = e

(* Where messages for t are: with the senders, and with t itself.          *)
On(stack) == {MessageAt(stack, e) : e \in Ends(stack)}
Noted(q) == {[id |-> q[j].id, size |-> q[j].size, tagSize |-> tagSize] : j \in DOMAIN q}
Places == Procs \X {"send", "hpsend", "bsmp"}
Kept(t, place) ==
  CASE place[2] = "send" -> On(queues[place[1]][t])
    [] place[2] = "hpsend" -> Noted(hpsend_queues[place[1]][t])
    [] place[2] = "bsmp" -> IF place[1] = t THEN On(bsmp[t]) ELSE {}

(* What is sent to t in this superstep is in one of the queues; from the   *)
(* call of bsp_sync on that is so for what t has already, too; before, t   *)
(* has what is due.                                                        *)
MessagesAreKept ==
  \A t \in Procs :
    /\ StackOfMessages(bsmp[t]) /\ \A s \in Procs : StackOfMessages(queues[s][t])
    /\ \A s \in Procs : \A d, e \in DOMAIN hpsend_queues[s][t] :
         hpsend_queues[s][t][d].id = hpsend_queues[s][t][e].id => d = e
    /\ \A p, q \in Places : p # q => \A m \in Kept(t, p), n \in Kept(t, q) : m.id # n.id
    /\ \A p \in Places : \A m \in Kept(t, p) : m.id <= messages
    /\ sent[t] = UNION {Kept(t, p) : p \in
         IF calls[t] = Completed THEN Places \ {<<t, "bsmp">>} ELSE Places}
    /\ calls[t] = Completed => due[t] = On(bsmp[t])

SizesInv == TypeOK /\ BarriersInStep /\ SizesAreCompared

MessagesInv ==
  /\ SizesInv /\ SizesAwaitMessages /\ QueuesAreEmptied /\ MessagesAreKept
  /\ EveryMessageArrivesIntact

(* The shared tag size is read without a lock by whoever sends, moves or   *)
(* delivers: it never changes while anybody may do so.                     *)
TagSizeRestsWhileUsed ==
  [][tagSize' # tagSize =>
       \A s \in Procs : Phase(s) \notin {"compute", "drain", "deliver"}]_vars

(* Nobody returns from a bsp_sync before which processes asked for         *)
(* different tag sizes.                                                    *)
DisagreementIsFatal ==
  [][\A s \in Procs :
       crossed'[s] # crossed[s] /\ crossed'[s] % 3 = 0
         => \A t \in Procs : crossed[t] = crossed[s] => newTagSize[t] = tagSize]_vars
====
