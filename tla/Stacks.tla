---- MODULE Stacks ----
(***************************************************************************)
(* The containers of mcutil.c in their arrays: the address table, which has*)
(* one stack of entries for every global number and process, and the stack *)
(* of items of any size in which messages are kept.  Every array is        *)
(* replaced by a larger one when it is full.                               *)
(*                                                                         *)
(* table_set is called with the table's mutex held; the other functions are*)
(* called in phases of bsp_sync in which nobody sets.  So every call is one*)
(* step.                                                                   *)
(***************************************************************************)
EXTENDS Integers, Sequences, FiniteSets

CONSTANTS
  Globals,          \* global numbers, the table's keys
  Procs,            \* processes, the table's versions
  Entries,          \* what can be registered
  Messages,         \* records [id, size]
  InitialCap,       \* 16 in the code, not 0
  EntrySize,        \* sizeof( struct mcbsp_util_address_table_entry )
  MaxHeight,        \* bound: entries in the whole table, messages in the stack
  None              \* NULL

(* The code asserts that no capacity is 0.                                 *)
InputsAssumption ==
  /\ Globals \subseteq Nat
  /\ InitialCap \in Nat \ {0}
  /\ EntrySize \in Nat
  /\ \A m \in Messages : m.size \in Nat

VARIABLES
  table,            \* [cap, rows]: rows[k][s] is a stack of entries
  bytes,            \* a varstack: [cap, top, array]
  answer,           \* what the last table_get returned
  moved             \* the message last popped from the varstack

vars == <<table, bytes, answer, moved>>

Junk == "junk"

NewStack == [cap |-> InitialCap, top |-> 0, array |-> [k \in 0 .. InitialCap - 1 |-> Junk]]

NewTable ==
  [cap |-> InitialCap,
   rows |-> [k \in 0 .. InitialCap - 1 |-> [s \in Procs |-> NewStack]]]

Init ==
  /\ table = NewTable
  /\ bytes = NewStack
  /\ answer = None
  /\ moved = None
----
(* cap, doubled until it is at least target.                               *)
DoubledTo(cap, target) ==
  LET doubled[c \in Nat \ {0}] == IF c >= target THEN c ELSE doubled[2 * c]
  IN doubled[cap]

(* The stack without its top size elements.  What the array holds above the*)
(* top is never looked at: it counts as junk.                              *)
Cut(stack, size) ==
  [stack EXCEPT !.top = @ - size,
                !.array = [k \in DOMAIN @ |-> IF k < stack.top - size THEN @[k] ELSE Junk]]

(* The array with cap places, and the first top items copied.              *)
Replaced(stack, cap) ==
  [cap |-> cap, top |-> stack.top,
   array |-> [k \in 0 .. cap - 1 |-> IF k < stack.top THEN stack.array[k] ELSE Junk]]

StackGrown(stack, target) == Replaced(stack, DoubledTo(stack.cap, target))

Pushed(stack, item) ==
  LET room == IF stack.top >= stack.cap THEN StackGrown(stack, stack.top + 1) ELSE stack
  IN [room EXCEPT !.array[room.top] = item, !.top = @ + 1]
----
(* Faulty variant: the stacks of the old rows start empty again.           *)
TableGrownEmpty(key) ==
  LET cap == DoubledTo(table.cap, key + 1)
  IN [cap |-> cap, rows |-> [k \in 0 .. cap - 1 |-> [s \in Procs |-> NewStack]]]

(* address_table_grow: the stacks themselves are moved, not copied.        *)
TableGrown(key) ==
  LET cap == DoubledTo(table.cap, key + 1)
  IN [cap |-> cap,
      rows |-> [k \in 0 .. cap - 1 |->
                  IF k < table.cap THEN table.rows[k] ELSE [s \in Procs |-> NewStack]]]

(* address_table_setsize                                                   *)
Sized(key) == IF table.cap > key THEN table ELSE TableGrown(key)

Height == LET filled == {ks \in (0 .. table.cap - 1) \X Procs : table.rows[ks[1]][ks[2]].top > 0}
          IN Cardinality({ksh \in filled \X (1 .. MaxHeight) :
                            ksh[2] <= table.rows[ksh[1][1]][ksh[1][2]].top})

(* address_table_set.  It compares the capacity of the stack with the size *)
(* of an entry, instead of with the number of entries.                     *)
TableSet(k, s, entry) ==
  /\ Height < MaxHeight
  /\ LET sized == Sized(k)
         stack == sized.rows[k][s]
         room == IF stack.cap <= EntrySize THEN StackGrown(stack, EntrySize + 1) ELSE stack
     IN table' = [sized EXCEPT !.rows[k][s] = Pushed(room, entry)]
  /\ UNCHANGED <<bytes, answer, moved>>

(* address_table_get, of a number that was set before.                     *)
TableGet(k, s) ==
  /\ k < table.cap
  /\ LET stack == table.rows[k][s]
     IN answer' = IF stack.top = 0 THEN None ELSE stack.array[stack.top - 1]
  /\ UNCHANGED <<table, bytes, moved>>

(* address_table_delete, of an entry that is there.                        *)
TableDelete(k, s) ==
  /\ k < table.cap
  /\ table.rows[k][s].top > 0
  /\ table' = [table EXCEPT !.rows[k][s] = Cut(@, 1)]
  /\ UNCHANGED <<bytes, answer, moved>>
----
(* varstack_grow: doubled once, or as much as is needed.                   *)
VarGrown(stack, requested) ==
  Replaced(stack, IF 2 * stack.cap < requested THEN requested ELSE 2 * stack.cap)

(* varstack_push and varstack_pop of several bytes.                        *)
VarPushed(stack, item) ==
  LET room == IF stack.top + Len(item) > stack.cap
                THEN VarGrown(stack, stack.top + Len(item)) ELSE stack
  IN [room EXCEPT !.top = @ + Len(item),
                  !.array = [k \in DOMAIN @ |->
                     IF k - room.top \in 0 .. Len(item) - 1 THEN item[k - room.top + 1] ELSE @[k]]]

TopBytes(stack, size) == [j \in 1 .. size |-> stack.array[stack.top - size + j - 1]]

Payload(message) == [j \in 1 .. message.size |-> <<message.id, j>>]

MessageOf(payload) == CHOOSE m \in Messages : Payload(m) = payload

Header(message) == <<<<"size", message.size>>>>

(* A message goes onto the stack with its size above it ...                *)
PushMessage(message) ==
  /\ Cardinality({k \in 0 .. bytes.top - 1 : bytes.array[k][1] = "size"}) < MaxHeight
  /\ bytes' = VarPushed(VarPushed(bytes, Payload(message)), Header(message))
  /\ UNCHANGED <<table, answer, moved>>

(* ... so that the size says how much to take off.                         *)
PopMessage ==
  /\ bytes.top > 0
  /\ LET size == TopBytes(bytes, 1)[1][2]
         rest == Cut(bytes, 1)
         payload == TopBytes(rest, size)
     IN /\ moved' = IF \E m \in Messages : Payload(m) = payload
                      THEN MessageOf(payload) ELSE Junk
        /\ bytes' = Cut(rest, size)
  /\ UNCHANGED <<table, answer>>

TableNext ==
  \E k \in Globals, s \in Procs :
    TableGet(k, s) \/ TableDelete(k, s) \/ \E entry \in Entries : TableSet(k, s, entry)

MessageNext == PopMessage \/ \E message \in Messages : PushMessage(message)

Next == TableNext \/ MessageNext

Spec == Init /\ [][Next]_vars
----
(* The stacks as sequences.                                                *)
EntriesOf(ks) ==
  IF ks[1] >= table.cap THEN <<>>
  ELSE LET stack == table.rows[ks[1]][ks[2]]
       IN [h \in 1 .. stack.top |-> stack.array[h - 1]]

(* The messages below the byte at top, the bottom first: the size says     *)
(* where the rest ends.                                                    *)
MessagesIn(stack) ==
  LET below[top \in 0 .. stack.top] ==
        LET rest == top - 1 - stack.array[top - 1][2]
        IN IF top > 0 /\ rest \in 0 .. top - 1
             THEN Append(below[rest],
                         MessageOf([j \in 1 .. top - 1 - rest |-> stack.array[rest + j - 1]]))
             ELSE <<>>
  IN below[stack.top]

TableLifo == INSTANCE Lifo WITH
  Names <- Globals \X Procs, Values <- Entries,
  content <- [ks \in Globals \X Procs |-> EntriesOf(ks)]

MessageLifo == INSTANCE Lifo WITH
  Names <- {"bsmp"}, Values <- Messages,
  content <- [x \in {"bsmp"} |-> MessagesIn(bytes)], answer <- moved

(* However the arrays grow, a registration is found with the number and the*)
(* process it was made for and the latest first, and a message is moved    *)
(* with all its bytes.                                                     *)
ImplementsLifos == TableLifo!Spec /\ MessageLifo!Spec
====
