---- MODULE Lifo ----
(***************************************************************************)
(* What the stacks of mcutil.c promise: any number of stacks, each of which*)
(* returns what was pushed last and has not been popped, however often the *)
(* memory they live in has been replaced by larger memory.                 *)
(***************************************************************************)
EXTENDS Naturals, Sequences

CONSTANTS Names, Values, None

VARIABLES
  content,          \* content[x]: the stack called x, the bottom first
  answer            \* what the last call returned

Init ==
  /\ content = [x \in Names |-> <<>>]
  /\ answer = None

Top(x) == content[x][Len(content[x])]

Rest(x) == SubSeq(content[x], 1, Len(content[x]) - 1)

Push(x, value) ==
  /\ content' = [content EXCEPT ![x] = Append(@, value)]
  /\ UNCHANGED answer

Peek(x) ==
  /\ answer' = IF content[x] = <<>> THEN None ELSE Top(x)
  /\ UNCHANGED content

Drop(x) ==
  /\ content[x] # <<>>
  /\ content' = [content EXCEPT ![x] = Rest(x)]
  /\ UNCHANGED answer

Pop(x) ==
  /\ content[x] # <<>>
  /\ answer' = Top(x)
  /\ content' = [content EXCEPT ![x] = Rest(x)]

Next ==
  \E x \in Names : Peek(x) \/ Drop(x) \/ Pop(x) \/ \E value \in Values : Push(x, value)

Spec == Init /\ [][Next]_<<content, answer>>
====
