----------------------------- MODULE BoundedQueue -----------------------------
(****************************************************************************)
(* What the bounded buffer of CS24/cs24hw7 promises the program built on    *)
(* it: a queue of at most Length elements, into which every producer puts   *)
(* its numbers in order and out of which each is taken once, first in first *)
(* out.                                                                     *)
(****************************************************************************)
EXTENDS Integers, Sequences

CONSTANTS Producers, Consumers, Length, Modulus,
          NoElement     \* what a consumer holds before it took anything

VARIABLES queue,    \* the elements put and not yet taken, oldest first
          next,     \* the number each producer puts next
          taken     \* the element each consumer took last

queueVars == <<queue, next, taken>>

QueueInit ==
    /\ queue = <<>>
    /\ next = [p \in Producers |-> 0]
    /\ taken = [c \in Consumers |-> NoElement]

Put(p) ==
    /\ Len(queue) < Length
    /\ queue' = Append(queue, [id |-> p, arg |-> next[p]])
    /\ next' = [next EXCEPT ![p] = (@ + 1) % Modulus]
    /\ UNCHANGED taken

Take(c) ==
    /\ queue # <<>>
    /\ taken' = [taken EXCEPT ![c] = Head(queue)]
    /\ queue' = Tail(queue)
    /\ UNCHANGED next

QueueNext == (\E p \in Producers : Put(p)) \/ (\E c \in Consumers : Take(c))

QueueSpec == QueueInit /\ [][QueueNext]_queueVars
=============================================================================
