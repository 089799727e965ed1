------------------------------- MODULE FibTest -------------------------------
(****************************************************************************)
(* CS24/cs24hw7/fibtest.c: producers that put the numbers fib(0), fib(1),   *)
(* ... modulo FIB_MODULUS of them into one bounded buffer, and consumers    *)
(* that take and check them, under the preemptive scheduler.  fib is a pure *)
(* function of elem.arg, so the pair of producer and arg stands for the     *)
(* element.                                                                 *)
(****************************************************************************)
EXTENDS BoundedBuffer

CONSTANTS Producers, Consumers, Modulus

ASSUME FibAssumption ==
    /\ Producers \cup Consumers = Thread
    /\ Producers \cap Consumers = {}
    /\ Modulus \in Nat \ {0}
    /\ "advance" \in ClientOps

VARIABLE i      \* the local i of each producer

fibVars == <<threadVars, semaphoreVars, bufferVars, i>>

FibInit ==
    /\ SemInit
    /\ new_bounded_buffer
    /\ elem = [t \in Thread |-> emptySlot]
    /\ i = [p \in Producers |-> 0]

Produce(p) ==
    /\ current = p
    /\ Call(bounded_buffer_add \o << <<"advance">> >>)
    /\ elem' = [elem EXCEPT ![p] = [id |-> p, arg |-> i[p]]]
    /\ UNCHANGED <<semaphoreVars, buffer, first, count, i>>

AdvanceI ==
    /\ Statement("advance")
    /\ i' = [i EXCEPT ![current] = (@ + 1) % Modulus]
    /\ UNCHANGED bufferVars

Consume(c) ==
    /\ current = c
    /\ Call(bounded_buffer_take)
    /\ UNCHANGED <<semaphoreVars, bufferVars, i>>

(* main creates the producers before the consumers. *)
ProducersFirst ==
    (\E c \in Consumers : state[c] # "none")
        => \A p \in Producers : state[p] # "none"

FibRun ==
    \/ Run /\ ProducersFirst' /\ UNCHANGED <<semaphoreVars, bufferVars, i>>
    \/ SemaphoreStep /\ UNCHANGED <<bufferVars, i>>
    \/ BufferStep /\ UNCHANGED i
    \/ \E p \in Producers : Produce(p)
    \/ AdvanceI
    \/ \E c \in Consumers : Consume(c)

FibNext ==
    \/ FibRun
    \/ Interrupt /\ UNCHANGED <<semaphoreVars, bufferVars, i>>

(* The CPU always executes the current thread.  Nothing is assumed of the   *)
(* timer.                                                                   *)
FibSpec == FibInit /\ [][FibNext]_fibVars /\ WF_fibVars(FibRun)

(* The interval timer keeps firing.                                         *)
FibTimerSpec ==
    /\ FibSpec
    /\ SF_fibVars(Interrupt /\ UNCHANGED <<semaphoreVars, bufferVars, i>>)

-----------------------------------------------------------------------------
(* The queue the buffer implements.  An add takes effect when count goes    *)
(* up, a take when the slot is cleared.                                     *)

InAdd(p) == ToDo(p, <<"advance">>)
Added(p) == InAdd(p) /\ ~ToDo(p, <<"more">>)
Cleared == \E c \in Consumers : ToDo(c, <<"first">>) /\ ~ToDo(c, <<"get">>)
Uncounted == \E c \in Consumers : ToDo(c, <<"less">>) /\ ~ToDo(c, <<"get">>)

queue ==
    LET length == IF Uncounted THEN count - 1 ELSE count
        start == IF Cleared THEN first + 1 ELSE first
    IN  [k \in 1 .. length |-> buffer[(start + k - 1) % Length]]

Queue == INSTANCE BoundedQueue WITH
    next <- [p \in Producers |-> IF Added(p) THEN (i[p] + 1) % Modulus ELSE i[p]],
    taken <- [c \in Consumers |-> elem[c]],
    NoElement <- emptySlot

(* The buffer is a bounded first-in first-out queue: the consumers get      *)
(* every producer's numbers in order, none lost, repeated or overwritten    *)
(* (the check the consumer in fibtest.c prints as "matched").               *)
ImplementsQueue == Queue!QueueSpec

(* The timer fired before the first thread had started. *)
NeverStarted == status \in {"crashed", "assert_failed"} /\ current = NoThread

(* The consumers go on taking elements for ever: no interleaving leaves     *)
(* producers and consumers waiting for each other (the while (1) loops of   *)
(* fibtest.c), whether or not the timer ever fires.                         *)
KeepsConsuming ==
    \/ <>NeverStarted
    \/ []<><<\E c \in Consumers : elem'[c] # elem[c]>>_fibVars

(* fibtest.c:3: there are two producers that each produce Fibonacci numbers *)
(* and add the results to the buffer: from each some number is taken.       *)
EachProducerAdds ==
    \/ <>NeverStarted
    \/ \A p \in Producers : <>(\E c \in Consumers : elem[c].id = p)
=============================================================================
