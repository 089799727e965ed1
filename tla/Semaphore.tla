------------------------------ MODULE Semaphore ------------------------------
(****************************************************************************)
(* Counting semaphores (CS24/cs24hw7/semaphore.c) on top of the thread      *)
(* package.  A wait or signal is the sequence of steps its C function       *)
(* executes between the points the timer can fall on; the list of blocked   *)
(* threads hanging from each semaphore is a sequence, head first.           *)
(****************************************************************************)
EXTENDS SThread

CONSTANTS Semaphores,   \* the semaphores of the program
          InitialValue, \* the argument of new_semaphore, per semaphore
          MaxValue,     \* bound: clients signal only below this value
          ClientOps     \* statements of the threads' own code that matter

ThreadOps == {"lock", "unlock", "schedule", "block", "finish"}
SemaphoreOps == {"while", "append", "dec", "inc", "wake"}

ASSUME SemaphoreAssumption ==
    /\ InitialValue \in [Semaphores -> Nat]
    /\ MaxValue \in Nat
    /\ ClientOps \cap (ThreadOps \cup SemaphoreOps) = {}

VARIABLES value,    \* Semaphore.i
          waiters   \* Semaphore.blocked_head .. blocked_tail

semaphoreVars == <<value, waiters>>
semVars == <<threadVars, semaphoreVars>>

new_semaphore ==
    /\ value = InitialValue
    /\ waiters = [s \in Semaphores |-> <<>>]

SemInit == SThreadInit /\ new_semaphore

(* A wait that looks at the value before it locks; a signal that wakes      *)
(* nobody.                                                                  *)
semaphore_waitMistaken(s) == << <<"while", s>>, <<"dec", s>>, <<"unlock">> >>
semaphore_signalMistaken(s) == << <<"lock">>, <<"inc", s>>, <<"unlock">> >>

semaphore_wait(s) == << <<"lock">>, <<"while", s>>, <<"dec", s>>, <<"unlock">> >>
semaphore_signal(s) == << <<"lock">>, <<"inc", s>>, <<"wake", s>>, <<"unlock">> >>

-----------------------------------------------------------------------------

(* An if in place of the while. *)
WhileMistaken ==
    /\ Executing("while")
    /\ LET s == Operand IN
         code' = [code EXCEPT ![current] =
                    IF value[s] = 0
                      THEN << <<"append", s>> >> \o block \o << <<"lock">> >> \o Tail(@)
                      ELSE Tail(@)]
    /\ UNCHANGED <<status, current, state, ready, blocked, lock, value, waiters>>

(* while (semp->i == 0): queue up, block, lock again and look again.        *)
While ==
    /\ Executing("while")
    /\ LET s == Operand IN
         code' = [code EXCEPT ![current] =
                    IF value[s] = 0
                      THEN << <<"append", s>> >> \o block \o << <<"lock">> >> \o @
                      ELSE Tail(@)]
    /\ UNCHANGED <<status, current, state, ready, blocked, lock, value, waiters>>

semp_append ==
    /\ Executing("append")
    /\ waiters' = [waiters EXCEPT ![Operand] = Append(@, current)]
    /\ Done
    /\ UNCHANGED <<status, current, state, ready, blocked, lock, value>>

Decrement ==
    /\ Executing("dec")
    /\ value' = [value EXCEPT ![Operand] = @ - 1]
    /\ Done
    /\ UNCHANGED <<status, current, state, ready, blocked, lock, waiters>>

Increment ==
    /\ Executing("inc")
    /\ value' = [value EXCEPT ![Operand] = @ + 1]
    /\ Done
    /\ UNCHANGED <<status, current, state, ready, blocked, lock, waiters>>

(* A thread woken only when the value was zero. *)
WakeMistaken ==
    /\ Executing("wake")
    /\ LET s == Operand IN
         IF waiters[s] = <<>> \/ value[s] > 1
           THEN UNCHANGED <<status, state, ready, blocked, waiters>>
           ELSE /\ waiters' = [waiters EXCEPT ![s] = Tail(@)]
                /\ Unblock(Head(waiters[s]))
    /\ Done
    /\ UNCHANGED <<current, lock, value>>

(* Take the first blocked thread off the semaphore's list and unblock it.   *)
Wake ==
    /\ Executing("wake")
    /\ LET s == Operand IN
         IF waiters[s] = <<>>
           THEN UNCHANGED <<status, state, ready, blocked, waiters>>
           ELSE /\ waiters' = [waiters EXCEPT ![s] = Tail(@)]
                /\ Unblock(Head(waiters[s]))
    /\ Done
    /\ UNCHANGED <<current, lock, value>>

SemaphoreStep == While \/ semp_append \/ Decrement \/ Increment \/ Wake

-----------------------------------------------------------------------------
(* Threads that call the semaphores in any order, and may return.           *)

Signals(s) == Cardinality({t \in Thread : <<"inc", s>> \in Range(code[t])})

Client ==
    \E s \in Semaphores :
        \/ Call(semaphore_wait(s))
        \/ value[s] + Signals(s) < MaxValue /\ Call(semaphore_signal(s))

SemNext ==
    \/ SThreadNext /\ UNCHANGED semaphoreVars
    \/ Client /\ UNCHANGED semaphoreVars
    \/ SemaphoreStep

SemSpec == SemInit /\ [][SemNext]_semVars

-----------------------------------------------------------------------------
(* Properties. *)

Pending(op, s) == {t \in Thread : <<op, s>> \in Range(code[t])}

Instruction ==
    {<<op>> : op \in ThreadOps \cup ClientOps}
        \cup {<<op, s>> : op \in SemaphoreOps, s \in Semaphores}

(* Every variable has its type; Semaphore.i is never driven below zero by   *)
(* two threads that both saw it positive.                                   *)
SemTypeOK ==
    /\ ThreadTypeOK
    /\ code \in [Thread -> Seq(Instruction)]
    /\ value \in [Semaphores -> Nat]
    /\ waiters \in [Semaphores -> Seq(Thread)]

(* semaphore.c:114 and :134, "this operation must be atomic", and the same  *)
(* of the scheduler: a thread about to take a step on the queues or a       *)
(* semaphore is the running thread and holds the lock, so nobody else has   *)
(* run since it took it.                                                    *)
Critical == {"schedule", "block"} \cup SemaphoreOps
OperationsAreAtomic ==
    \A t \in Thread :
        code[t] # <<>> /\ Head(code[t])[1] \in Critical => t = current /\ lock = 1

(* A thread on a semaphore's list is on it once and on no other list, and   *)
(* is blocked or, with the lock held, about to be; and a blocked thread is  *)
(* on some list, so that a signal can find it (semaphore.c:121).            *)
Listed(s) == Range(waiters[s])
AboutToBlock(t) == t = current /\ lock = 1 /\ <<"block">> \in Range(code[t])
WaitersAreBlocked ==
    /\ \A s \in Semaphores : IsInjective(waiters[s])
    /\ \A s, r \in Semaphores : s # r => Listed(s) \cap Listed(r) = {}
    /\ \A s \in Semaphores : \A t \in Listed(s) :
          state[t] = "Blocked" \/ AboutToBlock(t)
    /\ \A t \in Thread : state[t] = "Blocked" =>
          \E s \in Semaphores : t \in Listed(s)

(* No wakeup is lost: if threads wait on a semaphore whose value is         *)
(* positive, at least as many threads as the value are on their way to      *)
(* look at it again, or signals on their way to wake one.                   *)
NoLostWakeup ==
    \A s \in Semaphores : waiters[s] # <<>> =>
        value[s] <= Cardinality(
            ((Pending("while", s) \cup Pending("dec", s)) \ Listed(s))
                \cup Pending("wake", s))

(* semaphore.c:114: "it blocks iff the semaphore is zero": the process is   *)
(* declared deadlocked only when every thread left waits on a semaphore     *)
(* whose value is zero.                                                     *)
DeadlockedOnZero ==
    status = "deadlocked" =>
        \A t \in Thread : state[t] # "deleted" =>
            \E s \in Semaphores : t \in Listed(s) /\ value[s] = 0
=============================================================================
