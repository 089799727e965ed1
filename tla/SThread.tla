------------------------------- MODULE SThread -------------------------------
(****************************************************************************)
(* The preemptive user-level thread package of CS24/cs24hw7: the scheduler  *)
(* and its queues (sthread.c), the scheduler lock and the context switch    *)
(* (glue.s), and the timer interrupt (timer.c).                             *)
(*                                                                          *)
(* There is one CPU.  code[t] is what thread t has left to execute inside   *)
(* the thread library, one element per C statement or assembly routine the  *)
(* timer can fall between; code[t] = <<>> means t is in its own code.  A    *)
(* timer interrupt may come before any of these steps, which is how two     *)
(* threads interleave.                                                      *)
(****************************************************************************)
EXTENDS Integers, SequencesExt

CONSTANTS Thread,     \* the threads main creates
          NoThread,   \* the NULL value of current
          UseTimer,   \* the argument of sthread_start
          Calls       \* the library calls the threads make from their own code

ASSUME SThreadAssumption ==
    /\ IsFiniteSet(Thread) /\ Thread # {}
    /\ NoThread \notin Thread
    /\ UseTimer \in BOOLEAN
    /\ Calls \subseteq {"yield", "return"}

VARIABLES
    status,     \* how far the process has come, or how it ended
    current,    \* the running thread
    state,      \* Thread.state; "none" before creation, "deleted" after free
    ready,      \* ready_queue, head first
    blocked,    \* blocked_queue, head first
    lock,       \* scheduler_lock
    code        \* what each thread has left to execute in the library

threadVars == <<status, current, state, ready, blocked, lock, code>>

Starting == {"created", "armed", "context_set"}
Ended == {"completed", "deadlocked", "assert_failed", "crashed"}

SThreadInit ==
    /\ status = "created"
    /\ current = NoThread
    /\ state = [t \in Thread |-> "none"]
    /\ ready = <<>> /\ blocked = <<>>
    /\ lock = 0
    /\ code = [t \in Thread |-> <<>>]

-----------------------------------------------------------------------------
(* What the library's functions execute.  Definitions whose name ends in    *)
(* Mistaken are not the code: each is the definition after it with one      *)
(* plausible mistake, which some property has to notice.                    *)

(* The scheduler entered without the lock. *)
yieldMistaken == << <<"schedule">>, <<"unlock">> >>
yield == << <<"lock">>, <<"schedule">>, <<"unlock">> >>
block == << <<"block">> >> \o yield
finish == << <<"finish">> >> \o yield

Executing(op) ==
    /\ status = "running"
    /\ code[current] # <<>>
    /\ Head(code[current])[1] = op

Operand == Head(code[current])[2]

Done == code' = [code EXCEPT ![current] = Tail(@)]

(* Threads are queued behind the others and taken from the head.            *)
queue_appendMistaken(queue, t) == <<t>> \o queue
queue_append(queue, t) == Append(queue, t)

(* Unlink the node of one thread. *)
queue_remove(queue, t) ==
    IF t \in Range(queue)
      THEN RemoveAt(queue, CHOOSE k \in 1 .. Len(queue) : queue[k] = t)
      ELSE queue

-----------------------------------------------------------------------------
(* main: create the threads, start the timer, enter the scheduler. *)

Create(t) ==
    /\ status = "created"
    /\ state[t] = "none"
    /\ state' = [state EXCEPT ![t] = "Ready"]
    /\ ready' = queue_append(ready, t)
    /\ UNCHANGED <<status, current, blocked, lock, code>>

StartTimer ==
    /\ status = "created"
    /\ \A t \in Thread : state[t] = "Ready"
    /\ status' = "armed"
    /\ UNCHANGED <<current, state, ready, blocked, lock, code>>

SetSchedulerContext ==
    /\ status = "armed"
    /\ status' = "context_set"
    /\ UNCHANGED <<current, state, ready, blocked, lock, code>>

(* The scheduler called with no context: nothing to save, take the first. *)
FirstSchedule ==
    /\ status = "context_set"
    /\ status' = "running"
    /\ current' = Head(ready)
    /\ ready' = Tail(ready)
    /\ state' = [state EXCEPT ![Head(ready)] = "Running"]
    /\ UNCHANGED <<blocked, lock, code>>

-----------------------------------------------------------------------------
(* The scheduler, called with the context of the current thread. *)

(* A preempted thread that stays Running. *)
SavedStateMistaken(t) == IF state[t] = "Finished" THEN "deleted" ELSE state[t]
SavedState(t) ==
    CASE state[t] = "Running"  -> "Ready"
      [] state[t] = "Finished" -> "deleted"
      [] OTHER                 -> state[t]

Schedule ==
    /\ Executing("schedule")
    /\ LET saved == SavedState(current)
           queue == IF saved = "Ready" THEN queue_append(ready, current)
                                      ELSE ready
       IN  /\ blocked' = IF saved = "Blocked" THEN queue_append(blocked, current)
                                              ELSE blocked
           /\ IF queue = <<>>
                THEN /\ status' = IF blocked' = <<>> THEN "completed"
                                                     ELSE "deadlocked"
                     /\ current' = NoThread
                     /\ ready' = queue
                     /\ state' = [state EXCEPT ![current] = saved]
                ELSE /\ current' = Head(queue)
                     /\ ready' = Tail(queue)
                     /\ state' = [state EXCEPT ![current] = saved,
                                               ![Head(queue)] = "Running"]
                     /\ status' = status
    /\ Done
    /\ UNCHANGED lock

-----------------------------------------------------------------------------
(* The remaining steps of the library, executed by the current thread. *)

(* xchg with 1; none of the C callers looks at the result. *)
Lock ==
    /\ Executing("lock")
    /\ lock' = 1
    /\ Done
    /\ UNCHANGED <<status, current, state, ready, blocked>>

Unlock ==
    /\ Executing("unlock")
    /\ lock' = 0
    /\ Done
    /\ UNCHANGED <<status, current, state, ready, blocked>>

SetState(op, s) ==
    /\ Executing(op)
    /\ state' = [state EXCEPT ![current] = s]
    /\ Done
    /\ UNCHANGED <<status, current, ready, blocked, lock>>

Block == SetState("block", "Blocked")
Finish == SetState("finish", "Finished")

(* An unblocked thread left in the blocked queue. *)
UnblockMistaken(t) ==
    IF state[t] = "Blocked"
      THEN /\ state' = [state EXCEPT ![t] = "Ready"]
           /\ ready' = queue_append(ready, t)
           /\ UNCHANGED <<blocked, status>>
      ELSE /\ status' = "assert_failed"
           /\ UNCHANGED <<blocked, state, ready>>

(* sthread_unblock(t), which callers execute with the lock held.            *)
Unblock(t) ==
    IF state[t] = "Blocked"
      THEN /\ blocked' = queue_remove(blocked, t)
           /\ state' = [state EXCEPT ![t] = "Ready"]
           /\ ready' = queue_append(ready, t)
           /\ status' = status
      ELSE /\ status' = "assert_failed"
           /\ UNCHANGED <<blocked, state, ready>>

(* A call from the thread's own code; a thread whose function returns runs  *)
(* __sthread_finish.                                                        *)
Call(program) ==
    /\ status = "running"
    /\ code[current] = <<>>
    /\ code' = [code EXCEPT ![current] = program]
    /\ UNCHANGED <<status, current, state, ready, blocked, lock>>

-----------------------------------------------------------------------------
(* SIGALRM.  The handler asks for the lock; with the lock already held the  *)
(* interrupt is ignored and nothing changes.                                *)

Tick ==
    /\ UseTimer /\ status = "running" /\ lock = 0
    /\ lock' = 1
    /\ code' = [code EXCEPT ![current] = << <<"schedule">> >> \o @]
    /\ UNCHANGED <<status, current, state, ready, blocked>>

(* Before __sthread_start has stored scheduler_context the handler switches *)
(* to a null stack; before the first thread is chosen the scheduler finds   *)
(* no current thread and its assertion fails.                               *)
TickWhileStarting ==
    /\ UseTimer /\ status \in {"armed", "context_set"} /\ lock = 0
    /\ lock' = 1
    /\ status' = IF status = "armed" THEN "crashed" ELSE "assert_failed"
    /\ UNCHANGED <<current, state, ready, blocked, code>>

-----------------------------------------------------------------------------

StartUp ==
    \/ \E t \in Thread : Create(t)
    \/ StartTimer \/ SetSchedulerContext \/ FirstSchedule

LibraryStep == Schedule \/ Lock \/ Unlock \/ Block \/ Finish

Interrupt == Tick \/ TickWhileStarting

Run ==
    \/ StartUp
    \/ LibraryStep
    \/ "yield" \in Calls /\ Call(yield)
    \/ "return" \in Calls /\ Call(finish)

SThreadNext == Run \/ Interrupt

(* The CPU executes whatever is current, and the interval timer keeps       *)
(* firing; only the interrupts that find the lock free are steps.           *)
SThreadSpec ==
    /\ SThreadInit /\ [][SThreadNext]_threadVars
    /\ WF_threadVars(Run) /\ SF_threadVars(Interrupt)

-----------------------------------------------------------------------------
(* Properties. *)

States == {"none", "Ready", "Running", "Blocked", "Finished", "deleted"}

(* Every variable has its type (code depends on the program). *)
ThreadTypeOK ==
    /\ status \in Starting \cup {"running"} \cup Ended
    /\ current \in Thread \cup {NoThread}
    /\ status = "running" => current \in Thread
    /\ state \in [Thread -> States]
    /\ ready \in Seq(Thread) /\ blocked \in Seq(Thread)
    /\ lock \in {0, 1}

(* sthread.c:100 and :113: the running thread is the one current points to, *)
(* all threads in the ready queue are Ready, all in the blocked queue are   *)
(* Blocked; and a thread that has been created is in exactly one place: on  *)
(* the CPU, once in one queue, or freed.                                    *)
QueuesMatchStates ==
    /\ \A t \in Thread : (state[t] = "Ready") <=> (t \in Range(ready))
    /\ \A t \in Thread : t \in Range(blocked) =>
                            state[t] = "Blocked" /\ t # current
    /\ \A t \in Thread : state[t] \in {"Running", "Finished"} => t = current
    /\ \A t \in Thread : state[t] = "Blocked" /\ t # current
                            => t \in Range(blocked)
    /\ status = "running" =>
          state[current] \in {"Running", "Blocked", "Finished"}
    /\ IsInjective(ready) /\ IsInjective(blocked)

(* The two exits of the scheduler are truthful: "All threads completed" is  *)
(* printed when no thread is left, and "The system is deadlocked!" when     *)
(* every thread left is blocked (sthread.c:260).                            *)
ExitsAreTruthful ==
    /\ status = "completed" => \A t \in Thread : state[t] = "deleted"
    /\ status = "deadlocked" =>
          /\ \A t \in Thread : state[t] \in {"deleted", "Blocked"}
          /\ \E t \in Thread : state[t] = "Blocked"

(* Threads that all yield take turns: a Ready thread gets the CPU.          *)
ReadyThreadRuns ==
    \A t \in Thread : (status = "running" /\ state[t] = "Ready")
                        ~> state[t] # "Ready"

(* sthread.c:241: the scheduler's assertion that there is a current thread  *)
(* (the only assertion of a program without semaphores) never fails.        *)
CurrentIsNeverNull == status # "assert_failed"

(* timer.c:4: the end result of the timer is that __sthread_schedule is     *)
(* called periodically, for as long as the process runs.                    *)
SchedulesPeriodically ==
    <>[](status # "running") \/ []<><<Schedule>>_threadVars
=============================================================================
