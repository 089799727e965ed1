----------------------------- MODULE CoopThread -----------------------------
(****************************************************************************)
(* The cooperative threads of CS24/cs24hw6/sthreads (sthread.c, glue.s):    *)
(* the predecessor of the preemptive library, with the same doubly-linked   *)
(* queues, modelled here down to their prev and next pointers.  A thread    *)
(* keeps the CPU until it calls the library, so that each call and the      *)
(* scheduler it enters are one step.                                        *)
(****************************************************************************)
EXTENDS Integers, Sequences, FiniteSets, SequencesExt

CONSTANTS Thread, NULL

VARIABLES
    state,      \* New (not created), Ready, Blocked, Finished (deallocated)
    q,          \* the fields prev and next of the threads, and the head and
                \* the tail of each queue
    current,    \* the running thread, NULL before sthread_start
    exited,     \* the program's exit code, or NULL
    order       \* history: the threads of each queue, in order of arrival

coopVars == <<state, q, current, exited, order>>

Ready == "Ready"
Blocked == "Blocked"
Queues == {Ready, Blocked}

----------------------------------------------------------------------------
\* Queue operations, on the pointers p.

queue_append(p, name, t) ==
    IF p.head[name] = NULL
    THEN [p EXCEPT !.prev[t] = NULL, !.next[t] = NULL,
                   !.head[name] = t, !.tail[name] = t]
    ELSE [p EXCEPT !.next = [@ EXCEPT ![p.tail[name]] = t, ![t] = NULL],
                   !.prev[t] = p.tail[name],
                   !.tail[name] = t]

\* The pointers once the first thread of the queue is taken; its own links
\* stay as they are.
queue_take(p, name) ==
    LET t == p.head[name]
    IN  IF t = p.tail[name]
        THEN [p EXCEPT !.head[name] = NULL, !.tail[name] = NULL]
        ELSE [p EXCEPT !.prev[p.next[t]] = NULL, !.head[name] = p.next[t]]

Relink(f, t, to) == IF t = NULL THEN f ELSE [f EXCEPT ![t] = to]

queue_removeMistaken(p, name, t) ==
    [p EXCEPT !.next = Relink(@, p.prev[t], p.next[t]),
              !.prev = Relink(@, p.next[t], p.prev[t]),
              !.head[name] = IF @ = t THEN p.next[t] ELSE @]

queue_remove(p, name, t) ==
    [p EXCEPT !.next = Relink(@, p.prev[t], p.next[t]),
              !.prev = Relink(@, p.next[t], p.prev[t]),
              !.head[name] = IF @ = t THEN p.next[t] ELSE @,
              !.tail[name] = IF @ = t THEN p.prev[t] ELSE @]

----------------------------------------------------------------------------

CoopInit ==
    /\ state = [t \in Thread |-> "New"]
    /\ q = [prev |-> [t \in Thread |-> NULL], next |-> [t \in Thread |-> NULL],
            head |-> [n \in Queues |-> NULL], tail |-> [n \in Queues |-> NULL]]
    /\ current = NULL
    /\ exited = NULL
    /\ order = [n \in Queues |-> << >>]

\* The second half of __sthread_scheduler: choose the next thread, given the
\* queues after the first.  The chosen thread's state stays Ready.
ScheduleNext(p, o) ==
    IF p.head[Ready] = NULL
    THEN /\ exited' = IF p.head[Blocked] = NULL THEN 0 ELSE 1
         /\ q' = p /\ order' = o /\ current' = NULL
    ELSE /\ q' = queue_take(p, Ready)
         /\ order' = [o EXCEPT ![Ready] = Tail(@)]
         /\ current' = p.head[Ready]
         /\ UNCHANGED exited

\* __sthread_scheduler for the running thread, which is in state s.
Schedule(s) ==
    /\ state' = [state EXCEPT ![current] = s]
    /\ IF s \in Queues
       THEN ScheduleNext(queue_append(q, s, current),
                         [order EXCEPT ![s] = Append(@, current)])
       ELSE ScheduleNext(q, order)

Running == exited = NULL /\ current # NULL

\* main creates threads before it starts them, and a thread may create more.
sthread_create(t) ==
    /\ exited = NULL /\ state[t] = "New"
    /\ state' = [state EXCEPT ![t] = Ready]
    /\ q' = queue_append(q, Ready, t)
    /\ order' = [order EXCEPT ![Ready] = Append(@, t)]
    /\ UNCHANGED <<current, exited>>

sthread_start ==
    /\ exited = NULL /\ current = NULL
    /\ ScheduleNext(q, order)
    /\ UNCHANGED state

sthread_yield == Running /\ Schedule(Ready)

sthread_block == Running /\ Schedule(Blocked)

\* The thread's function returns; the scheduler deallocates the thread.
sthread_finish == Running /\ Schedule("Finished")

sthread_unblock(t) ==
    /\ Running /\ state[t] = Blocked
    /\ state' = [state EXCEPT ![t] = Ready]
    /\ q' = queue_append(queue_remove(q, Blocked, t), Ready, t)
    /\ order' = [order EXCEPT ![Blocked] = RemoveFirst(@, t),
                              ![Ready] = Append(@, t)]
    /\ UNCHANGED <<current, exited>>

CoopNext ==
    \/ \E t \in Thread : sthread_create(t) \/ sthread_unblock(t)
    \/ sthread_start
    \/ sthread_yield \/ sthread_block \/ sthread_finish

CoopSpec == CoopInit /\ [][CoopNext]_coopVars

----------------------------------------------------------------------------

\* The pointers of each queue make the list of its threads in order of their
\* arrival, in both directions, although a thread's one pair of links serves
\* both queues and keeps old values whenever the thread is taken off a queue.
LinksMatchQueues ==
    \A n \in Queues :
        LET o == order[n]
        IN  IF o = << >> THEN q.head[n] = NULL
            ELSE /\ q.head[n] = Head(o) /\ q.tail[n] = Last(o)
                 /\ q.prev[Head(o)] = NULL /\ q.next[Last(o)] = NULL
                 /\ \A i \in 1..(Len(o) - 1) : /\ q.next[o[i]] = o[i + 1]
                                               /\ q.prev[o[i + 1]] = o[i]

\* Every created thread is in exactly one place: running, in the queue of its
\* state, or deallocated; the program reports success only if none is left
\* blocked.
EveryThreadHasAPlace ==
    /\ \A t \in Thread :
        LET places == {n \in Queues : \E i \in DOMAIN order[n] : order[n][i] = t}
        IN  IF t = current THEN places = {} /\ state[t] = Ready
            ELSE places = {state[t]} \cap Queues
    /\ exited = 0 => \A t \in Thread : state[t] \in {"New", "Finished"}

\* One pair of links per thread makes both queues' lists, no thread is lost,
\* and the exit code tells the truth.
ThreadsKeepTheirPlaces == LinksMatchQueues /\ EveryThreadHasAPlace
=============================================================================
