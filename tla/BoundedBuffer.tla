---------------------------- MODULE BoundedBuffer ----------------------------
(****************************************************************************)
(* The bounded buffer of CS24/cs24hw7/bounded_buffer.c: a circular array    *)
(* guarded by two counting semaphores and a mutex, and the statements of    *)
(* bounded_buffer_add and bounded_buffer_take between which the timer may   *)
(* switch threads.                                                          *)
(****************************************************************************)
EXTENDS Semaphore

CONSTANT Length     \* the argument of new_bounded_buffer

ASSUME BufferAssumption ==
    /\ Length \in Nat \ {0}
    /\ Semaphores = {"full", "empty", "buff_protect"}
    /\ InitialValue = [s \in Semaphores |-> CASE s = "full" -> Length
                                              [] s = "empty" -> 0
                                              [] s = "buff_protect" -> 1]
    /\ {"put", "more", "get", "less", "first"} \subseteq ClientOps

VARIABLES buffer,   \* the array
          first,    \* index of the first element
          count,    \* number of elements stored
          elem      \* the BufferElem each thread passes to add or take

bufferVars == <<buffer, first, count, elem>>

emptySlot == [id |-> NoThread, arg |-> -1]

new_bounded_buffer ==
    /\ buffer = [k \in 0 .. Length - 1 |-> emptySlot]
    /\ first = 0
    /\ count = 0

(* Consumers not told; the mutex released before first moves on; no mutex.   *)
addSilentMistaken ==
    semaphore_wait("full") \o semaphore_wait("buff_protect")
      \o << <<"put">>, <<"more">> >> \o semaphore_signal("buff_protect")

takeAdvancesLateMistaken ==
    semaphore_wait("empty") \o semaphore_wait("buff_protect")
      \o << <<"get">>, <<"less">> >> \o semaphore_signal("full")
      \o semaphore_signal("buff_protect") \o << <<"first">> >>

takeUnprotectedMistaken ==
    semaphore_wait("empty") \o << <<"get">>, <<"less">> >>
      \o semaphore_signal("full") \o << <<"first">> >>

bounded_buffer_add ==
    semaphore_wait("full") \o semaphore_wait("buff_protect")
      \o << <<"put">>, <<"more">> >>
      \o semaphore_signal("empty") \o semaphore_signal("buff_protect")

bounded_buffer_take ==
    semaphore_wait("empty") \o semaphore_wait("buff_protect")
      \o << <<"get">>, <<"less">> >> \o semaphore_signal("full")
      \o << <<"first">> >> \o semaphore_signal("buff_protect")

Statement(op) ==
    /\ Executing(op) /\ Done
    /\ UNCHANGED <<status, current, state, ready, blocked, lock, value, waiters>>

PutElement ==
    /\ Statement("put")
    /\ buffer' = [buffer EXCEPT ![(first + count) % Length] = elem[current]]
    /\ UNCHANGED <<first, count, elem>>

CountUp ==
    /\ Statement("more")
    /\ count' = count + 1
    /\ UNCHANGED <<buffer, first, elem>>

(* Copy the element out and clear its slot. *)
GetElement ==
    /\ Statement("get")
    /\ elem' = [elem EXCEPT ![current] = buffer[first]]
    /\ buffer' = [buffer EXCEPT ![first] = emptySlot]
    /\ UNCHANGED <<first, count>>

CountDown ==
    /\ Statement("less")
    /\ count' = count - 1
    /\ UNCHANGED <<buffer, first, elem>>

AdvanceFirst ==
    /\ Statement("first")
    /\ first' = (first + 1) % Length
    /\ UNCHANGED <<buffer, count, elem>>

BufferStep == PutElement \/ CountUp \/ GetElement \/ CountDown \/ AdvanceFirst

-----------------------------------------------------------------------------

ToDo(t, instruction) == instruction \in Range(code[t])

(* The mutex: no two threads are between acquiring and releasing it.        *)
InSection(t) == ToDo(t, <<"inc", "buff_protect">>)
                  /\ ~ToDo(t, <<"dec", "buff_protect">>)
OneThreadInSection == \A t, u \in Thread : InSection(t) /\ InSection(u) => t = u
=============================================================================
