--------------------------------- MODULE Heap ---------------------------------
(****************************************************************************)
(* The binary heap of CS24/cs24hw5/cachesim/heap.c, which lives in the      *)
(* simulated memory.  Every access goes through read_float and write_float; *)
(* CacheSim models what those return.                                       *)
(****************************************************************************)
EXTENDS Integers, FiniteSets

CONSTANTS Float,            \* the values that a program stores
          MaxValues         \* max_values of init_heap

ASSUME HeapAssumption == Float \subseteq Int /\ MaxValues \in Nat \ {0}

VARIABLES memory,           \* the floats 0..MaxValues - 1
          num_values,
          contents,         \* history: how often each value is in the heap
          least             \* history: the value got last was a least one

heapVars == <<memory, num_values, contents, least>>

Slot == 0..(MaxValues - 1)

LEFT_CHILD(index) == 2 * index + 1
RIGHT_CHILD(index) == 2 * index + 2
PARENT(index) == (index - 1) \div 2

swap_values(m, i, j) == [m EXCEPT ![i] = m[j], ![j] = m[i]]

\* The child to swap with the value at index among the first n, or index.
SmallerChildMistaken(m, n, index) ==
    LET left == LEFT_CHILD(index)
    IN  IF left < n /\ m[left] < m[index] THEN left ELSE index
SmallerChild(m, n, index) ==
    LET left == LEFT_CHILD(index)
        right == RIGHT_CHILD(index)
    IN  IF left >= n THEN index
        ELSE IF right >= n THEN IF m[left] < m[index] THEN left ELSE index
        ELSE IF m[left] < m[index] \/ m[right] < m[index]
        THEN IF m[left] < m[right] THEN left ELSE right
        ELSE index

\* The loops go from one state to the next: the floats, and where they are.
SiftStates == [m : [Slot -> Float \cup {0}], index : Slot]

sift_down(given, n, start) ==
    LET sift[s \in SiftStates] ==
            LET child == SmallerChild(s.m, n, s.index)
            IN  IF child = s.index THEN s.m
                ELSE sift[[m |-> swap_values(s.m, s.index, child),
                           index |-> child]]
    IN  sift[[m |-> given, index |-> start]]

sift_up(given, start) ==
    LET sift[s \in SiftStates] ==
            IF s.index = 0 \/ ~(s.m[s.index] < s.m[PARENT(s.index)]) THEN s.m
            ELSE sift[[m |-> swap_values(s.m, s.index, PARENT(s.index)),
                       index |-> PARENT(s.index)]]
    IN  sift[[m |-> given, index |-> start]]

init_heap ==
    /\ memory = [i \in Slot |-> 0]
    /\ num_values = 0
    /\ contents = [f \in Float |-> 0]
    /\ least = TRUE

add_value(newval) ==
    /\ num_values < MaxValues
    /\ memory' = sift_up([memory EXCEPT ![num_values] = newval], num_values)
    /\ num_values' = num_values + 1
    /\ contents' = [contents EXCEPT ![newval] = @ + 1]
    /\ UNCHANGED least

get_first_value ==
    LET result == memory[0]
        n == num_values - 1
    IN  /\ num_values > 0
        /\ num_values' = n
        /\ memory' = IF n = 0 THEN memory
                     ELSE sift_down([memory EXCEPT ![0] = memory[n]], n, 0)
        /\ contents' = [contents EXCEPT ![result] = @ - 1]
        /\ least' = \A f \in Float : contents[f] > 0 => result <= f

HeapNext ==
    \/ \E f \in Float : add_value(f)
    \/ get_first_value

HeapSpec == init_heap /\ [][HeapNext]_heapVars

----------------------------------------------------------------------------

\* In any mix of additions and removals the heap hands out a least value, and
\* what it still holds is what was added and not taken, duplicates included;
\* so heaptest's loop reads the sorted inputs.
HandsOutLeast ==
    /\ least
    /\ \A f \in Float :
        contents[f] = Cardinality({i \in 0..(num_values - 1) : memory[i] = f})
=============================================================================
