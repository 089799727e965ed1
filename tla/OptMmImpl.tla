------------------------------ MODULE OptMmImpl ------------------------------
(****************************************************************************)
(* The array version of the multimap, CS24/cs24hw5/multimap/opt_mm_impl.c:  *)
(* the nodes of the tree lie in one array and name their children by index, *)
(* and a node's values lie in an array that grows by one.                   *)
(****************************************************************************)
EXTENDS Integers, Sequences, FiniteSets, SequencesExt

CONSTANTS Key, Value,   \* the pairs that a program adds
          MaxPairs      \* bound: pairs added

VARIABLES arr,          \* the nodes, with the indexes 0..size
          added         \* history: the pairs added

None == -1

size == Cardinality(DOMAIN arr) - 1

alloc_mm_node(key) == [key |-> key, values |-> << >>,
                       left_child_index |-> None, right_child_index |-> None]

Side(node, key) ==
    IF node.key > key THEN "left_child_index" ELSE "right_child_index"

RECURSIVE Descend(_, _)
\* The node with the key below node_i, or the one to hang it from.
Descend(node_i, key) ==
    LET node == arr[node_i]
    IN  IF node.key = key \/ node[Side(node, key)] = None THEN node_i
        ELSE Descend(node[Side(node, key)], key)

\* find_mm_node(arr, key, 0): in an empty map it returns 0 all the same.
find_mm_node(key) ==
    IF size = -1 THEN 0
    ELSE LET n == Descend(0, key)
         IN  IF arr[n].key = key THEN n ELSE None

Grown(key) == [i \in 0..(size + 1) |->
                 IF i <= size THEN arr[i] ELSE alloc_mm_node(key)]

AppendedMistaken(nodes, i, value) == [nodes EXCEPT ![i].values = <<value>>]

Appended(nodes, i, value) == [nodes EXCEPT ![i].values = Append(@, value)]

init_multimap == arr = << >> /\ added = << >>

\* find_mm_node(arr, key, 1), then the value array grows by one.
mm_add_value(key, value) ==
    LET parent == Descend(0, key)
    IN  /\ Len(added) < MaxPairs
        /\ added' = Append(added, <<key, value>>)
        /\ arr' = IF size = -1 THEN Appended(Grown(key), 0, value)
                  ELSE IF arr[parent].key = key
                  THEN Appended(arr, parent, value)
                  ELSE Appended([Grown(key) EXCEPT
                                    ![parent][Side(arr[parent], key)] = size + 1],
                                size + 1, value)

mm_contains_key(key) == find_mm_node(key) # None

\* The answers that mm_contains_pair may give.  Its loop compares one integer
\* past the end of the values; in an empty map all it reads is unwritten.
mm_contains_pair(key, value) ==
    LET n == find_mm_node(key)
    IN  IF size = -1 THEN BOOLEAN
        ELSE IF n = None THEN {FALSE}
        ELSE IF \E i \in DOMAIN arr[n].values : arr[n].values[i] = value
        THEN {TRUE} ELSE BOOLEAN

RECURSIVE mm_traverse_helper(_)
mm_traverse_helper(i) ==
    IF i = None THEN << >>
    ELSE mm_traverse_helper(arr[i].left_child_index)
         \o [j \in DOMAIN arr[i].values |-> <<arr[i].key, arr[i].values[j]>>]
         \o mm_traverse_helper(arr[i].right_child_index)

Next == \E k \in Key, v \in Value : mm_add_value(k, v)

----------------------------------------------------------------------------

\* Once it holds a pair, the array map never misses a key or a pair that was
\* added, finds no other key, and visits the pairs in the order of their keys:
\* a child index stays right when the array is reallocated and grows.  (About
\* a pair that was not added it may err, and an empty map claims every key.)
FindsWhatWasAdded ==
    added # << >> =>
        /\ \A k \in Key :
            /\ mm_contains_key(k) <=> \E i \in DOMAIN added : added[i][1] = k
            /\ \A v \in Value : (\E i \in DOMAIN added : added[i] = <<k, v>>)
                                    => mm_contains_pair(k, v) = {TRUE}
        /\ LET seen == mm_traverse_helper(0)
           IN  /\ Len(seen) = Len(added)
               /\ \A i, j \in DOMAIN seen : i < j => seen[i][1] <= seen[j][1]
=============================================================================
