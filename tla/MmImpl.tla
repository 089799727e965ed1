------------------------------- MODULE MmImpl -------------------------------
(****************************************************************************)
(* The multimap of CS24/cs24hw5/multimap/mm_impl.c: a binary search tree of *)
(* keys whose nodes hold the linked list of their values.  Nodes are known  *)
(* by their number in order of allocation; a linked list is a sequence.     *)
(****************************************************************************)
EXTENDS Integers, Sequences, SequencesExt

CONSTANTS Key, Value,   \* the pairs that a program adds
          MaxPairs      \* bound: pairs added between two clears

VARIABLES root,         \* the root node, or NoNode
          nodes,        \* the nodes, as a sequence
          added         \* history: the pairs added since the map was empty

mmVars == <<root, nodes, added>>

ASSUME KeyAssumption == Key \subseteq Int

NoNode == 0

alloc_mm_node(key) == [key |-> key, values |-> << >>,
                       left_child |-> NoNode, right_child |-> NoNode]

\* The child that the search for the key goes on to.
Child(node, key) == IF node.key > key THEN node.left_child ELSE node.right_child

DescendMistaken(key) ==
    LET descend[n \in 1..Len(nodes)] ==
            LET child == Child(nodes[n], key)
            IN  IF nodes[n].key >= key \/ child = NoNode THEN n ELSE descend[child]
    IN  descend[root]

\* The node with the key below the root, or the one to hang it from.
Descend(key) ==
    LET descend[n \in 1..Len(nodes)] ==
            LET child == Child(nodes[n], key)
            IN  IF nodes[n].key = key \/ child = NoNode THEN n ELSE descend[child]
    IN  descend[root]

\* find_mm_node(root, key, 0)
find_mm_node(key) ==
    IF root # NoNode /\ nodes[Descend(key)].key = key THEN Descend(key) ELSE NoNode

\* The new node becomes the child that the search found missing.
Hung(ns, parent, key, new) ==
    IF ns[parent].key > key THEN [ns EXCEPT ![parent].left_child = new]
                            ELSE [ns EXCEPT ![parent].right_child = new]

Appended(ns, n, value) == [ns EXCEPT ![n].values = Append(@, value)]

init_multimap == root = NoNode /\ nodes = << >> /\ added = << >>

\* find_mm_node(root, key, 1) and the value appended at values_tail.
mm_add_value(key, value) ==
    LET new == Len(nodes) + 1
        parent == Descend(key)
        grown == Append(nodes, alloc_mm_node(key))
    IN  /\ Len(added) < MaxPairs
        /\ added' = Append(added, <<key, value>>)
        /\ \/ /\ root = NoNode
              /\ root' = new
              /\ nodes' = Appended(grown, new, value)
           \/ /\ root # NoNode /\ nodes[parent].key = key
              /\ nodes' = Appended(nodes, parent, value)
              /\ UNCHANGED root
           \/ /\ root # NoNode /\ nodes[parent].key # key
              /\ nodes' = Appended(Hung(grown, parent, key, new), new, value)
              /\ UNCHANGED root

mm_contains_key(key) == find_mm_node(key) # NoNode

mm_contains_pair(key, value) ==
    LET n == find_mm_node(key)
    IN  n # NoNode /\ \E i \in DOMAIN nodes[n].values : nodes[n].values[i] = value

mm_traverse ==
    LET helper[n \in 0..Len(nodes)] ==
            IF n = NoNode THEN << >>
            ELSE helper[nodes[n].left_child]
                 \o [i \in DOMAIN nodes[n].values |-> <<nodes[n].key, nodes[n].values[i]>>]
                 \o helper[nodes[n].right_child]
    IN  helper[root]

\* The nodes that freeing the root frees, each after its children.
free_multimap_node ==
    LET free[n \in 0..Len(nodes)] ==
            IF n = NoNode THEN << >>
            ELSE free[nodes[n].left_child] \o free[nodes[n].right_child] \o <<n>>
    IN  free[root]

clear_multimap == root' = NoNode /\ nodes' = << >> /\ added' = << >>

MmNext ==
    \/ \E k \in Key, v \in Value : mm_add_value(k, v)
    \/ clear_multimap

MmSpec == init_multimap /\ [][MmNext]_mmVars

----------------------------------------------------------------------------
\* What a multimap answers, from the pairs it was given.

\* The map finds every key and every pair that was added to it, whatever the
\* order they came in, and no others: no pair is lost behind a node that hangs
\* in the wrong place (find_mm_node).
MapFindsItsPairs ==
    \A k \in Key :
        /\ mm_contains_key(k) <=> \E i \in DOMAIN added : added[i][1] = k
        /\ \A v \in Value : mm_contains_pair(k, v) <=>
                                \E i \in DOMAIN added : added[i] = <<k, v>>

Expected ==
    LET sorted == SetToSortSeq(Key, <)
    IN  FlattenSeq([i \in DOMAIN sorted |->
                        SelectSeq(added, LAMBDA p : p[1] = sorted[i])])

\* The map visits its pairs in the order of their keys, those of one key in the
\* order they were added (values_tail), and clearing it frees every node exactly
\* once (free_multimap_node).
TraversesInOrder ==
    /\ mm_traverse = Expected
    /\ Len(free_multimap_node) = Len(nodes)
    /\ {free_multimap_node[i] : i \in DOMAIN free_multimap_node} = DOMAIN nodes
=============================================================================
