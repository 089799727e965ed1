------------------------------ MODULE PtrVector ------------------------------
(****************************************************************************)
(* The pointer vector and pointer stack of CS24/cs24hw4 (ptr_vector.c, in   *)
(* exceptions/ and in scheme24/): an array that doubles when it is full and *)
(* halves when it is more than half empty, whose unused slots hold NULL.    *)
(****************************************************************************)
EXTENDS Integers, FiniteSets, FiniteSetsExt

CONSTANTS Elem, NullElem,   \* the pointers stored, and NULL, the empty slot
          FirstCapacity,    \* the capacity the code starts from, 16
          MaxSize           \* bound: elements a program stores

VARIABLES elems,            \* the slots 0..capacity - 1
          size, capacity

vectorVars == <<elems, size, capacity>>

ASSUME VectorAssumption == NullElem \notin Elem /\ FirstCapacity \in Nat \ {0}

Slots(n) == 0..(n - 1)

pv_init == elems = [i \in {} |-> NullElem] /\ size = 0 /\ capacity = 0

\* new_capacity in pv_add_elem, when the vector is full.
Doubled == IF capacity = 0 THEN FirstCapacity ELSE 2 * capacity

\* A failed realloc returns 0 and changes nothing.
pv_add_elem(e) ==
    /\ size < MaxSize
    /\ size' = size + 1
    /\ IF size < capacity
       THEN elems' = [elems EXCEPT ![size] = e] /\ UNCHANGED capacity
       ELSE /\ capacity' = Doubled
            /\ elems' = [i \in Slots(Doubled) |->
                            IF i < size THEN elems[i]
                            ELSE IF i = size THEN e ELSE NullElem]

pv_set_elem(index, e) ==
    /\ index < size
    /\ elems' = [elems EXCEPT ![index] = e]
    /\ UNCHANGED <<size, capacity>>

\* final_capacity of pvh_reduce_capacity, for n elements in c slots.
Reduced(c, n) ==
    LET halve[d \in Nat] ==
            IF d \div 2 > FirstCapacity /\ d \div 2 > n THEN halve[d \div 2] ELSE d
    IN  halve[c]

\* pvh_reduce_capacity; the realloc that shrinks may fail and change nothing.
pvh_reduce_capacity(slots, n) ==
    /\ size' = n
    /\ \/ capacity' = Reduced(capacity, n)
       \/ UNCHANGED capacity
    /\ elems' = [i \in Slots(capacity') |-> slots[i]]

ps_pop_elem ==
    /\ size > 0
    /\ pvh_reduce_capacity([elems EXCEPT ![size - 1] = NullElem], size - 1)

CompactStates ==
    [slots : [Slots(capacity) -> Elem \cup {NullElem}],
     size : 0..capacity, empty : 0..capacity]

CompactedMistaken(given, n) ==
    LET compact[s \in CompactStates] ==
            IF s.size # 0 /\ s.slots[s.size - 1] = NullElem
            THEN compact[[s EXCEPT !.size = @ - 1]]
            ELSE IF s.empty >= s.size THEN s
            ELSE IF s.slots[s.empty] # NullElem
            THEN compact[[s EXCEPT !.empty = @ + 1]]
            ELSE compact[[s EXCEPT !.slots[s.empty] = s.slots[s.size - 1]]]
    IN  compact[[slots |-> given, size |-> n, empty |-> 0]]

\* The loop of pv_compact: drop the empty slots at the end, then move the last
\* element into the first empty slot.
Compacted(given, n) ==
    LET compact[s \in CompactStates] ==
            IF s.size # 0 /\ s.slots[s.size - 1] = NullElem
            THEN compact[[s EXCEPT !.size = @ - 1]]
            ELSE IF s.empty >= s.size THEN s
            ELSE IF s.slots[s.empty] # NullElem
            THEN compact[[s EXCEPT !.empty = @ + 1]]
            ELSE compact[[s EXCEPT !.slots =
                    [@ EXCEPT ![s.empty] = s.slots[s.size - 1],
                              ![s.size - 1] = NullElem]]]
    IN  compact[[slots |-> given, size |-> n, empty |-> 0]]

pv_compact ==
    LET c == Compacted(elems, size)
    IN  pvh_reduce_capacity(c.slots, c.size)

pv_uninit == elems' = [i \in {} |-> NullElem] /\ size' = 0 /\ capacity' = 0

VectorNext ==
    \/ \E e \in Elem : pv_add_elem(e)
    \/ \E i \in Slots(size), e \in Elem \cup {NullElem} : pv_set_elem(i, e)
    \/ ps_pop_elem
    \/ pv_compact
    \/ pv_uninit

VectorSpec == pv_init /\ [][VectorNext]_vectorVars

----------------------------------------------------------------------------

\* However the vector has grown, shrunk and been compacted, its elements have
\* room and every slot past them holds NULL (the memset of pv_add_elem, the
\* halving of pvh_reduce_capacity, which must not cut elements off).
VectorFits ==
    /\ DOMAIN elems = Slots(capacity)
    /\ size <= capacity
    /\ \A i \in DOMAIN elems : i >= size => elems[i] = NullElem

Copies(slots, e) == Cardinality({i \in DOMAIN slots : slots[i] = e})

\* Compaction leaves no NULL entry below size and neither loses an element
\* nor stores it twice (the comment of pv_compact).
CompactKeepsElements ==
    LET c == Compacted(elems, size)
    IN  /\ \A i \in Slots(c.size) : c.slots[i] # NullElem
        /\ \A e \in Elem : Copies(elems, e) = Copies(c.slots, e)
        /\ \A i \in DOMAIN c.slots : i >= c.size => c.slots[i] = NullElem

\* ptr_vector.c: however the vector grows, shrinks and is compacted, every
\* element has room, only NULL lies behind them, and none is lost or doubled.
VectorKeepsElements == VectorFits /\ CompactKeepsElements
=============================================================================
