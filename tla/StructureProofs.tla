--------------------------- MODULE StructureProofs ---------------------------
(****************************************************************************)
(* Theorems about the data structures of the assignments, for every size    *)
(* and every sequence of calls: the pointer vector never cuts off an        *)
(* element and compaction keeps them all (PtrVector); the heap hands out a  *)
(* least value and keeps the others (Heap); the blocks of the allocator     *)
(* tile its pool, keep the client's data, and implement the abstract pool   *)
(* (MyAlloc); the multimap's tree finds every pair that was added (MmImpl); *)
(* the collector of the Scheme interpreter frees exactly the garbage        *)
(* (Collector).                                                             *)
(****************************************************************************)
EXTENDS PtrVector, Heap, MyAlloc, MmImpl, Collector, Loops, SequenceTheorems,
        FiniteSetTheorems

-----------------------------------------------------------------------------
(****************************************************************************)
(* The pointer vector.                                                      *)
(****************************************************************************)

Cell == Elem \cup {NullElem}

VectorTypeOK ==
    /\ size \in Nat /\ capacity \in Nat
    /\ elems \in [Slots(capacity) -> Cell]

VectorInv == VectorTypeOK /\ VectorFits

-----------------------------------------------------------------------------
(* pvh_reduce_capacity never goes below the elements it has to hold. *)

(* Halving a positive number makes it smaller. *)
LEMMA Halves ==
    ASSUME NEW d \in Nat
    PROVE  d \div 2 \in Nat /\ (d > 0 => d \div 2 < d)
OBVIOUS

(* Halving the capacity stops before it would cut an element off. *)
LEMMA ReducedFits ==
    ASSUME NEW c \in Nat, NEW n \in Nat, n <= c
    PROVE  Reduced(c, n) \in Nat /\ n <= Reduced(c, n) /\ Reduced(c, n) <= c
<1> DEFINE Goes(d) == d \div 2 > FirstCapacity /\ d \div 2 > n
           stop == {d \in Nat : ~Goes(d)}
           same == [d \in Nat |-> d]
           half == [d \in Nat |-> d \div 2]
           big == {d \in Nat : n <= d /\ d <= c}
           Body(g) == [d \in Nat |-> IF Goes(d) THEN g[d \div 2] ELSE d]
           halve == CHOOSE g : g = Body(g)
<1>1. Falls(same, Nat, stop, half)
  <2>1. ASSUME NEW d \in Nat \ stop
        PROVE  half[d] \in Nat /\ same[half[d]] < same[d]
    <3>1. d \div 2 > FirstCapacity
      BY <2>1
    <3>2. d > 0
      BY <3>1, VectorAssumption
    <3> QED  BY <3>2, Halves
  <2> QED  BY <2>1 DEF Falls
<1>2. ASSUME NEW g PROVE IsLoop(g, Nat, stop, same, half) <=> g = Body(g)
  <2>1. [d \in Nat |-> IF d \in stop THEN same[d] ELSE g[half[d]]] = Body(g)
    OBVIOUS
  <2> QED  BY <2>1 DEF IsLoop
<1>3. halve = Body(halve)
  <2>1. \E g : IsLoop(g, Nat, stop, same, half)
    <3> HIDE DEF stop, same, half
    <3> QED  BY <1>1, LoopDefined
  <2>2. \E g : g = Body(g)
    BY <2>1, <1>2
  <2> HIDE DEF Body
  <2> QED  BY <2>2
<1>4. IsLoop(halve, Nat, stop, same, half)
  <2> HIDE DEF Body, halve
  <2> QED  BY <1>2, <1>3
<1>5. \A d \in big : halve[d] \in big
  <2>1. \A d \in big \ stop : half[d] \in big
    BY Halves
  <2>2. \A d \in big \cap stop : same[d] \in big
    OBVIOUS
  <2>3. Keeps(big, big, Nat, stop, same, half)
    BY <2>1, <2>2 DEF Keeps
  <2> HIDE DEF stop, same, half, halve, big
  <2> QED  BY <1>1, <1>4, <2>3, LoopRule
<1>6. Reduced(c, n) = halve[c]
  BY DEF Reduced
<1> HIDE DEF halve
<1> QED  BY <1>5, <1>6

-----------------------------------------------------------------------------
(* The loop of pv_compact. *)

Drops(s) == s.size # 0 /\ s.slots[s.size - 1] = NullElem
Stops(s) == ~Drops(s) /\ s.empty >= s.size

Dropped(s) == [s EXCEPT !.size = @ - 1]
Skipped(s) == [s EXCEPT !.empty = @ + 1]
Moved(s) == [s EXCEPT !.slots = [@ EXCEPT ![s.empty] = s.slots[s.size - 1],
                                          ![s.size - 1] = NullElem]]

Round(s) == IF Drops(s) THEN Dropped(s)
            ELSE IF s.slots[s.empty] # NullElem THEN Skipped(s)
            ELSE Moved(s)

CompactMeasure(s) ==
    2 * (2 * s.size + capacity - s.empty) + (IF Drops(s) THEN 0 ELSE 1)

(* No slot before "empty" is empty, none after the elements is not, and each *)
(* pointer is there as often as in the slots given.                          *)
CompactInv(given, s) ==
    /\ s.empty <= s.size
    /\ \A i \in Slots(s.empty) : s.slots[i] # NullElem
    /\ \A i \in Slots(capacity) : i >= s.size => s.slots[i] = NullElem
    /\ \A e \in Elem : Copies(given, e) = Copies(s.slots, e)

CompactDone(given, s) ==
    /\ \A i \in Slots(s.size) : s.slots[i] # NullElem
    /\ \A i \in Slots(capacity) : i >= s.size => s.slots[i] = NullElem
    /\ \A e \in Elem : Copies(given, e) = Copies(s.slots, e)

(* The fields of a state, and what each kind of round makes of them. *)
LEMMA CompactFields ==
    ASSUME NEW s \in CompactStates, capacity \in Nat
    PROVE  /\ s.size \in 0 .. capacity /\ s.empty \in 0 .. capacity
           /\ s.slots \in [Slots(capacity) -> Cell]
           /\ s = [slots |-> s.slots, size |-> s.size, empty |-> s.empty]
BY DEF CompactStates, Cell

(* The round that finds a gap at the end takes the end one back. *)
LEMMA DropRound ==
    ASSUME NEW s \in CompactStates, capacity \in Nat, Drops(s)
    PROVE  /\ Dropped(s) \in CompactStates
           /\ Dropped(s).slots = s.slots /\ Dropped(s).empty = s.empty
           /\ Dropped(s).size = s.size - 1
<1>1. /\ s.size \in 0 .. capacity /\ s.empty \in 0 .. capacity
      /\ s.slots \in [Slots(capacity) -> Cell]
  BY CompactFields
<1>2. Dropped(s) = [slots |-> s.slots, size |-> s.size - 1, empty |-> s.empty]
  BY DEF Dropped, CompactStates
<1>3. s.size - 1 \in 0 .. capacity
  BY <1>1 DEF Drops
<1> QED  BY <1>1, <1>2, <1>3 DEF CompactStates, Cell

(* The round that finds a pointer in front goes on to the next. *)
LEMMA SkipRound ==
    ASSUME NEW s \in CompactStates, capacity \in Nat, s.empty < s.size
    PROVE  /\ Skipped(s) \in CompactStates
           /\ Skipped(s).slots = s.slots /\ Skipped(s).size = s.size
           /\ Skipped(s).empty = s.empty + 1
<1>1. /\ s.size \in 0 .. capacity /\ s.empty \in 0 .. capacity
      /\ s.slots \in [Slots(capacity) -> Cell]
  BY CompactFields
<1>2. Skipped(s) = [slots |-> s.slots, size |-> s.size, empty |-> s.empty + 1]
  BY DEF Skipped, CompactStates
<1>3. s.empty + 1 \in 0 .. capacity
  BY <1>1
<1> QED  BY <1>1, <1>2, <1>3 DEF CompactStates, Cell

(* The round that finds a gap in front moves the last pointer there. *)
LEMMA MoveRound ==
    ASSUME NEW s \in CompactStates, capacity \in Nat, s.empty < s.size
    PROVE  /\ Moved(s) \in CompactStates
           /\ Moved(s).size = s.size /\ Moved(s).empty = s.empty
           /\ Moved(s).slots[s.size - 1] = NullElem
           /\ s.empty # s.size - 1 =>
                 Moved(s).slots[s.empty] = s.slots[s.size - 1]
           /\ \A i \in Slots(capacity) : i # s.empty /\ i # s.size - 1
                 => Moved(s).slots[i] = s.slots[i]
<1> DEFINE moved == [[s.slots EXCEPT ![s.empty] = s.slots[s.size - 1]]
                        EXCEPT ![s.size - 1] = NullElem]
<1>1. /\ s.size \in 0 .. capacity /\ s.empty \in 0 .. capacity
      /\ s.slots \in [Slots(capacity) -> Cell]
  BY CompactFields
<1>2. Moved(s) = [slots |-> moved, size |-> s.size, empty |-> s.empty]
  BY DEF Moved, CompactStates
<1>3. s.empty \in Slots(capacity) /\ s.size - 1 \in Slots(capacity)
  BY <1>1 DEF Slots
<1>4. moved \in [Slots(capacity) -> Cell]
  BY <1>1, <1>3 DEF Cell
<1>5. /\ moved[s.size - 1] = NullElem
      /\ s.empty # s.size - 1 => moved[s.empty] = s.slots[s.size - 1]
      /\ \A i \in Slots(capacity) : i # s.empty /\ i # s.size - 1
            => moved[i] = s.slots[i]
  BY <1>1, <1>3
<1> HIDE DEF moved
<1> QED  BY <1>1, <1>2, <1>4, <1>5 DEF CompactStates, Cell

(* Every round brings the loop closer to its end. *)
LEMMA RoundFalls ==
    ASSUME NEW s \in CompactStates, capacity \in Nat, ~Stops(s)
    PROVE  /\ Round(s) \in CompactStates
           /\ CompactMeasure(s) \in Nat /\ CompactMeasure(Round(s)) \in Nat
           /\ CompactMeasure(Round(s)) < CompactMeasure(s)
<1>1. \A r \in CompactStates : CompactMeasure(r) \in Nat
  BY CompactFields DEF CompactMeasure
<1>2. s.size \in 0 .. capacity /\ s.empty \in 0 .. capacity
  BY CompactFields
<1>3. CASE Drops(s)
  <2>1. Round(s) = Dropped(s)
    BY <1>3 DEF Round
  <2> QED  BY <1>1, <1>2, <1>3, <2>1, DropRound DEF CompactMeasure
<1>4. CASE ~Drops(s) /\ s.slots[s.empty] # NullElem
  <2>1. s.empty < s.size
    BY <1>2, <1>4 DEF Stops
  <2>2. Round(s) = Skipped(s)
    BY <1>4 DEF Round
  <2>3. ~Drops(Skipped(s))
    BY <1>4, <2>1, SkipRound DEF Drops
  <2> QED  BY <1>1, <1>2, <1>4, <2>1, <2>2, <2>3, SkipRound DEF CompactMeasure
<1>5. CASE ~Drops(s) /\ s.slots[s.empty] = NullElem
  <2>1. s.empty < s.size
    BY <1>2, <1>5 DEF Stops
  <2>2. Round(s) = Moved(s)
    BY <1>5 DEF Round
  <2>3. Drops(Moved(s))
    BY <1>2, <2>1, MoveRound DEF Drops
  <2> QED  BY <1>1, <1>2, <1>5, <2>1, <2>2, <2>3, MoveRound DEF CompactMeasure
<1> QED  BY <1>3, <1>4, <1>5

(* Moving the last pointer into an empty slot leaves as many of each. *)
LEMMA MoveKeepsCopies ==
    ASSUME NEW s \in CompactStates, capacity \in Nat, s.empty < s.size,
           s.slots[s.empty] = NullElem, ~Drops(s), NEW e \in Elem
    PROVE  Copies(Moved(s).slots, e) = Copies(s.slots, e)
<1> DEFINE last == s.size - 1
           old == {i \in Slots(capacity) : s.slots[i] = e}
           new == {i \in Slots(capacity) : Moved(s).slots[i] = e}
<1>1. /\ s.size \in 0 .. capacity /\ s.empty \in 0 .. capacity
      /\ s.slots \in [Slots(capacity) -> Cell]
  BY CompactFields
<1>2. Moved(s).slots \in [Slots(capacity) -> Cell]
  BY MoveRound, CompactFields
<1>3. /\ last \in Slots(capacity) /\ s.empty \in Slots(capacity)
      /\ s.slots[last] # NullElem /\ s.empty # last
  BY <1>1 DEF Slots, Drops
<1>4. e # NullElem
  BY VectorAssumption
<1>5. /\ Moved(s).slots[last] = NullElem
      /\ Moved(s).slots[s.empty] = s.slots[last]
      /\ \A i \in Slots(capacity) : i # s.empty /\ i # last
            => Moved(s).slots[i] = s.slots[i]
  BY <1>3, MoveRound
<1>6. IsFiniteSet(Slots(capacity))
  BY FS_Interval DEF Slots
<1>7. IsFiniteSet(old) /\ IsFiniteSet(old \ {last})
  BY <1>6, FS_Subset
<1>8. Cardinality(new) = Cardinality(old)
  <2>1. CASE s.slots[last] = e
    <3>1. new = (old \ {last}) \cup {s.empty}
      BY <1>3, <1>4, <1>5, <2>1
    <3>2. last \in old /\ s.empty \notin old \ {last}
      BY <1>3, <1>4, <2>1
    <3> HIDE DEF old, new, last
    <3>3. Cardinality(old) \in Nat
      BY <1>7, FS_CardinalityType
    <3>4. Cardinality(old \ {last}) = Cardinality(old) - 1
      BY <1>7, <3>2, FS_RemoveElement
    <3>5. Cardinality(new) = Cardinality(old \ {last}) + 1
      BY <1>7, <3>1, <3>2, FS_AddElement
    <3> QED  BY <3>3, <3>4, <3>5
  <2>2. CASE s.slots[last] # e
    <3>1. new = old
      BY <1>3, <1>4, <1>5, <2>2
    <3> QED  BY <3>1
  <2> QED  BY <2>1, <2>2
<1> QED  BY <1>1, <1>2, <1>8 DEF Copies

(* A round keeps the invariant, and where the loop stops it is done. *)
LEMMA RoundKeeps ==
    ASSUME NEW given, NEW s \in CompactStates, capacity \in Nat,
           CompactInv(given, s)
    PROVE  /\ ~Stops(s) => CompactInv(given, Round(s))
           /\ Stops(s) => CompactDone(given, s)
<1>1. /\ s.size \in 0 .. capacity /\ s.empty \in 0 .. capacity
      /\ s.slots \in [Slots(capacity) -> Cell]
  BY CompactFields
<1>2. CASE Drops(s)
  <2>1. /\ Round(s).slots = s.slots /\ Round(s).empty = s.empty
        /\ Round(s).size = s.size - 1
    BY <1>2, DropRound DEF Round
  <2>2. s.empty # s.size
    BY <1>1, <1>2 DEF CompactInv, Drops, Slots
  <2>3. s.empty <= s.size - 1
    BY <1>1, <2>2 DEF CompactInv
  <2>4. ASSUME NEW i \in Slots(capacity), i >= s.size - 1
        PROVE  s.slots[i] = NullElem
    BY <1>1, <1>2, <2>4 DEF CompactInv, Drops, Slots
  <2>5. ~Stops(s)
    BY <1>2 DEF Stops
  <2> QED  BY <2>1, <2>3, <2>4, <2>5 DEF CompactInv
<1>3. CASE ~Drops(s) /\ s.empty >= s.size
  <2>1. s.empty = s.size
    BY <1>1, <1>3 DEF CompactInv
  <2> QED  BY <1>3, <2>1 DEF CompactInv, CompactDone, Stops
<1>4. CASE ~Drops(s) /\ s.empty < s.size /\ s.slots[s.empty] # NullElem
  <2>1. /\ Round(s).slots = s.slots /\ Round(s).size = s.size
        /\ Round(s).empty = s.empty + 1
    BY <1>4, SkipRound DEF Round
  <2>2. \A i \in Slots(s.empty + 1) : s.slots[i] # NullElem
    BY <1>1, <1>4 DEF CompactInv, Slots
  <2>3. s.empty + 1 <= s.size
    BY <1>1, <1>4
  <2>4. ~Stops(s)
    BY <1>1, <1>4 DEF Stops
  <2> QED  BY <2>1, <2>2, <2>3, <2>4 DEF CompactInv
<1>5. CASE ~Drops(s) /\ s.empty < s.size /\ s.slots[s.empty] = NullElem
  <2>1. Round(s) = Moved(s)
    BY <1>5 DEF Round
  <2>2. /\ Moved(s).size = s.size /\ Moved(s).empty = s.empty
        /\ Moved(s).slots[s.size - 1] = NullElem
        /\ \A i \in Slots(capacity) : i # s.empty /\ i # s.size - 1
              => Moved(s).slots[i] = s.slots[i]
    BY <1>5, MoveRound
  <2>3. \A i \in Slots(s.empty) : Moved(s).slots[i] # NullElem
    BY <1>1, <1>5, <2>2 DEF CompactInv, Slots
  <2>4. \A i \in Slots(capacity) : i >= s.size => Moved(s).slots[i] = NullElem
    BY <1>1, <1>5, <2>2 DEF CompactInv, Slots
  <2>5. \A e \in Elem : Copies(given, e) = Copies(Moved(s).slots, e)
    BY <1>5, MoveKeepsCopies DEF CompactInv
  <2>6. ~Stops(s)
    BY <1>1, <1>5 DEF Stops
  <2> QED  BY <1>5, <2>1, <2>2, <2>3, <2>4, <2>5, <2>6 DEF CompactInv
<1> QED  BY <1>1, <1>2, <1>3, <1>4, <1>5

(* What Compacted makes of slots that are NULL past their elements. *)
LEMMA CompactedIsDone ==
    ASSUME capacity \in Nat, NEW n \in 0 .. capacity,
           NEW given \in [Slots(capacity) -> Cell],
           \A i \in Slots(capacity) : i >= n => given[i] = NullElem
    PROVE  /\ Compacted(given, n) \in CompactStates
           /\ CompactDone(given, Compacted(given, n))
<1> DEFINE S == CompactStates
           stop == {s \in S : Stops(s)}
           same == [s \in S |-> s]
           next == [s \in S |-> Round(s)]
           measure == [s \in S |-> CompactMeasure(s)]
           inv == {s \in S : CompactInv(given, s)}
           good == {s \in S : CompactDone(given, s)}
           first == [slots |-> given, size |-> n, empty |-> 0]
           Body(g) == [s \in S |-> IF Stops(s) THEN s ELSE g[Round(s)]]
           compact == CHOOSE g : g = Body(g)
<1>1. Falls(measure, S, stop, next)
  <2>1. \A s \in S : CompactMeasure(s) \in Nat
    BY CompactFields DEF CompactMeasure
  <2>2. measure \in [S -> Nat]
    BY <2>1
  <2>3. ASSUME NEW s \in S \ stop
        PROVE  next[s] \in S /\ measure[next[s]] < measure[s]
    <3>1. ~Stops(s) /\ s \in S
      OBVIOUS
    <3> QED  BY <3>1, RoundFalls
  <2> QED  BY <2>2, <2>3 DEF Falls
<1>2. ASSUME NEW g PROVE IsLoop(g, S, stop, same, next) <=> g = Body(g)
  <2>1. [s \in S |-> IF s \in stop THEN same[s] ELSE g[next[s]]] = Body(g)
    OBVIOUS
  <2> QED  BY <2>1 DEF IsLoop
<1>3. compact = Body(compact)
  <2>1. \E g : IsLoop(g, S, stop, same, next)
    <3> HIDE DEF S, stop, same, next, measure
    <3> QED  BY <1>1, LoopDefined
  <2>2. \E g : g = Body(g)
    BY <2>1, <1>2
  <2> HIDE DEF Body
  <2> QED  BY <2>2
<1>4. IsLoop(compact, S, stop, same, next)
  <2> HIDE DEF Body, compact
  <2> QED  BY <1>2, <1>3
<1>5. Keeps(inv, good, S, stop, same, next)
  BY RoundKeeps, RoundFalls DEF Keeps
<1>6. \A s \in inv : compact[s] \in good
  <2> HIDE DEF S, stop, same, next, measure, inv, good, compact
  <2> QED  BY <1>1, <1>4, <1>5, LoopRule
<1>7. first \in inv
  <2>1. first \in S
    BY DEF CompactStates, Cell
  <2> QED  BY <2>1 DEF CompactInv, Slots
<1>8. Compacted(given, n) = compact[first]
  <2>1. ASSUME NEW g
        PROVE  Body(g) = [s \in CompactStates |->
                  IF s.size # 0 /\ s.slots[s.size - 1] = NullElem
                  THEN g[[s EXCEPT !.size = @ - 1]]
                  ELSE IF s.empty >= s.size THEN s
                  ELSE IF s.slots[s.empty] # NullElem
                  THEN g[[s EXCEPT !.empty = @ + 1]]
                  ELSE g[[s EXCEPT !.slots =
                             [@ EXCEPT ![s.empty] = s.slots[s.size - 1],
                                       ![s.size - 1] = NullElem]]]]
    BY DEF Stops, Drops, Round, Dropped, Skipped, Moved
  <2> QED  BY <2>1 DEF Compacted
<1> HIDE DEF compact
<1> QED  BY <1>6, <1>7, <1>8

-----------------------------------------------------------------------------
(* The operations. *)

(* A larger capacity has all slots of a smaller one. *)
LEMMA SlotsGrow ==
    ASSUME NEW a \in Nat, NEW b \in Nat, a <= b
    PROVE  Slots(a) \subseteq Slots(b)
BY DEF Slots

(* pvh_reduce_capacity, on slots that are NULL past n elements. *)
LEMMA ReduceKeepsInv ==
    ASSUME VectorInv, NEW n \in 0 .. capacity,
           NEW slots \in [Slots(capacity) -> Cell],
           \A i \in Slots(capacity) : i >= n => slots[i] = NullElem,
           pvh_reduce_capacity(slots, n)
    PROVE  VectorInv'
<1>1. capacity \in Nat /\ n \in Nat /\ n <= capacity
  BY DEF VectorInv, VectorTypeOK
<1>2. size' = n /\ elems' = [i \in Slots(capacity') |-> slots[i]]
  BY DEF pvh_reduce_capacity
<1>3. capacity' \in Nat /\ n <= capacity'
  <2>1. CASE capacity' = Reduced(capacity, n)
    BY <1>1, <2>1, ReducedFits
  <2>2. CASE capacity' = capacity
    BY <1>1, <2>2
  <2> QED  BY <2>1, <2>2 DEF pvh_reduce_capacity
<1>4. capacity' <= capacity
  <2>1. CASE capacity' = Reduced(capacity, n)
    BY <1>1, <2>1, ReducedFits
  <2>2. CASE capacity' = capacity
    BY <1>1, <2>2
  <2> QED  BY <2>1, <2>2 DEF pvh_reduce_capacity
<1>5. Slots(capacity') \subseteq Slots(capacity)
  <2>1. capacity \in Nat /\ capacity' \in Nat /\ capacity' <= capacity
    BY <1>1, <1>3, <1>4
  <2> QED  BY <2>1, SlotsGrow
<1>6. /\ elems' \in [Slots(capacity') -> Cell]
      /\ \A i \in Slots(capacity') : i >= n => elems'[i] = NullElem
  BY <1>2, <1>5
<1> QED  BY <1>1, <1>2, <1>3, <1>6 DEF VectorInv, VectorTypeOK, VectorFits

(* Adding an element keeps the invariant, also when the vector grows. *)
LEMMA AddKeepsInv ==
    ASSUME VectorInv, NEW e \in Elem, pv_add_elem(e)
    PROVE  VectorInv'
<1>1. /\ size \in Nat /\ capacity \in Nat /\ size <= capacity
      /\ elems \in [Slots(capacity) -> Cell]
      /\ \A i \in Slots(capacity) : i >= size => elems[i] = NullElem
  BY DEF VectorInv, VectorTypeOK, VectorFits
<1>2. size' = size + 1
  BY DEF pv_add_elem
<1>3. CASE size < capacity
  <2>1. elems' = [elems EXCEPT ![size] = e] /\ capacity' = capacity
    BY <1>3 DEF pv_add_elem
  <2>2. elems' \in [Slots(capacity) -> Cell]
    BY <1>1, <2>1 DEF Cell
  <2>3. \A i \in Slots(capacity) : i >= size + 1 => elems'[i] = NullElem
    BY <1>1, <2>1 DEF Slots
  <2> QED  BY <1>1, <1>2, <1>3, <2>1, <2>2, <2>3
           DEF VectorInv, VectorTypeOK, VectorFits
<1>4. CASE ~(size < capacity)
  <2>1. /\ capacity' = Doubled
        /\ elems' = [i \in Slots(Doubled) |->
                        IF i < size THEN elems[i]
                        ELSE IF i = size THEN e ELSE NullElem]
    BY <1>4 DEF pv_add_elem
  <2>2. size = capacity
    BY <1>1, <1>4
  <2>3. Doubled \in Nat /\ size + 1 <= Doubled
    BY <1>1, <2>2, VectorAssumption DEF Doubled
  <2>4. elems' \in [Slots(Doubled) -> Cell]
    <3>1. \A i \in Slots(Doubled) : i < size => i \in Slots(capacity)
      BY <1>1, <2>2, <2>3 DEF Slots
    <3> QED  BY <1>1, <2>1, <3>1 DEF Cell
  <2>5. \A i \in Slots(Doubled) : i >= size + 1 => elems'[i] = NullElem
    BY <1>1, <2>1, <2>3 DEF Slots
  <2> QED  BY <1>1, <1>2, <2>1, <2>3, <2>4, <2>5
           DEF VectorInv, VectorTypeOK, VectorFits
<1> QED  BY <1>3, <1>4

(* Setting a slot keeps the invariant. *)
LEMMA SetKeepsInv ==
    ASSUME VectorInv, NEW i \in Slots(size), NEW e \in Elem \cup {NullElem},
           pv_set_elem(i, e)
    PROVE  VectorInv'
<1>1. /\ size \in Nat /\ capacity \in Nat /\ size <= capacity
      /\ elems \in [Slots(capacity) -> Cell]
      /\ \A k \in Slots(capacity) : k >= size => elems[k] = NullElem
  BY DEF VectorInv, VectorTypeOK, VectorFits
<1>2. elems' = [elems EXCEPT ![i] = e] /\ size' = size /\ capacity' = capacity
  BY DEF pv_set_elem
<1>3. elems' \in [Slots(capacity) -> Cell]
  BY <1>1, <1>2 DEF Cell
<1>4. \A k \in Slots(capacity) : k >= size => elems'[k] = NullElem
  BY <1>1, <1>2 DEF Slots
<1> QED  BY <1>1, <1>2, <1>3, <1>4 DEF VectorInv, VectorTypeOK, VectorFits

(* Popping an element keeps the invariant. *)
LEMMA PopKeepsInv ==
    ASSUME VectorInv, ps_pop_elem
    PROVE  VectorInv'
<1> DEFINE slots == [elems EXCEPT ![size - 1] = NullElem]
<1>1. /\ size \in Nat /\ capacity \in Nat /\ size <= capacity
      /\ elems \in [Slots(capacity) -> Cell]
      /\ \A i \in Slots(capacity) : i >= size => elems[i] = NullElem
  BY DEF VectorInv, VectorTypeOK, VectorFits
<1>2. size > 0 /\ pvh_reduce_capacity(slots, size - 1)
  BY DEF ps_pop_elem
<1>3. size - 1 \in 0 .. capacity
  BY <1>1, <1>2
<1>4. slots \in [Slots(capacity) -> Cell]
  BY <1>1 DEF Cell
<1>5. \A i \in Slots(capacity) : i >= size - 1 => slots[i] = NullElem
  BY <1>1, <1>2 DEF Slots
<1> HIDE DEF slots
<1> QED  BY <1>2, <1>3, <1>4, <1>5, ReduceKeepsInv

(* Compaction keeps the invariant: the loop ends without a hole. *)
LEMMA CompactKeepsInv ==
    ASSUME VectorInv, pv_compact
    PROVE  VectorInv'
<1> DEFINE c == Compacted(elems, size)
<1>1. /\ capacity \in Nat /\ size \in 0 .. capacity
      /\ elems \in [Slots(capacity) -> Cell]
      /\ \A i \in Slots(capacity) : i >= size => elems[i] = NullElem
  BY DEF VectorInv, VectorTypeOK, VectorFits
<1>2. c \in CompactStates /\ CompactDone(elems, c)
  BY <1>1, CompactedIsDone
<1>3. pvh_reduce_capacity(c.slots, c.size)
  BY DEF pv_compact
<1> HIDE DEF c
<1>4. c.size \in 0 .. capacity /\ c.slots \in [Slots(capacity) -> Cell]
  BY <1>1, <1>2, CompactFields
<1>5. \A i \in Slots(capacity) : i >= c.size => c.slots[i] = NullElem
  BY <1>2 DEF CompactDone
<1> QED  BY <1>3, <1>4, <1>5, ReduceKeepsInv

(* An empty vector has the invariant. *)
LEMMA EmptyVectorInv ==
    /\ pv_init => VectorInv
    /\ pv_uninit => VectorInv'
<1>1. Slots(0) = {} /\ [i \in {} |-> NullElem] \in [{} -> Cell]
  BY DEF Slots
<1>2. pv_init => VectorInv
  <2> SUFFICES ASSUME pv_init PROVE VectorInv
    OBVIOUS
  <2>1. elems = [i \in {} |-> NullElem] /\ size = 0 /\ capacity = 0
    BY DEF pv_init
  <2> QED  BY <1>1, <2>1 DEF VectorInv, VectorTypeOK, VectorFits
<1>3. pv_uninit => VectorInv'
  <2> SUFFICES ASSUME pv_uninit PROVE VectorInv'
    OBVIOUS
  <2>1. elems' = [i \in {} |-> NullElem] /\ size' = 0 /\ capacity' = 0
    BY DEF pv_uninit
  <2> QED  BY <1>1, <2>1 DEF VectorInv, VectorTypeOK, VectorFits
<1> QED  BY <1>2, <1>3

(* Every step keeps the invariant. *)
LEMMA VectorNextInv == VectorInv /\ [VectorNext]_vectorVars => VectorInv'
<1> SUFFICES ASSUME VectorInv, [VectorNext]_vectorVars PROVE VectorInv'
  OBVIOUS
<1>1. CASE \E e \in Elem : pv_add_elem(e)
  BY <1>1, AddKeepsInv
<1>2. CASE \E i \in Slots(size), e \in Elem \cup {NullElem} : pv_set_elem(i, e)
  BY <1>2, SetKeepsInv
<1>3. CASE ps_pop_elem
  BY <1>3, PopKeepsInv
<1>4. CASE pv_compact
  BY <1>4, CompactKeepsInv
<1>5. CASE pv_uninit
  BY <1>5, EmptyVectorInv
<1>6. CASE UNCHANGED vectorVars
  BY <1>6 DEF vectorVars, VectorInv, VectorTypeOK, VectorFits
<1> QED  BY <1>1, <1>2, <1>3, <1>4, <1>5, <1>6 DEF VectorNext

(* However the vector grows, shrinks and is compacted, its elements have     *)
(* room, every slot past them holds NULL, and compaction leaves no NULL      *)
(* among the elements and as many of each pointer as there were              *)
(* (ptr_vector.c, pv_compact).                                               *)
THEOREM VectorAlwaysKeeps == VectorSpec => []VectorKeepsElements
<1>1. VectorInv => CompactKeepsElements
  <2> SUFFICES ASSUME VectorInv PROVE CompactKeepsElements
    OBVIOUS
  <2> DEFINE c == Compacted(elems, size)
  <2>1. /\ capacity \in Nat /\ size \in 0 .. capacity
        /\ elems \in [Slots(capacity) -> Cell]
        /\ \A i \in Slots(capacity) : i >= size => elems[i] = NullElem
    BY DEF VectorInv, VectorTypeOK, VectorFits
  <2>2. c \in CompactStates /\ CompactDone(elems, c)
    BY <2>1, CompactedIsDone
  <2> HIDE DEF c
  <2>3. DOMAIN c.slots = Slots(capacity)
    BY <2>1, <2>2, CompactFields
  <2>4. /\ \A i \in Slots(c.size) : c.slots[i] # NullElem
        /\ \A e \in Elem : Copies(elems, e) = Copies(c.slots, e)
        /\ \A i \in DOMAIN c.slots : i >= c.size => c.slots[i] = NullElem
    BY <2>2, <2>3 DEF CompactDone
  <2> QED  BY <2>4 DEF c, CompactKeepsElements
<1>2. VectorInv => VectorKeepsElements
  BY <1>1 DEF VectorInv, VectorKeepsElements
<1> QED  BY EmptyVectorInv, VectorNextInv, <1>2, PTL DEF VectorSpec

-----------------------------------------------------------------------------
(****************************************************************************)
(* The heap.                                                                *)
(****************************************************************************)

StoredFloat == Float \cup {0}

Count(m, n, f) == Cardinality({i \in 0..(n - 1) : m[i] = f})

(* Both heaps hold each of the values as often among their first n. *)
SameFloats(given, m, n) == \A f \in StoredFloat : Count(given, n, f) = Count(m, n, f)

(* No value is less than its parent. *)
Ordered(m, n) == \A i \in 1..(n - 1) : m[PARENT(i)] <= m[i]

-----------------------------------------------------------------------------
(* The shape of the tree. *)

(* The parent of a slot lies before it. *)
LEMMA ParentIsBefore ==
    ASSUME NEW i \in Nat \ {0}
    PROVE  PARENT(i) \in Nat /\ PARENT(i) < i
BY DEF PARENT

(* The slots with a given parent are its two children. *)
LEMMA ChildrenOf ==
    ASSUME NEW k \in Nat, NEW i \in Nat \ {0}
    PROVE  PARENT(i) = k <=> i = LEFT_CHILD(k) \/ i = RIGHT_CHILD(k)
BY DEF PARENT, LEFT_CHILD, RIGHT_CHILD

(* The values, the unused slots' included, can be compared. *)
LEMMA FloatIsInt == StoredFloat \subseteq Int
BY HeapAssumption DEF StoredFloat

(* In an ordered heap no value is less than the first one. *)
LEMMA RootIsLeast ==
    ASSUME NEW n \in 1..MaxValues, NEW m \in [Slot -> StoredFloat], Ordered(m, n)
    PROVE  \A i \in 0..(n - 1) : m[0] <= m[i]
<1> DEFINE T == {i \in 0..(n - 1) : m[i] < m[0]}
<1>1. ASSUME NEW i \in 0..(n - 1)
      PROVE  i \in Slot /\ m[i] \in Int /\ m[0] \in Int
  <2>1. i \in Slot /\ 0 \in Slot
    BY HeapAssumption DEF Slot
  <2> QED  BY <2>1, FloatIsInt
<1>2. ASSUME T # {} PROVE FALSE
  <2>1. T \in SUBSET Nat
    OBVIOUS
  <2>2. PICK i \in T : \A k \in T : i <= k
    <3> HIDE DEF T
    <3> QED  BY <1>2, <2>1, LeastNat
  <2>3. i \in Nat \ {0} /\ i \in 1..(n - 1) /\ m[i] < m[0]
    BY <2>2, <1>1
  <2>4. PARENT(i) \in Nat /\ PARENT(i) < i
    BY <2>3, ParentIsBefore
  <2>5. m[PARENT(i)] <= m[i]
    BY <2>3 DEF Ordered
  <2>6. PARENT(i) \in 0..(n - 1)
    BY <2>3, <2>4
  <2>7. m[0] \in Int /\ m[i] \in Int /\ m[PARENT(i)] \in Int
    BY <2>3, <2>6, <1>1
  <2>8. PARENT(i) \in T
    BY <2>3, <2>5, <2>6, <2>7
  <2> QED  BY <2>2, <2>4, <2>8, <2>3
<1> QED  BY <1>2, <1>1

-----------------------------------------------------------------------------
(* How often a value is in the heap. *)

(* How often a value occurs in the first slots is a number. *)
LEMMA Interval ==
    ASSUME NEW n \in Nat, NEW m, NEW f
    PROVE  /\ IsFiniteSet({i \in 0..(n - 1) : m[i] = f})
           /\ Count(m, n, f) \in Nat
<1>1. IsFiniteSet(0..(n - 1))
  BY FS_Interval
<1>2. IsFiniteSet({i \in 0..(n - 1) : m[i] = f})
  BY <1>1, FS_Subset
<1> QED  BY <1>2, FS_CardinalityType DEF Count

(* No value occurs in no slot. *)
LEMMA CountNone == \A m, f : Count(m, 0, f) = 0
<1>1. \A m, f : {i \in 0..(0 - 1) : m[i] = f} = {}
  OBVIOUS
<1> QED  BY <1>1, FS_EmptySet DEF Count

(* One slot more counts one more occurrence, of its value only. *)
LEMMA CountStep ==
    ASSUME NEW n \in Nat, NEW m, NEW f
    PROVE  Count(m, n + 1, f) = Count(m, n, f) + (IF m[n] = f THEN 1 ELSE 0)
<1> DEFINE A == {i \in 0..(n - 1) : m[i] = f}
           B == {i \in 0..((n + 1) - 1) : m[i] = f}
<1>1. IsFiniteSet(A) /\ Cardinality(A) \in Nat
  BY Interval DEF Count
<1>2. CASE m[n] = f
  <2>1. B = A \cup {n} /\ n \notin A
    BY <1>2
  <2>2. Cardinality(B) = Cardinality(A) + 1
    <3> HIDE DEF A, B
    <3> QED  BY <1>1, <2>1, FS_AddElement
  <2> QED  BY <1>2, <2>2 DEF Count
<1>3. CASE m[n] # f
  <2>1. B = A
    BY <1>3
  <2>2. Cardinality(B) = Cardinality(A) + 0
    <3> HIDE DEF A, B
    <3> QED  BY <1>1, <2>1
  <2> QED  BY <1>3, <2>2 DEF Count
<1> QED  BY <1>2, <1>3

(* Arrays that agree on the first slots count alike there. *)
LEMMA CountSame ==
    ASSUME NEW n \in Nat, NEW m, NEW w, NEW f,
           \A i \in 0..(n - 1) : m[i] = w[i]
    PROVE  Count(m, n, f) = Count(w, n, f)
<1>1. {i \in 0..(n - 1) : m[i] = f} = {i \in 0..(n - 1) : w[i] = f}
  OBVIOUS
<1> QED  BY <1>1 DEF Count

(* A value that is counted is in some slot. *)
LEMMA CountPositive ==
    ASSUME NEW n \in Nat, NEW m, NEW f
    PROVE  Count(m, n, f) > 0 <=> \E i \in 0..(n - 1) : m[i] = f
<1> DEFINE A == {i \in 0..(n - 1) : m[i] = f}
<1>1. IsFiniteSet(A) /\ Count(m, n, f) = Cardinality(A) /\ Cardinality(A) \in Nat
  BY Interval DEF Count
<1>2. Cardinality(A) = 0 <=> A = {}
  <2> HIDE DEF A
  <2> QED  BY <1>1, FS_EmptySet
<1> QED  BY <1>1, <1>2

(* A member exchanged for another leaves the size of a set. *)
LEMMA Exchange ==
    ASSUME NEW A, IsFiniteSet(A), NEW x \in A, NEW y, y \notin A
    PROVE  Cardinality((A \ {x}) \cup {y}) = Cardinality(A)
<1>1. Cardinality(A) \in Nat
  BY FS_CardinalityType
<1>2. IsFiniteSet(A \ {x}) /\ Cardinality(A \ {x}) = Cardinality(A) - 1
  BY FS_RemoveElement
<1>3. Cardinality((A \ {x}) \cup {y}) = Cardinality(A \ {x}) + 1
  BY <1>2, FS_AddElement
<1> QED  BY <1>1, <1>2, <1>3

(* What swap_values does to the values, and that it loses none of them. *)
LEMMA Swapped ==
    ASSUME NEW m \in [Slot -> StoredFloat], NEW i \in Slot, NEW j \in Slot
    PROVE  /\ swap_values(m, i, j) \in [Slot -> StoredFloat]
           /\ swap_values(m, i, j)[i] = m[j]
           /\ swap_values(m, i, j)[j] = m[i]
           /\ \A k \in Slot : k # i /\ k # j => swap_values(m, i, j)[k] = m[k]
BY DEF swap_values

(* swap_values keeps how often each value occurs. *)
LEMMA SwapKeepsCount ==
    ASSUME NEW m \in [Slot -> StoredFloat], NEW n \in 0..MaxValues,
           NEW i \in 0..(n - 1), NEW j \in 0..(n - 1), i # j, NEW f
    PROVE  Count(swap_values(m, i, j), n, f) = Count(m, n, f)
<1> DEFINE w == swap_values(m, i, j)
           A == {k \in 0..(n - 1) : m[k] = f}
           B == {k \in 0..(n - 1) : w[k] = f}
<1>1. 0..(n - 1) \subseteq Slot
  BY HeapAssumption DEF Slot
<1>2. w[i] = m[j] /\ w[j] = m[i] /\ \A k \in Slot : k # i /\ k # j => w[k] = m[k]
  BY <1>1, Swapped
<1>3. IsFiniteSet(A)
  <2>1. n \in Nat
    BY HeapAssumption
  <2> QED  BY <2>1, Interval
<1> HIDE DEF w
<1>4. CASE m[i] = f /\ m[j] # f
  <2>1. B = (A \ {i}) \cup {j} /\ i \in A /\ j \notin A
    BY <1>1, <1>2, <1>4
  <2> HIDE DEF A, B
  <2>2. Cardinality(B) = Cardinality(A)
    BY <1>3, <2>1, Exchange
  <2> QED  BY <2>2 DEF A, B, w, Count
<1>5. CASE m[i] # f /\ m[j] = f
  <2>1. B = (A \ {j}) \cup {i} /\ j \in A /\ i \notin A
    BY <1>1, <1>2, <1>5
  <2> HIDE DEF A, B
  <2>2. Cardinality(B) = Cardinality(A)
    BY <1>3, <2>1, Exchange
  <2> QED  BY <2>2 DEF A, B, w, Count
<1>6. CASE (m[i] = f) <=> (m[j] = f)
  <2>1. B = A
    BY <1>1, <1>2, <1>6
  <2> QED  BY <2>1 DEF w, Count
<1> QED  BY <1>4, <1>5, <1>6

-----------------------------------------------------------------------------
(* sift_up: the value at index may be less than its parent. *)

UpStops(s) == s.index = 0 \/ ~(s.m[s.index] < s.m[PARENT(s.index)])

Raised(s) == [m |-> swap_values(s.m, s.index, PARENT(s.index)),
              index |-> PARENT(s.index)]

UpInv(given, n, s) ==
    /\ s.index < n
    /\ SameFloats(given, s.m, n)
    /\ \A i \in 1..(n - 1) : i # s.index => s.m[PARENT(i)] <= s.m[i]
    /\ s.index # 0 =>
          \A i \in 1..(n - 1) :
             PARENT(i) = s.index => s.m[PARENT(s.index)] <= s.m[i]

SiftDone(given, n, m) ==
    m \in [Slot -> StoredFloat] /\ SameFloats(given, m, n) /\ Ordered(m, n)

(* The parts of a round of sifting. *)
LEMMA SiftFields ==
    ASSUME NEW s \in SiftStates
    PROVE  s.index \in Slot /\ s.m \in [Slot -> StoredFloat]
BY DEF SiftStates, StoredFloat

(* Slots are numbers. *)
LEMMA SlotIsNat == Slot \subseteq Nat
BY HeapAssumption DEF Slot

(* A round of sift_up swaps a value with its parent's and goes there. *)
LEMMA UpRound ==
    ASSUME NEW s \in SiftStates, ~UpStops(s)
    PROVE  /\ Raised(s) \in SiftStates
           /\ Raised(s).index = PARENT(s.index)
           /\ Raised(s).m = swap_values(s.m, s.index, PARENT(s.index))
           /\ PARENT(s.index) \in Slot /\ PARENT(s.index) < s.index
           /\ s.index \in Nat \ {0}
<1>1. s.index \in Slot /\ s.m \in [Slot -> StoredFloat] /\ s.index \in Nat \ {0}
  BY SiftFields, SlotIsNat DEF UpStops
<1>2. PARENT(s.index) \in Nat /\ PARENT(s.index) < s.index
  BY <1>1, ParentIsBefore
<1>3. PARENT(s.index) \in Slot
  BY <1>1, <1>2, HeapAssumption DEF Slot
<1>4. swap_values(s.m, s.index, PARENT(s.index)) \in [Slot -> StoredFloat]
  BY <1>1, <1>3, Swapped
<1> QED  BY <1>1, <1>2, <1>3, <1>4 DEF Raised, SiftStates, StoredFloat

(* A round of sift_up keeps its invariant. *)
LEMMA UpRoundKeeps ==
    ASSUME NEW n \in 1..MaxValues, NEW given, NEW s \in SiftStates,
           UpInv(given, n, s), ~UpStops(s)
    PROVE  UpInv(given, n, Raised(s))
<1> DEFINE k == s.index
           p == PARENT(k)
           m == s.m
           w == swap_values(m, k, p)
<1>1. /\ k \in Nat \ {0} /\ k < n /\ k \in Slot /\ p \in Slot /\ p \in Nat /\ p < k
      /\ m \in [Slot -> StoredFloat] /\ m[k] < m[p]
  BY SiftFields, UpRound, SlotIsNat DEF UpInv, UpStops
<1>2. /\ w[k] = m[p] /\ w[p] = m[k]
      /\ \A i \in Slot : i # k /\ i # p => w[i] = m[i]
  BY <1>1, Swapped
<1>3. Raised(s).index = p /\ Raised(s).m = w
  BY UpRound
<1>4. \A i \in 1..(n - 1) :
        /\ i \in Slot /\ PARENT(i) \in Slot /\ PARENT(i) \in Nat /\ PARENT(i) < i
  <2>1. ASSUME NEW i \in 1..(n - 1)
        PROVE  i \in Slot /\ PARENT(i) \in Slot /\ PARENT(i) \in Nat /\ PARENT(i) < i
    <3>1. i \in Nat \ {0}
      OBVIOUS
    <3>2. PARENT(i) \in Nat /\ PARENT(i) < i
      BY <3>1, ParentIsBefore
    <3> QED  BY <3>1, <3>2, HeapAssumption DEF Slot
  <2> QED  BY <2>1
<1>5. \A i \in Slot : m[i] \in Int
  BY <1>1, FloatIsInt
<1>6. SameFloats(given, w, n)
  <2>1. k \in 0..(n - 1) /\ p \in 0..(n - 1) /\ k # p /\ n \in 0..MaxValues
    BY <1>1, HeapAssumption
  <2>2. \A f \in StoredFloat : Count(w, n, f) = Count(m, n, f)
    BY <1>1, <2>1, SwapKeepsCount
  <2> QED  BY <2>2 DEF UpInv, SameFloats
<1>7. /\ \A i \in 1..(n - 1) : i # k => m[PARENT(i)] <= m[i]
      /\ \A i \in 1..(n - 1) : PARENT(i) = k => m[p] <= m[i]
  BY <1>1 DEF UpInv
<1> HIDE DEF k, m, w
<1>8. ASSUME NEW i \in 1..(n - 1), i # p PROVE w[PARENT(i)] <= w[i]
  <2>1. CASE i = k
    BY <2>1, <1>1, <1>2, <1>5
  <2>2. CASE i # k /\ PARENT(i) = k
    BY <2>2, <1>8, <1>1, <1>2, <1>4, <1>7
  <2>3. CASE i # k /\ PARENT(i) = p
    <3>1. w[PARENT(i)] = m[k] /\ w[i] = m[i] /\ m[p] <= m[i]
      BY <2>3, <1>8, <1>1, <1>2, <1>4, <1>7
    <3>2. m[k] \in Int /\ m[p] \in Int /\ m[i] \in Int
      BY <1>1, <1>4, <1>5
    <3> QED  BY <3>1, <3>2, <1>1
  <2>4. CASE i # k /\ PARENT(i) # k /\ PARENT(i) # p
    BY <2>4, <1>8, <1>2, <1>4, <1>7
  <2> QED  BY <2>1, <2>2, <2>3, <2>4
<1>9. ASSUME p # 0, NEW i \in 1..(n - 1), PARENT(i) = p
      PROVE  w[PARENT(p)] <= w[i]
  <2>1. p \in 1..(n - 1)
    BY <1>1, <1>9
  <2>2. PARENT(p) \in Slot /\ PARENT(p) # p /\ PARENT(p) # k
    BY <2>1, <1>4, <1>1
  <2>3. w[PARENT(p)] = m[PARENT(p)] /\ m[PARENT(p)] <= m[p]
    BY <2>1, <2>2, <1>1, <1>2, <1>7
  <2>4. CASE i = k
    BY <2>3, <2>4, <1>2
  <2>5. CASE i # k
    <3>1. m[p] <= m[i] /\ w[i] = m[i]
      BY <2>5, <1>9, <1>2, <1>4, <1>7
    <3>2. m[PARENT(p)] \in Int /\ m[p] \in Int /\ m[i] \in Int
      BY <1>1, <2>2, <1>4, <1>5
    <3> QED  BY <2>3, <3>1, <3>2
  <2> QED  BY <2>4, <2>5
<1> HIDE DEF p
<1> QED  BY <1>1, <1>3, <1>6, <1>8, <1>9 DEF UpInv

(* Where sift_up stops the order holds everywhere. *)
LEMMA UpStopIsDone ==
    ASSUME NEW n \in 1..MaxValues, NEW given, NEW s \in SiftStates,
           UpInv(given, n, s), UpStops(s)
    PROVE  SiftDone(given, n, s.m)
<1>1. s.index \in Slot /\ s.m \in [Slot -> StoredFloat]
  BY SiftFields
<1>2. ASSUME NEW i \in 1..(n - 1) PROVE s.m[PARENT(i)] <= s.m[i]
  <2>1. CASE i # s.index
    BY <2>1 DEF UpInv
  <2>2. CASE i = s.index
    <3>1. i \in Nat \ {0} /\ ~(s.m[i] < s.m[PARENT(i)])
      BY <2>2 DEF UpStops
    <3>2. i \in Slot /\ PARENT(i) \in Slot
      <4>1. PARENT(i) \in Nat /\ PARENT(i) < i
        BY <3>1, ParentIsBefore
      <4> QED  BY <4>1, HeapAssumption DEF Slot
    <3>3. s.m[i] \in Int /\ s.m[PARENT(i)] \in Int
      BY <3>2, <1>1, FloatIsInt
    <3> QED  BY <3>1, <3>3
  <2> QED  BY <2>1, <2>2
<1> QED  BY <1>1, <1>2 DEF SiftDone, Ordered, UpInv
-----------------------------------------------------------------------------
(* sift_down: the value at index may be greater than its children. *)

DownStops(n, s) == SmallerChild(s.m, n, s.index) = s.index

Lowered(n, s) ==
    [m |-> swap_values(s.m, s.index, SmallerChild(s.m, n, s.index)),
     index |-> SmallerChild(s.m, n, s.index)]

DownInv(given, n, s) ==
    /\ s.index < n
    /\ SameFloats(given, s.m, n)
    /\ \A i \in 1..(n - 1) : PARENT(i) # s.index => s.m[PARENT(i)] <= s.m[i]
    /\ s.index # 0 =>
          \A i \in 1..(n - 1) :
             PARENT(i) = s.index => s.m[PARENT(s.index)] <= s.m[i]

(* The places near i among the first n are slots, and hold numbers. *)
LEMMA Places ==
    ASSUME NEW n \in 1..MaxValues, NEW m \in [Slot -> StoredFloat],
           NEW i \in 0..(n - 1)
    PROVE  /\ i \in Nat /\ i \in Slot /\ m[i] \in Int
           /\ i # 0 => /\ PARENT(i) \in 0..(n - 1) /\ PARENT(i) < i
                       /\ PARENT(i) \in Slot /\ m[PARENT(i)] \in Int
<1>1. \A k \in 0..(n - 1) : k \in Nat /\ k \in Slot
  BY HeapAssumption DEF Slot
<1>2. i # 0 => PARENT(i) \in 0..(n - 1) /\ PARENT(i) < i
  <2>1. ASSUME i # 0 PROVE PARENT(i) \in 0..(n - 1) /\ PARENT(i) < i
    <3>1. i \in Nat \ {0}
      BY <2>1
    <3>2. PARENT(i) \in Nat /\ PARENT(i) < i
      BY <3>1, ParentIsBefore
    <3> QED  BY <3>1, <3>2
  <2> QED  BY <2>1
<1> QED  BY <1>1, <1>2, FloatIsInt

(* SmallerChild: where the value stays, no child is less; otherwise the child *)
(* it gives is less than the value and no greater than its sibling.           *)
LEMMA SmallerChildIs ==
    ASSUME NEW n \in 1..MaxValues, NEW m \in [Slot -> StoredFloat],
           NEW k \in Slot, k < n
    PROVE  LET c == SmallerChild(m, n, k)
           IN  \/ /\ c = k
                  /\ LEFT_CHILD(k) < n => m[k] <= m[LEFT_CHILD(k)]
                  /\ RIGHT_CHILD(k) < n => m[k] <= m[RIGHT_CHILD(k)]
               \/ /\ c \in {LEFT_CHILD(k), RIGHT_CHILD(k)} /\ c < n
                  /\ m[c] < m[k]
                  /\ LEFT_CHILD(k) < n => m[c] <= m[LEFT_CHILD(k)]
                  /\ RIGHT_CHILD(k) < n => m[c] <= m[RIGHT_CHILD(k)]
<1> DEFINE l == LEFT_CHILD(k)
           r == RIGHT_CHILD(k)
<1>1. k \in 0..(n - 1) /\ k \in Nat /\ m[k] \in Int
  <2>1. k \in Nat /\ m[k] \in Int
    BY SlotIsNat, FloatIsInt
  <2> QED  BY <2>1
<1>2. l \in Nat /\ r \in Nat /\ l < r /\ k < l
  BY <1>1 DEF LEFT_CHILD, RIGHT_CHILD
<1>3. (l < n => m[l] \in Int) /\ (r < n => m[r] \in Int)
  <2>1. ASSUME NEW i \in Nat, i < n PROVE m[i] \in Int
    BY <2>1, Places
  <2> QED  BY <1>2, <2>1
<1> HIDE DEF l, r
<1>4. SmallerChild(m, n, k) =
         IF l >= n THEN k
         ELSE IF r >= n THEN IF m[l] < m[k] THEN l ELSE k
         ELSE IF m[l] < m[k] \/ m[r] < m[k]
         THEN IF m[l] < m[r] THEN l ELSE r
         ELSE k
  BY DEF SmallerChild, l, r
<1>5. CASE l >= n
  <2>1. SmallerChild(m, n, k) = k /\ ~(l < n) /\ ~(r < n)
    BY <1>2, <1>4, <1>5
  <2> QED  BY <2>1 DEF l, r
<1>6. CASE l < n /\ r >= n
  <2>1. /\ SmallerChild(m, n, k) = IF m[l] < m[k] THEN l ELSE k
        /\ ~(r < n) /\ m[l] \in Int
    BY <1>2, <1>3, <1>4, <1>6
  <2> QED  BY <2>1, <1>1, <1>6 DEF l, r
<1>7. CASE l < n /\ r < n
  <2>1. /\ SmallerChild(m, n, k) =
             IF m[l] < m[k] \/ m[r] < m[k]
             THEN IF m[l] < m[r] THEN l ELSE r
             ELSE k
        /\ m[l] \in Int /\ m[r] \in Int
    BY <1>2, <1>3, <1>4, <1>7
  <2> QED  BY <2>1, <1>1, <1>7 DEF l, r
<1>8. (l >= n \/ l < n) /\ (r >= n \/ r < n)
  BY <1>2
<1> QED  BY <1>5, <1>6, <1>7, <1>8

(* A round of sift_down swaps a value with its smaller child's and goes     *)
(* there.                                                                   *)
LEMMA DownRound ==
    ASSUME NEW n \in 1..MaxValues, NEW s \in SiftStates, s.index < n,
           ~DownStops(n, s)
    PROVE  LET c == SmallerChild(s.m, n, s.index)
           IN  /\ Lowered(n, s) \in SiftStates
               /\ Lowered(n, s).index = c
               /\ Lowered(n, s).m = swap_values(s.m, s.index, c)
               /\ c \in 1..(n - 1) /\ c \in Slot /\ s.index < c
               /\ PARENT(c) = s.index /\ s.m[c] < s.m[s.index]
               /\ \A i \in 1..(n - 1) : PARENT(i) = s.index => s.m[c] <= s.m[i]
<1> DEFINE c == SmallerChild(s.m, n, s.index)
           k == s.index
<1>1. k \in Slot /\ s.m \in [Slot -> StoredFloat] /\ k \in Nat /\ k < n
  BY SiftFields, SlotIsNat
<1>2. /\ c \in {LEFT_CHILD(k), RIGHT_CHILD(k)} /\ c < n /\ s.m[c] < s.m[k]
      /\ LEFT_CHILD(k) < n => s.m[c] <= s.m[LEFT_CHILD(k)]
      /\ RIGHT_CHILD(k) < n => s.m[c] <= s.m[RIGHT_CHILD(k)]
  BY <1>1, SmallerChildIs DEF DownStops
<1> HIDE DEF c
<1>3. c \in 1..(n - 1) /\ k < c /\ c \in Nat \ {0}
  BY <1>1, <1>2 DEF LEFT_CHILD, RIGHT_CHILD
<1>4. PARENT(c) = k
  BY <1>1, <1>2, <1>3, ChildrenOf
<1>5. c \in Slot
  BY <1>3, HeapAssumption DEF Slot
<1>6. ASSUME NEW i \in 1..(n - 1), PARENT(i) = k PROVE s.m[c] <= s.m[i]
  <2>1. i \in Nat \ {0} /\ i < n
    OBVIOUS
  <2>2. i = LEFT_CHILD(k) \/ i = RIGHT_CHILD(k)
    BY <2>1, <1>1, <1>6, ChildrenOf
  <2> QED  BY <2>1, <2>2, <1>2
<1>7. swap_values(s.m, k, c) \in [Slot -> StoredFloat]
  BY <1>1, <1>5, Swapped
<1>8. Lowered(n, s) = [m |-> swap_values(s.m, k, c), index |-> c]
  BY DEF Lowered, c
<1>9. Lowered(n, s) \in SiftStates
  BY <1>5, <1>7, <1>8 DEF SiftStates, StoredFloat
<1> QED  BY <1>2, <1>3, <1>4, <1>5, <1>6, <1>8, <1>9 DEF c

(* A round of sift_down keeps its invariant. *)
LEMMA DownRoundKeeps ==
    ASSUME NEW n \in 1..MaxValues, NEW given, NEW s \in SiftStates,
           DownInv(given, n, s), ~DownStops(n, s)
    PROVE  DownInv(given, n, Lowered(n, s))
<1> DEFINE k == s.index
           c == SmallerChild(s.m, n, k)
           m == s.m
           w == swap_values(m, k, c)
<1>1. /\ k \in Nat /\ k < n /\ k \in 0..(n - 1) /\ k \in Slot
      /\ m \in [Slot -> StoredFloat]
  <2>1. k \in Nat /\ k < n /\ k \in Slot /\ m \in [Slot -> StoredFloat]
    BY SiftFields, SlotIsNat DEF DownInv
  <2> QED  BY <2>1
<1>2. /\ Lowered(n, s).index = c /\ Lowered(n, s).m = w
      /\ c \in 1..(n - 1) /\ c \in Slot /\ k < c /\ PARENT(c) = k /\ m[c] < m[k]
      /\ \A i \in 1..(n - 1) : PARENT(i) = k => m[c] <= m[i]
  BY <1>1, DownRound
<1> HIDE DEF c
<1>3. /\ w[k] = m[c] /\ w[c] = m[k]
      /\ \A i \in Slot : i # k /\ i # c => w[i] = m[i]
  BY <1>1, <1>2, Swapped
<1>4. \A i \in 0..(n - 1) :
        /\ i \in Nat /\ i \in Slot /\ m[i] \in Int
        /\ i # 0 => /\ PARENT(i) \in 0..(n - 1) /\ PARENT(i) < i
                    /\ PARENT(i) \in Slot /\ m[PARENT(i)] \in Int
  BY <1>1, Places
<1>5. SameFloats(given, w, n)
  <2>1. c \in 0..(n - 1) /\ k # c /\ n \in 0..MaxValues
    BY <1>1, <1>2, HeapAssumption
  <2>2. \A f \in StoredFloat : Count(w, n, f) = Count(m, n, f)
    BY <1>1, <2>1, SwapKeepsCount
  <2> QED  BY <2>2 DEF DownInv, SameFloats
<1>6. /\ \A i \in 1..(n - 1) : PARENT(i) # k => m[PARENT(i)] <= m[i]
      /\ k # 0 => \A i \in 1..(n - 1) : PARENT(i) = k => m[PARENT(k)] <= m[i]
  BY DEF DownInv
<1> HIDE DEF k, m, w
<1>7. ASSUME NEW i \in 1..(n - 1), PARENT(i) # c PROVE w[PARENT(i)] <= w[i]
  <2>0. i \in 0..(n - 1) /\ i # 0
    OBVIOUS
  <2>1. CASE i = c
    BY <2>1, <1>1, <1>2, <1>3, <1>4
  <2>2. CASE i # c /\ PARENT(i) = k
    <3>1. i # k /\ i \in Slot
      BY <2>0, <2>2, <1>4
    <3> QED  BY <2>2, <3>1, <1>2, <1>3
  <2>3. CASE i = k
    <3>1. w[i] = m[c] /\ PARENT(i) < k /\ PARENT(i) \in Slot
      BY <2>0, <2>3, <1>3, <1>4
    <3>2. PARENT(i) # k /\ PARENT(i) # c
      BY <2>0, <2>3, <1>1, <1>4, <1>7
    <3>3. w[PARENT(i)] = m[PARENT(i)]
      BY <3>1, <3>2, <1>3
    <3> QED  BY <2>0, <2>3, <3>1, <3>3, <1>2, <1>6
  <2>4. CASE i # c /\ i # k /\ PARENT(i) # k
    <3>1. w[i] = m[i] /\ w[PARENT(i)] = m[PARENT(i)]
      BY <2>0, <2>4, <1>3, <1>4, <1>7
    <3> QED  BY <2>4, <3>1, <1>6
  <2> QED  BY <2>1, <2>2, <2>3, <2>4
<1>8. ASSUME NEW i \in 1..(n - 1), PARENT(i) = c PROVE w[PARENT(c)] <= w[i]
  <2>1. i \in 0..(n - 1) /\ i # 0 /\ c \in 0..(n - 1)
    BY <1>2
  <2>2. c < i /\ i \in Slot /\ i # c /\ i # k
    BY <2>1, <1>1, <1>2, <1>4, <1>8
  <2>3. w[i] = m[i] /\ w[PARENT(c)] = m[c]
    BY <2>2, <1>2, <1>3
  <2>4. c # k
    BY <1>1, <1>2
  <2> QED  BY <2>3, <2>4, <1>6, <1>8
<1>9. c < n
  BY <1>2
<1> QED  BY <1>2, <1>5, <1>7, <1>8, <1>9 DEF DownInv

(* Where sift_down stops the order holds everywhere. *)
LEMMA DownStopIsDone ==
    ASSUME NEW n \in 1..MaxValues, NEW given, NEW s \in SiftStates,
           DownInv(given, n, s), DownStops(n, s)
    PROVE  SiftDone(given, n, s.m)
<1> DEFINE k == s.index
<1>1. k \in Slot /\ s.m \in [Slot -> StoredFloat] /\ k < n /\ k \in Nat
  BY SiftFields, SlotIsNat DEF DownInv
<1>2. /\ LEFT_CHILD(k) < n => s.m[k] <= s.m[LEFT_CHILD(k)]
      /\ RIGHT_CHILD(k) < n => s.m[k] <= s.m[RIGHT_CHILD(k)]
  <2>1. LEFT_CHILD(k) # k /\ RIGHT_CHILD(k) # k
    BY <1>1 DEF LEFT_CHILD, RIGHT_CHILD
  <2> QED  BY <1>1, <2>1, SmallerChildIs DEF DownStops
<1>3. ASSUME NEW i \in 1..(n - 1) PROVE s.m[PARENT(i)] <= s.m[i]
  <2>1. CASE PARENT(i) # k
    BY <2>1 DEF DownInv
  <2>2. CASE PARENT(i) = k
    <3>1. i \in Nat \ {0} /\ i < n
      OBVIOUS
    <3>2. i = LEFT_CHILD(k) \/ i = RIGHT_CHILD(k)
      BY <3>1, <2>2, <1>1, ChildrenOf
    <3> QED  BY <3>1, <3>2, <2>2, <1>2
  <2> QED  BY <2>1, <2>2
<1> QED  BY <1>1, <1>3 DEF SiftDone, Ordered, DownInv
-----------------------------------------------------------------------------
(* What the two loops make of a heap. *)

(* sift_up repairs a heap that is wrong at its place only. *)
LEMMA SiftUpIsDone ==
    ASSUME NEW n \in 1..MaxValues, NEW given \in [Slot -> StoredFloat],
           NEW k \in Slot,
           UpInv(given, n, [m |-> given, index |-> k])
    PROVE  SiftDone(given, n, sift_up(given, k))
<1> DEFINE S == SiftStates
           stop == {s \in S : UpStops(s)}
           res == [s \in S |-> s.m]
           next == [s \in S |-> Raised(s)]
           measure == [s \in S |-> s.index]
           inv == {s \in S : UpInv(given, n, s)}
           good == {m \in [Slot -> StoredFloat] : SiftDone(given, n, m)}
           first == [m |-> given, index |-> k]
           Body(g) == [s \in S |-> IF UpStops(s) THEN s.m ELSE g[Raised(s)]]
           sift == CHOOSE g : g = Body(g)
<1>1. Falls(measure, S, stop, next)
  <2>1. measure \in [S -> Nat]
    BY SiftFields, SlotIsNat
  <2>2. ASSUME NEW s \in S \ stop
        PROVE  next[s] \in S /\ measure[next[s]] < measure[s]
    <3>1. ~UpStops(s) /\ s \in S
      OBVIOUS
    <3> QED  BY <3>1, UpRound
  <2> QED  BY <2>1, <2>2 DEF Falls
<1>2. ASSUME NEW g PROVE IsLoop(g, S, stop, res, next) <=> g = Body(g)
  <2>1. [s \in S |-> IF s \in stop THEN res[s] ELSE g[next[s]]] = Body(g)
    OBVIOUS
  <2> QED  BY <2>1 DEF IsLoop
<1>3. sift = Body(sift)
  <2>1. \E g : IsLoop(g, S, stop, res, next)
    <3> HIDE DEF S, stop, res, next, measure
    <3> QED  BY <1>1, LoopDefined
  <2>2. \E g : g = Body(g)
    BY <2>1, <1>2
  <2> HIDE DEF Body
  <2> QED  BY <2>2
<1>4. IsLoop(sift, S, stop, res, next)
  <2> HIDE DEF Body, sift
  <2> QED  BY <1>2, <1>3
<1>5. Keeps(inv, good, S, stop, res, next)
  <2>1. ASSUME NEW s \in inv, s \notin stop PROVE next[s] \in inv
    <3>1. ~UpStops(s) /\ s \in S
      BY <2>1
    <3> QED  BY <3>1, UpRound, UpRoundKeeps
  <2>2. ASSUME NEW s \in inv \cap stop PROVE res[s] \in good
    <3>1. SiftDone(given, n, s.m)
      BY UpStopIsDone
    <3>2. s.m \in [Slot -> StoredFloat]
      BY <3>1 DEF SiftDone
    <3> QED  BY <3>1, <3>2
  <2> QED  BY <2>1, <2>2 DEF Keeps
<1>6. \A s \in inv : sift[s] \in good
  <2> HIDE DEF S, stop, res, next, measure, inv, good, sift
  <2> QED  BY <1>1, <1>4, <1>5, LoopRule
<1>7. first \in inv
  BY DEF SiftStates, StoredFloat
<1>8. sift_up(given, k) = sift[first]
  BY DEF sift_up, UpStops, Raised
<1> HIDE DEF sift, inv
<1> QED  BY <1>6, <1>7, <1>8

(* Where sift_down goes on there are children. *)
LEMMA StillSmall ==
    ASSUME NEW n \in 1..MaxValues, NEW s \in SiftStates, ~DownStops(n, s)
    PROVE  s.index < n
<1>1. s.index \in Nat
  BY SiftFields, SlotIsNat
<1>2. LEFT_CHILD(s.index) < n
  <2>1. LEFT_CHILD(s.index) \in Nat
    BY <1>1 DEF LEFT_CHILD
  <2> QED  BY <2>1 DEF DownStops, SmallerChild
<1> QED  BY <1>1, <1>2 DEF LEFT_CHILD

(* sift_down repairs a heap that is wrong at its place only. *)
LEMMA SiftDownIsDone ==
    ASSUME NEW n \in 1..MaxValues, NEW given \in [Slot -> StoredFloat],
           NEW k \in Slot,
           DownInv(given, n, [m |-> given, index |-> k])
    PROVE  SiftDone(given, n, sift_down(given, n, k))
<1> DEFINE S == SiftStates
           stop == {s \in S : DownStops(n, s)}
           res == [s \in S |-> s.m]
           next == [s \in S |-> Lowered(n, s)]
           measure == [s \in S |-> MaxValues - s.index]
           inv == {s \in S : DownInv(given, n, s)}
           good == {m \in [Slot -> StoredFloat] : SiftDone(given, n, m)}
           first == [m |-> given, index |-> k]
           Body(g) == [s \in S |-> IF DownStops(n, s) THEN s.m ELSE g[Lowered(n, s)]]
           sift == CHOOSE g : g = Body(g)
<1>1. Falls(measure, S, stop, next)
  <2>1. ASSUME NEW s \in S
        PROVE  s.index \in Nat /\ MaxValues - s.index \in Nat
    BY SiftFields, HeapAssumption DEF Slot
  <2>2. ASSUME NEW s \in S \ stop
        PROVE  next[s] \in S /\ measure[next[s]] < measure[s]
    <3>1. ~DownStops(n, s) /\ s \in S
      OBVIOUS
    <3>2. s.index < n
      BY <3>1, StillSmall
    <3>3. Lowered(n, s) \in S /\ s.index < Lowered(n, s).index
      BY <3>1, <3>2, DownRound
    <3> QED  BY <3>1, <3>3, <2>1, HeapAssumption
  <2> QED  BY <2>1, <2>2 DEF Falls
<1>2. ASSUME NEW g PROVE IsLoop(g, S, stop, res, next) <=> g = Body(g)
  <2>1. [s \in S |-> IF s \in stop THEN res[s] ELSE g[next[s]]] = Body(g)
    OBVIOUS
  <2> QED  BY <2>1 DEF IsLoop
<1>3. sift = Body(sift)
  <2>1. \E g : IsLoop(g, S, stop, res, next)
    <3> HIDE DEF S, stop, res, next, measure
    <3> QED  BY <1>1, LoopDefined
  <2>2. \E g : g = Body(g)
    BY <2>1, <1>2
  <2> HIDE DEF Body
  <2> QED  BY <2>2
<1>4. IsLoop(sift, S, stop, res, next)
  <2> HIDE DEF Body, sift
  <2> QED  BY <1>2, <1>3
<1>5. Keeps(inv, good, S, stop, res, next)
  <2>1. ASSUME NEW s \in inv, s \notin stop PROVE next[s] \in inv
    <3>1. ~DownStops(n, s) /\ s \in S
      BY <2>1
    <3>2. s.index < n
      BY DEF DownInv
    <3> QED  BY <3>1, <3>2, DownRound, DownRoundKeeps
  <2>2. ASSUME NEW s \in inv \cap stop PROVE res[s] \in good
    <3>1. SiftDone(given, n, s.m)
      BY DownStopIsDone
    <3>2. s.m \in [Slot -> StoredFloat]
      BY <3>1 DEF SiftDone
    <3> QED  BY <3>1, <3>2
  <2> QED  BY <2>1, <2>2 DEF Keeps
<1>6. \A s \in inv : sift[s] \in good
  <2> HIDE DEF S, stop, res, next, measure, inv, good, sift
  <2> QED  BY <1>1, <1>4, <1>5, LoopRule
<1>7. first \in inv
  BY DEF SiftStates, StoredFloat
<1>8. sift_down(given, n, k) = sift[first]
  BY DEF sift_down, DownStops, Lowered
<1> HIDE DEF sift, inv
<1> QED  BY <1>6, <1>7, <1>8
-----------------------------------------------------------------------------
(* The operations.  The heap is ordered, which is why its root is least. *)

HeapTypeOK ==
    /\ memory \in [Slot -> StoredFloat]
    /\ num_values \in 0..MaxValues
    /\ contents \in [Float -> Int]

Holds == \A i \in 0..(num_values - 1) : memory[i] \in Float

HeapInv ==
    /\ HeapTypeOK
    /\ Holds
    /\ Ordered(memory, num_values)
    /\ HandsOutLeast

(* The empty heap has the invariant. *)
LEMMA HeapInvInit == init_heap => HeapInv
<1> SUFFICES ASSUME init_heap PROVE HeapInv
  OBVIOUS
<1>1. HeapTypeOK
  BY HeapAssumption DEF init_heap, HeapTypeOK, StoredFloat
<1>2. Ordered(memory, num_values)
  BY DEF init_heap, Ordered
<1>3. \A f \in Float : Count(memory, 0, f) = 0
  BY CountNone
<1>4. Holds
  BY DEF init_heap, Holds
<1> QED  BY <1>1, <1>2, <1>3, <1>4 DEF HeapInv, HandsOutLeast, Count, init_heap

(* What holds a program's values still does when it is sifted. *)
LEMMA SiftedHolds ==
    ASSUME NEW n \in 1..MaxValues, NEW given, NEW m, SiftDone(given, n, m),
           \A i \in 0..(n - 1) : given[i] \in Float
    PROVE  \A i \in 0..(n - 1) : m[i] \in Float
<1>1. n \in Nat
  BY HeapAssumption
<1>2. ASSUME NEW i \in 0..(n - 1) PROVE m[i] \in Float
  <2>1. i \in Slot
    BY HeapAssumption DEF Slot
  <2>2. m[i] \in StoredFloat /\ Count(given, n, m[i]) = Count(m, n, m[i])
    BY <2>1 DEF SiftDone, SameFloats
  <2>3. Count(m, n, m[i]) > 0
    BY <1>1, CountPositive
  <2>4. \E k \in 0..(n - 1) : given[k] = m[i]
    BY <1>1, <2>2, <2>3, CountPositive
  <2> QED  BY <2>4
<1> QED  BY <1>2

(* Adding a value keeps the invariant. *)
LEMMA AddKeepsHeap ==
    ASSUME HeapInv, NEW newval \in Float, add_value(newval)
    PROVE  HeapInv'
<1> DEFINE n == num_values
           given == [memory EXCEPT ![n] = newval]
           first == [m |-> given, index |-> n]
<1>1. /\ memory \in [Slot -> StoredFloat] /\ contents \in [Float -> Int]
      /\ n \in Nat /\ n < MaxValues /\ MaxValues \in Nat
      /\ Ordered(memory, n) /\ least /\ \A i \in 0..(n - 1) : memory[i] \in Float
      /\ \A f \in Float : contents[f] = Count(memory, n, f)
  BY HeapAssumption DEF HeapInv, HeapTypeOK, HandsOutLeast, Count, Holds, add_value
<1>2. n \in Slot /\ n + 1 \in 1..MaxValues
  BY <1>1 DEF Slot
<1>3. /\ given \in [Slot -> StoredFloat] /\ given[n] = newval
      /\ \A i \in Slot : i # n => given[i] = memory[i]
  BY <1>1, <1>2 DEF StoredFloat
<1>4. \A i \in 0..(n - 1) : i \in Slot /\ given[i] = memory[i]
  BY <1>1, <1>2, <1>3 DEF Slot
<1> HIDE DEF given
<1>5. UpInv(given, n + 1, first)
  <2>1. \A i \in 1..((n + 1) - 1) : i # n => given[PARENT(i)] <= given[i]
    <3>1. ASSUME NEW i \in 1..((n + 1) - 1), i # n
          PROVE  given[PARENT(i)] <= given[i]
      <4>1. i \in 1..(n - 1) /\ i \in Nat \ {0}
        BY <1>1, <3>1
      <4>2. PARENT(i) \in 0..(n - 1)
        BY <4>1, ParentIsBefore, <1>1
      <4> QED  BY <4>1, <4>2, <1>1, <1>4 DEF Ordered
    <3> QED  BY <3>1
  <2>2. ASSUME n # 0, NEW i \in 1..((n + 1) - 1), PARENT(i) = n
        PROVE  FALSE
    <3>1. i \in Nat \ {0} /\ i <= n
      BY <1>1
    <3> QED  BY <3>1, <2>2, <1>1, ParentIsBefore
  <2>3. SameFloats(given, given, n + 1)
    BY DEF SameFloats
  <2>4. first.m = given /\ first.index = n /\ n < n + 1
    BY <1>1
  <2> HIDE DEF first
  <2> QED  BY <2>1, <2>2, <2>3, <2>4 DEF UpInv
<1>6. SiftDone(given, n + 1, sift_up(given, n))
  BY <1>2, <1>3, <1>5, SiftUpIsDone
<1>7. /\ memory' = sift_up(given, n) /\ num_values' = n + 1 /\ least' = least
      /\ contents' = [contents EXCEPT ![newval] = @ + 1]
  BY DEF add_value, given
<1>8. HeapTypeOK'
  BY <1>1, <1>2, <1>6, <1>7 DEF HeapTypeOK, SiftDone
<1>9. Ordered(memory', num_values')
  BY <1>6, <1>7 DEF SiftDone
<1>10. ASSUME NEW f \in Float PROVE contents'[f] = Count(memory', num_values', f)
  <2>1. Count(memory', num_values', f) = Count(given, n + 1, f)
    BY <1>6, <1>7 DEF SiftDone, SameFloats, StoredFloat
  <2>2. Count(given, n, f) = Count(memory, n, f)
    BY <1>1, <1>4, CountSame
  <2>3. Count(given, n + 1, f) = contents[f] + (IF newval = f THEN 1 ELSE 0)
    BY <1>1, <1>3, <2>2, CountStep
  <2>4. contents'[f] = contents[f] + (IF newval = f THEN 1 ELSE 0)
    BY <1>1, <1>7
  <2> QED  BY <2>1, <2>3, <2>4
<1>11. HandsOutLeast'
  BY <1>1, <1>7, <1>10 DEF HandsOutLeast, Count
<1>12. Holds'
  <2>1. \A i \in 0..((n + 1) - 1) : given[i] \in Float
    BY <1>1, <1>3, <1>4
  <2> QED  BY <2>1, <1>2, <1>6, <1>7, SiftedHolds DEF Holds
<1> QED  BY <1>8, <1>9, <1>11, <1>12 DEF HeapInv

(* Taking the first value keeps the invariant. *)
LEMMA GetKeepsHeap ==
    ASSUME HeapInv, get_first_value
    PROVE  HeapInv'
<1> DEFINE n == num_values - 1
           v == memory[0]
           given == [memory EXCEPT ![0] = memory[n]]
           first == [m |-> given, index |-> 0]
<1>1. /\ memory \in [Slot -> StoredFloat] /\ contents \in [Float -> Int]
      /\ n \in Nat /\ n < MaxValues /\ MaxValues \in Nat /\ num_values = n + 1
      /\ Ordered(memory, n + 1)
      /\ \A i \in 0..n : memory[i] \in Float
      /\ \A f \in Float : contents[f] = Count(memory, n + 1, f)
  BY HeapAssumption
     DEF HeapInv, HeapTypeOK, HandsOutLeast, Count, Holds, get_first_value
<1>2. /\ num_values' = n
      /\ memory' = IF n = 0 THEN memory ELSE sift_down(given, n, 0)
      /\ contents' = [contents EXCEPT ![v] = @ - 1]
      /\ least' = \A f \in Float : contents[f] > 0 => v <= f
  BY DEF get_first_value
<1>3. v \in Float /\ 0 \in Slot /\ n \in Slot /\ n + 1 \in 1..MaxValues
  BY <1>1 DEF Slot
<1> HIDE DEF n
<1>4. /\ given \in [Slot -> StoredFloat] /\ given[0] = memory[n]
      /\ \A i \in Slot : i # 0 => given[i] = memory[i]
  BY <1>1, <1>3
<1> HIDE DEF given, v
<1>5. ASSUME NEW f \in Float
      PROVE  Count(given, n, f) = Count(memory, n + 1, f) - (IF v = f THEN 1 ELSE 0)
  <2>1. CASE n = 0
    <3>1. Count(memory, n + 1, f) = 0 + (IF v = f THEN 1 ELSE 0)
      BY <2>1, CountStep, CountNone DEF v
    <3> QED  BY <2>1, <3>1, CountNone
  <2>2. CASE n # 0
    <3> DEFINE w == swap_values(memory, 0, n)
    <3>1. /\ w[0] = memory[n] /\ w[n] = v
          /\ \A k \in Slot : k # 0 /\ k # n => w[k] = memory[k]
      BY <1>1, <1>3, Swapped DEF v
    <3>2. \A i \in 0..(n - 1) : given[i] = w[i]
      <4>1. \A i \in 0..(n - 1) : i \in Slot /\ i # n
        BY <1>1 DEF Slot
      <4> HIDE DEF w
      <4> QED  BY <4>1, <3>1, <1>4
    <3>3. Count(w, n + 1, f) = Count(memory, n + 1, f)
      <4>1. 0 \in 0..((n + 1) - 1) /\ n \in 0..((n + 1) - 1) /\ n + 1 \in 0..MaxValues
        BY <1>1
      <4> QED  BY <4>1, <2>2, <1>1, SwapKeepsCount
    <3> HIDE DEF w
    <3>4. Count(given, n, f) = Count(w, n, f)
      BY <3>2, <1>1, CountSame
    <3>5. Count(w, n + 1, f) = Count(w, n, f) + (IF v = f THEN 1 ELSE 0)
      BY <3>1, <1>1, CountStep
    <3>6. Count(w, n, f) \in Nat
      BY <1>1, Interval
    <3> QED  BY <3>3, <3>4, <3>5, <3>6
  <2> QED  BY <2>1, <2>2
<1>6. /\ memory' \in [Slot -> StoredFloat]
      /\ Ordered(memory', n)
      /\ \A f \in Float : Count(memory', n, f) = Count(given, n, f)
      /\ \A i \in 0..(n - 1) : memory'[i] \in Float
  <2>1. CASE n = 0
    <3>1. memory' = memory
      BY <1>2, <2>1
    <3>2. \A f \in Float : Count(memory, 0, f) = 0 /\ Count(given, 0, f) = 0
      BY CountNone
    <3>3. Ordered(memory, 0)
      BY DEF Ordered
    <3> QED  BY <1>1, <2>1, <3>1, <3>2, <3>3
  <2>2. CASE n # 0
    <3>1. n \in 1..MaxValues
      BY <1>1, <2>2
    <3>2. \A i \in 1..(n - 1) : PARENT(i) # 0 => given[PARENT(i)] <= given[i]
      <4>1. ASSUME NEW i \in 1..(n - 1), PARENT(i) # 0
            PROVE  given[PARENT(i)] <= given[i]
        <5>1. i \in Nat \ {0} /\ i \in 1..((n + 1) - 1) /\ i \in Slot
          BY <1>1 DEF Slot
        <5>2. PARENT(i) \in Nat /\ PARENT(i) < i
          BY <5>1, ParentIsBefore
        <5>3. PARENT(i) \in Slot
          BY <1>1, <5>2 DEF Slot
        <5>4. memory[PARENT(i)] <= memory[i]
          BY <1>1, <5>1 DEF Ordered
        <5> QED  BY <4>1, <5>1, <5>3, <5>4, <1>4
      <4> QED  BY <4>1
    <3>3. DownInv(given, n, first)
      <4>1. first.m = given /\ first.index = 0 /\ 0 < n
        BY <3>1
      <4>2. SameFloats(given, given, n)
        BY DEF SameFloats
      <4> HIDE DEF first
      <4> QED  BY <4>1, <4>2, <3>2 DEF DownInv
    <3>4. SiftDone(given, n, sift_down(given, n, 0))
      BY <1>3, <1>4, <3>1, <3>3, SiftDownIsDone
    <3>5. memory' = sift_down(given, n, 0)
      BY <1>2, <2>2
    <3>6. SiftDone(given, n, memory')
      BY <3>4, <3>5
    <3>7. \A i \in 0..(n - 1) : given[i] \in Float
      <4>1. \A i \in 0..(n - 1) : i \in Slot /\ i \in 0..n
        BY <1>1 DEF Slot
      <4>2. n \in 0..n
        BY <1>1
      <4> QED  BY <4>1, <4>2, <1>1, <1>4
    <3>8. \A i \in 0..(n - 1) : memory'[i] \in Float
      BY <3>1, <3>6, <3>7, SiftedHolds
    <3> QED  BY <3>6, <3>8 DEF SiftDone, SameFloats, StoredFloat
  <2> QED  BY <2>1, <2>2
<1>7. HeapTypeOK'
  BY <1>1, <1>2, <1>3, <1>6 DEF HeapTypeOK
<1>8. ASSUME NEW f \in Float PROVE contents'[f] = Count(memory', num_values', f)
  <2>1. contents'[f] = contents[f] - (IF v = f THEN 1 ELSE 0)
    BY <1>1, <1>2, <1>3
  <2>2. Count(memory', num_values', f) = Count(given, n, f)
    BY <1>2, <1>6
  <2> QED  BY <2>1, <2>2, <1>1, <1>5
<1>9. least'
  <2>1. ASSUME NEW f \in Float, contents[f] > 0 PROVE v <= f
    <3>1. Count(memory, n + 1, f) > 0
      BY <2>1, <1>1
    <3>2. PICK i \in 0..((n + 1) - 1) : memory[i] = f
      BY <3>1, <1>1, CountPositive
    <3> QED  BY <3>2, <1>1, <1>3, RootIsLeast DEF v
  <2> QED  BY <2>1, <1>2
<1>10. HandsOutLeast'
  BY <1>8, <1>9 DEF HandsOutLeast, Count
<1>11. Ordered(memory', num_values') /\ Holds'
  BY <1>2, <1>6 DEF Holds
<1> QED  BY <1>7, <1>10, <1>11 DEF HeapInv

(* Every step keeps the invariant. *)
LEMMA HeapInvNext == HeapInv /\ [HeapNext]_heapVars => HeapInv'
<1> SUFFICES ASSUME HeapInv, [HeapNext]_heapVars PROVE HeapInv'
  OBVIOUS
<1>1. CASE \E f \in Float : add_value(f)
  BY <1>1, AddKeepsHeap
<1>2. CASE get_first_value
  BY <1>2, GetKeepsHeap
<1>3. CASE UNCHANGED heapVars
  BY <1>3 DEF heapVars, HeapInv, HeapTypeOK, Ordered, Holds, HandsOutLeast
<1> QED  BY <1>1, <1>2, <1>3 DEF HeapNext

(* heap.c hands out a least value in any mix of additions and removals, and   *)
(* holds each value as often as it was added and not taken (add_value,        *)
(* get_first_value, sift_up, sift_down).                                      *)
THEOREM HeapHandsOutLeast == HeapSpec => []HandsOutLeast
<1>1. init_heap => HeapInv
  BY HeapInvInit
<1>2. HeapInv /\ [HeapNext]_heapVars => HeapInv'
  BY HeapInvNext
<1>3. HeapInv => HandsOutLeast
  BY DEF HeapInv
<1> QED  BY <1>1, <1>2, <1>3, PTL DEF HeapSpec

-----------------------------------------------------------------------------
(****************************************************************************)
(* The allocator.                                                           *)
(****************************************************************************)

USE DEF HeaderSize

(* Where block h of the bytes m ends. *)
End(m, h) == h + Magnitude(m[h].size)

(* The footer of block h is a copy of its header. *)
Mirrored(m, h) == HeaderAt(m, End(m, h) - HeaderSize, m[h].size)

(* S are the headers of the blocks that tile a pool of M bytes.  Only the      *)
(* footer of the first block of all may be out of place.                       *)
Tiles(m, M, S) ==
    /\ m \in [0..(M - 1) -> Byte]
    /\ S \subseteq 0..(M - 1) /\ 0 \in S
    /\ \A h \in S : /\ HeaderAt(m, h, m[h].size)
                    /\ Magnitude(m[h].size) >= 8
                    /\ End(m, h) \in S \cup {M}
    /\ \A h, k \in S : h < k => End(m, h) <= k
    /\ \A x \in S \cup {M} : x # 0 => \E q \in S : End(m, q) = x
    /\ S = {0} \/ \A h \in S : Mirrored(m, h)

(* The size of a block, whatever the sign of its header. *)
LEMMA Magnitudes ==
    ASSUME NEW n \in Int
    PROVE  /\ Magnitude(n) \in Nat
           /\ n > 0 => Magnitude(n) = n
           /\ n < 0 => Magnitude(n) = -n
           /\ Magnitude(-n) = Magnitude(n)
BY DEF Magnitude

(* The place of a block: it lies in the pool, and apart from the others. *)
LEMMA BlockPlace ==
    ASSUME NEW M \in Nat, NEW m, NEW S, Tiles(m, M, S), NEW h \in S
    PROVE  /\ h \in 0..(M - 1) /\ m[h].size \in Int /\ m[h].size # 0
           /\ End(m, h) \in Int /\ h + 8 <= End(m, h) /\ End(m, h) <= M
           /\ Magnitude(m[h].size) = End(m, h) - h
           /\ End(m, h) \in S \cup {M}
           /\ HeaderAt(m, h, m[h].size) /\ (S = {0} \/ Mirrored(m, h))
           /\ m[h].size > 0 => End(m, h) = h + m[h].size
           /\ m[h].size < 0 => End(m, h) = h - m[h].size
           /\ \A k \in S : h < k => End(m, h) <= k
<1>1. h \in 0..(M - 1) /\ m[h].size \in Int /\ Magnitude(m[h].size) >= 8
  <2>1. h \in 0..(M - 1) /\ m[h] \in Byte /\ Magnitude(m[h].size) >= 8
    BY DEF Tiles
  <2> QED  BY <2>1 DEF Byte
<1>2. /\ Magnitude(m[h].size) \in Nat
      /\ m[h].size > 0 => Magnitude(m[h].size) = m[h].size
      /\ m[h].size < 0 => Magnitude(m[h].size) = -m[h].size
  BY <1>1, Magnitudes
<1>3. End(m, h) = h + Magnitude(m[h].size)
  BY DEF End
<1>4. /\ End(m, h) \in S \cup {M}
      /\ HeaderAt(m, h, m[h].size) /\ (S = {0} \/ Mirrored(m, h))
      /\ \A k \in S : h < k => End(m, h) <= k
  BY DEF Tiles
<1>5. \A x \in S \cup {M} : x <= M
  BY DEF Tiles
<1>6. m[h].size # 0
  BY <1>1 DEF Magnitude
<1> QED  BY <1>1, <1>2, <1>3, <1>4, <1>5, <1>6

(* An integer is read from its first byte, *)
LEMMA HeaderSays ==
    ASSUME NEW m, NEW p \in Int, NEW n, HeaderAt(m, p, n)
    PROVE  m[p].size = n
BY DEF HeaderAt

(* and stays where its bytes do. *)
LEMMA HeaderStays ==
    ASSUME NEW m, NEW w, NEW p \in Int, NEW n, HeaderAt(m, p, n),
           \A c \in p..(p + 3) : w[c] = m[c]
    PROVE  HeaderAt(w, p, n)
<1>1. \A k \in 0..3 : p + k \in p..(p + 3)
  OBVIOUS
<1> QED  BY <1>1 DEF HeaderAt

(* A block whose bytes stay remains a block. *)
LEMMA BlockStays ==
    ASSUME NEW M \in Nat, NEW m, NEW S, Tiles(m, M, S), NEW k \in S,
           NEW w, \A c \in 0..(M - 1) : k <= c /\ c < End(m, k) => w[c] = m[c]
    PROVE  /\ w[k] = m[k] /\ End(w, k) = End(m, k)
           /\ HeaderAt(w, k, w[k].size)
           /\ Mirrored(m, k) => Mirrored(w, k)
<1>1. /\ k \in 0..(M - 1) /\ k \in Int /\ End(m, k) \in Int /\ k + 8 <= End(m, k)
      /\ End(m, k) <= M /\ HeaderAt(m, k, m[k].size)
  BY BlockPlace
<1>2. w[k] = m[k]
  BY <1>1
<1>3. End(w, k) = End(m, k)
  BY <1>2 DEF End
<1>4. HeaderAt(w, k, w[k].size)
  <2>1. \A c \in k..(k + 3) : w[c] = m[c]
    BY <1>1
  <2> QED  BY <2>1, <1>1, <1>2, HeaderStays
<1>5. ASSUME Mirrored(m, k) PROVE Mirrored(w, k)
  <2> DEFINE f == End(m, k) - HeaderSize
  <2>1. f \in Int /\ \A c \in f..(f + 3) : w[c] = m[c]
    BY <1>1
  <2>2. HeaderAt(m, f, m[k].size)
    BY <1>5 DEF Mirrored
  <2> HIDE DEF f
  <2>3. HeaderAt(w, f, w[k].size)
    BY <2>1, <2>2, <1>2, HeaderStays
  <2> QED  BY <2>3, <1>3 DEF Mirrored, f
<1> QED  BY <1>2, <1>3, <1>4, <1>5

-----------------------------------------------------------------------------
(* Headers walks the blocks. *)

HeadersOf(m, M) ==
    LET header[p \in 0..M] ==
            p = 0 \/ \E q \in 0..(p - 1) : q + Magnitude(m[q].size) = p /\ header[q]
    IN  {p \in 0..M : header[p]}

(* A place other than the first is a header if the block before ends there. *)
LEMMA HeaderRule ==
    ASSUME NEW M \in Nat, NEW m, NEW S, Tiles(m, M, S), NEW p \in 0..M
    PROVE  p \in S \cup {M} <=>
              \/ p = 0
              \/ \E q \in 0..(p - 1) : q + Magnitude(m[q].size) = p /\ q \in S \cup {M}
<1>1. CASE p = 0
  BY <1>1 DEF Tiles
<1>2. ASSUME p # 0, p \in S \cup {M}
      PROVE  \E q \in 0..(p - 1) : q + Magnitude(m[q].size) = p /\ q \in S \cup {M}
  <2>1. PICK q \in S : End(m, q) = p
    BY <1>2 DEF Tiles
  <2>2. q \in 0..(M - 1) /\ q + 8 <= p
    BY <2>1, BlockPlace
  <2>3. q \in 0..(p - 1) /\ q + Magnitude(m[q].size) = p
    BY <2>1, <2>2 DEF End
  <2> QED  BY <2>1, <2>3
<1>3. ASSUME NEW q \in 0..(p - 1), q + Magnitude(m[q].size) = p, q \in S \cup {M}
      PROVE  p \in S \cup {M}
  <2>1. q \in S
    BY <1>3
  <2>2. End(m, q) = p
    BY <1>3 DEF End
  <2> QED  BY <2>1, <2>2, BlockPlace
<1> QED  BY <1>1, <1>2, <1>3

(* The walk over the pool finds exactly the tiles. *)
LEMMA HeadersOfTiles ==
    ASSUME NEW M \in Nat, NEW m, NEW S, Tiles(m, M, S)
    PROVE  HeadersOf(m, M) = S \cup {M}
<1> DEFINE H == S \cup {M}
           D == 0..M
           Rule(g, p) == p = 0 \/ \E q \in 0..(p - 1) : q + Magnitude(m[q].size) = p /\ g[q]
           Body(g) == [p \in D |-> Rule(g, p)]
           f == [p \in D |-> p \in H]
           header == CHOOSE g : g = Body(g)
<1>8. H \subseteq D
  BY DEF Tiles
<1>9. \A p \in D : \A q \in 0..(p - 1) : q \in D
  OBVIOUS
<1>1. ASSUME NEW p \in D PROVE p \in H <=> Rule(f, p)
  <2>1. p \in H <=> \/ p = 0
                   \/ \E q \in 0..(p - 1) : q + Magnitude(m[q].size) = p /\ q \in H
    BY HeaderRule
  <2>2. \A q \in 0..(p - 1) : f[q] <=> q \in H
    <3> HIDE DEF H, header, Body, Rule
    <3> QED  BY <1>9
  <2> HIDE DEF H, f, header, Body
  <2> QED  BY <2>1, <2>2
<1>2. f = Body(f)
  <2>1. ASSUME NEW p \in D PROVE (p \in H) = Rule(f, p)
    <3>1. (p \in H) \in BOOLEAN /\ Rule(f, p) \in BOOLEAN
      <4> HIDE DEF f, H
      <4> QED  OBVIOUS
    <3>2. \A a, b \in BOOLEAN : (a <=> b) => a = b
      OBVIOUS
    <3> HIDE DEF Rule, H
    <3> QED  BY <3>1, <3>2, <1>1
  <2>2. [p \in D |-> p \in H] = [p \in D |-> Rule(f, p)]
    <3> HIDE DEF H, f, D
    <3> QED  BY <2>1, Zenon
  <2> QED  BY <2>2
<1>3. header = Body(header)
  <2>1. \E g : g = Body(g)
    BY <1>2
  <2> HIDE DEF Body, f
  <2> QED  BY <2>1
<1> HIDE DEF header
<1>4. \A p \in D : header[p] = Rule(header, p)
  BY <1>3
<1>5. \A p \in D : header[p] = f[p]
  <2> DEFINE T == {p \in D : header[p] # f[p]}
  <2>1. ASSUME T # {} PROVE FALSE
    <3>1. T \in SUBSET Nat
      OBVIOUS
    <3>2. PICK p \in T : \A q \in T : p <= q
      <4> HIDE DEF T
      <4> QED  BY <2>1, <3>1, LeastNat
    <3>3. p \in D /\ header[p] # f[p]
      BY <3>2
    <3>4. \A q \in 0..(p - 1) : header[q] = f[q]
      <4>1. ASSUME NEW q \in 0..(p - 1) PROVE header[q] = f[q]
        <5>1. q \in D /\ ~(p <= q)
          BY <3>3
        <5> QED  BY <5>1, <3>2
      <4> QED  BY <4>1
    <3>5. Rule(header, p) <=> Rule(f, p)
      <4> HIDE DEF f
      <4> QED  BY <3>4
    <3>6. header[p] = Rule(header, p) /\ f[p] = Rule(f, p)
      <4>1. f[p] = Rule(f, p)
        BY <1>2, <3>3
      <4> QED  BY <4>1, <1>4, <3>3
    <3> QED  BY <3>3, <3>5, <3>6, Zenon
  <2> QED  BY <2>1
<1>6. HeadersOf(m, M) = {p \in D : header[p]}
  BY DEF HeadersOf, header
<1>7. {p \in D : header[p]} = {p \in D : p \in H}
  <2>1. \A p \in D : f[p] = (p \in H)
    BY Zenon
  <2> HIDE DEF f, H
  <2> QED  BY <1>5, <2>1
<1>10. {p \in D : p \in H} = H
  <2> HIDE DEF H, D
  <2> QED  BY <1>8
<1> QED  BY <1>6, <1>7, <1>10

-----------------------------------------------------------------------------
(* How the tiles change: a free block is cut in two, blocks become one.  *)

(* Another block lies before this one or after it. *)
LEMMA Apart ==
    ASSUME NEW M \in Nat, NEW m, NEW S, Tiles(m, M, S),
           NEW h \in S, NEW k \in S, h # k
    PROVE  (End(m, k) <= h \/ End(m, h) <= k) /\ S # {0}
<1>1. h \in Int /\ k \in Int
  BY DEF Tiles
<1>2. h < k \/ k < h
  BY <1>1
<1>3. S # {0}
  BY <1>1
<1> QED  BY <1>2, <1>3, BlockPlace

(* w is m with its block h cut in two. *)
Carved(m, w, M, h, a, b) ==
    /\ w \in [0..(M - 1) -> Byte]
    /\ HeaderAt(w, h, a) /\ HeaderAt(w, (h + a) - HeaderSize, a)
    /\ HeaderAt(w, h + a, b) /\ HeaderAt(w, (h + a + b) - HeaderSize, b)
    /\ \A c \in 0..(M - 1) : c < h \/ h + a + b <= c => w[c] = m[c]

(* One tile replaced by two leaves a tiling. *)
LEMMA Carve ==
    ASSUME NEW M \in Nat, NEW m, NEW S, Tiles(m, M, S), NEW h \in S,
           NEW a \in Nat, NEW b \in Nat, a >= 8, b >= 8, m[h].size = a + b,
           NEW w, Carved(m, w, M, h, a, b)
    PROVE  Tiles(w, M, S \cup {h + a})
<1> DEFINE e == h + a + b
           T == S \cup {h + a}
<1>1. /\ h \in 0..(M - 1) /\ h \in Int /\ e \in Int /\ e <= M
      /\ End(m, h) = e /\ e \in S \cup {M}
  <2>1. /\ h \in 0..(M - 1) /\ End(m, h) \in S \cup {M} /\ End(m, h) <= M
        /\ m[h].size > 0 => End(m, h) = h + m[h].size
    BY BlockPlace
  <2>2. m[h].size > 0 /\ h + m[h].size = e
    BY <2>1
  <2> QED  BY <2>1, <2>2
<1>2. h + a \in 0..(M - 1) /\ h + a < e
  BY <1>1
<1>3. /\ HeaderAt(w, h, a) /\ HeaderAt(w, (h + a) - HeaderSize, a)
      /\ HeaderAt(w, h + a, b) /\ HeaderAt(w, e - HeaderSize, b)
      /\ w[h].size = a /\ w[h + a].size = b
      /\ End(w, h) = h + a /\ End(w, h + a) = e
  <2>1. Magnitude(a) = a /\ Magnitude(b) = b
    BY Magnitudes
  <2>2. /\ HeaderAt(w, h, a) /\ HeaderAt(w, (h + a) - HeaderSize, a)
        /\ HeaderAt(w, h + a, b) /\ HeaderAt(w, e - HeaderSize, b)
    BY DEF Carved
  <2>3. h \in Int /\ h + a \in Int
    BY <1>1
  <2>4. w[h].size = a /\ w[h + a].size = b
    BY <2>2, <2>3, HeaderSays
  <2> QED  BY <2>1, <2>2, <2>4, <1>1 DEF End
<1>4. ASSUME NEW k \in S, k # h
      PROVE  /\ k \in 0..(M - 1) /\ w[k] = m[k] /\ End(w, k) = End(m, k)
             /\ End(m, k) \in Int /\ k + 8 <= End(m, k) /\ End(m, k) <= M
             /\ End(m, k) \in S \cup {M}
             /\ HeaderAt(w, k, w[k].size) /\ Mirrored(w, k)
             /\ End(m, k) <= h \/ e <= k
  <2>1. /\ k \in 0..(M - 1) /\ End(m, k) \in Int /\ k + 8 <= End(m, k)
        /\ End(m, k) <= M /\ End(m, k) \in S \cup {M}
        /\ S = {0} \/ Mirrored(m, k)
    BY BlockPlace
  <2>2. (End(m, k) <= h \/ e <= k) /\ S # {0}
    BY <1>1, <1>4, Apart
  <2>3. ASSUME NEW c \in 0..(M - 1), k <= c, c < End(m, k) PROVE w[c] = m[c]
    <3>1. c < h \/ e <= c
      BY <2>1, <2>2, <2>3, <1>1
    <3> QED  BY <3>1 DEF Carved
  <2>4. /\ w[k] = m[k] /\ End(w, k) = End(m, k) /\ HeaderAt(w, k, w[k].size)
        /\ Mirrored(w, k)
    BY <2>1, <2>2, <2>3, BlockStays
  <2> QED  BY <2>1, <2>2, <2>4
<1>5. h + a \notin S
  <2>1. ASSUME h + a \in S PROVE FALSE
    <3>1. End(m, h) <= h + a
      <4>1. h < h + a
        BY <1>1
      <4> QED  BY <2>1, <4>1 DEF Tiles
    <3> QED  BY <3>1, <1>1, <1>2
  <2> QED  BY <2>1
<1>6. T \subseteq 0..(M - 1) /\ 0 \in T
  BY <1>2 DEF Tiles
<1>7. ASSUME NEW k \in T
      PROVE  /\ HeaderAt(w, k, w[k].size)
             /\ Magnitude(w[k].size) >= 8
             /\ End(w, k) \in T \cup {M}
             /\ Mirrored(w, k)
  <2>1. CASE k = h
    <3>1. Magnitude(a) = a
      BY Magnitudes
    <3> QED  BY <2>1, <3>1, <1>1, <1>3 DEF Mirrored
  <2>2. CASE k = h + a
    <3>1. Magnitude(b) = b
      BY Magnitudes
    <3> QED  BY <2>2, <3>1, <1>1, <1>3 DEF Mirrored
  <2>3. CASE k \in S /\ k # h
    <3>1. Magnitude(w[k].size) >= 8
      BY <2>3, <1>4 DEF Tiles
    <3> QED  BY <3>1, <2>3, <1>4
  <2> QED  BY <2>1, <2>2, <2>3
<1>8. ASSUME NEW j \in T, NEW k \in T, j < k PROVE End(w, j) <= k
  <2>1. CASE j = h
    <3>1. CASE k = h + a
      BY <2>1, <3>1, <1>1, <1>3
    <3>2. CASE k \in S
      BY <2>1, <3>2, <1>8, <1>1, <1>3, <1>4
    <3> QED  BY <3>1, <3>2
  <2>2. CASE j = h + a
    <3>1. k \in S /\ k # h
      BY <2>2, <1>8, <1>1
    <3> QED  BY <2>2, <3>1, <1>8, <1>1, <1>3, <1>4
  <2>3. CASE j \in S /\ j # h
    <3>1. CASE k = h + a
      BY <2>3, <3>1, <1>8, <1>1, <1>4
    <3>2. CASE k \in S
      <4>1. End(m, j) <= k
        BY <2>3, <3>2, <1>8, BlockPlace
      <4> QED  BY <4>1, <2>3, <1>4
    <3> QED  BY <3>1, <3>2
  <2> QED  BY <2>1, <2>2, <2>3
<1>9. ASSUME NEW x \in T \cup {M}, x # 0 PROVE \E q \in T : End(w, q) = x
  <2>1. CASE x = h + a
    BY <2>1, <1>3
  <2>2. CASE x # h + a
    <3>1. PICK q \in S : End(m, q) = x
      BY <2>2, <1>9 DEF Tiles
    <3>2. CASE q = h
      BY <3>1, <3>2, <1>1, <1>3
    <3>3. CASE q # h
      BY <3>1, <3>3, <1>4
    <3> QED  BY <3>2, <3>3
  <2> QED  BY <2>1, <2>2
<1>10. w \in [0..(M - 1) -> Byte]
  BY DEF Carved
<1> HIDE DEF T
<1> QED  BY <1>6, <1>7, <1>8, <1>9, <1>10 DEF Tiles, T

(* w is m with one free block from p to e. *)
Joined(m, w, M, p, e) ==
    /\ w \in [0..(M - 1) -> Byte]
    /\ HeaderAt(w, p, e - p) /\ HeaderAt(w, e - HeaderSize, e - p)
    /\ \A c \in 0..(M - 1) : c < p \/ e <= c => w[c] = m[c]

(* Neighbouring tiles replaced by one leave a tiling. *)
LEMMA Join ==
    ASSUME NEW M \in Nat, NEW m, NEW S, Tiles(m, M, S),
           NEW p \in S, NEW e \in S \cup {M}, p < e,
           NEW w, Joined(m, w, M, p, e)
    PROVE  /\ Tiles(w, M, {k \in S : k <= p \/ e <= k})
           /\ \A k \in {j \in S : j <= p \/ e <= j} : Mirrored(w, k)
<1> DEFINE T == {k \in S : k <= p \/ e <= k}
<1>1. /\ p \in 0..(M - 1) /\ End(m, p) \in Int /\ p + 8 <= End(m, p)
      /\ End(m, p) <= M
  BY BlockPlace
<1>2. e \in Int /\ e <= M /\ End(m, p) <= e
  <2>1. CASE e \in S
    <3>1. e \in 0..(M - 1) /\ End(m, p) <= e
      BY <2>1 DEF Tiles
    <3> QED  BY <3>1
  <2>2. CASE e = M
    BY <2>2, <1>1
  <2> QED  BY <2>1, <2>2
<1>3. /\ HeaderAt(w, p, w[p].size) /\ HeaderAt(w, e - HeaderSize, w[p].size)
      /\ w[p].size = e - p /\ Magnitude(w[p].size) = e - p /\ End(w, p) = e
  <2>1. Magnitude(e - p) = e - p
    BY <1>1, <1>2, Magnitudes
  <2>2. HeaderAt(w, p, e - p) /\ HeaderAt(w, e - HeaderSize, e - p)
    BY DEF Joined
  <2>3. w[p].size = e - p
    BY <2>2, <1>1, HeaderSays
  <2> QED  BY <2>1, <2>2, <2>3, <1>1, <1>2 DEF End
<1>4. ASSUME NEW k \in T, k # p
      PROVE  /\ k \in S /\ k \in 0..(M - 1) /\ w[k] = m[k] /\ End(w, k) = End(m, k)
             /\ End(m, k) \in Int /\ k + 8 <= End(m, k) /\ End(m, k) <= M
             /\ End(m, k) \in S \cup {M}
             /\ HeaderAt(w, k, w[k].size) /\ Mirrored(w, k)
             /\ End(m, k) <= p \/ e <= k
  <2>1. /\ k \in 0..(M - 1) /\ End(m, k) \in Int /\ k + 8 <= End(m, k)
        /\ End(m, k) <= M /\ End(m, k) \in S \cup {M}
        /\ S = {0} \/ Mirrored(m, k)
    BY BlockPlace
  <2>2. End(m, k) <= p \/ e <= k
    <3>1. CASE k < p
      BY <3>1, BlockPlace
    <3>2. CASE ~(k < p)
      BY <3>2, <1>1, <1>4, <2>1
    <3> QED  BY <3>1, <3>2
  <2>3. S # {0}
    BY <1>4, Apart
  <2>4. ASSUME NEW c \in 0..(M - 1), k <= c, c < End(m, k) PROVE w[c] = m[c]
    <3>1. c < p \/ e <= c
      BY <2>1, <2>2, <2>4, <1>1, <1>2
    <3> QED  BY <3>1 DEF Joined
  <2>5. /\ w[k] = m[k] /\ End(w, k) = End(m, k) /\ HeaderAt(w, k, w[k].size)
        /\ Mirrored(w, k)
    BY <2>1, <2>3, <2>4, BlockStays
  <2> QED  BY <2>1, <2>2, <2>5
<1>5. T \subseteq 0..(M - 1) /\ 0 \in T
  <2>1. S \subseteq 0..(M - 1) /\ 0 \in S /\ 0 <= p
    BY <1>1 DEF Tiles
  <2> QED  BY <2>1
<1>6. e \in T \cup {M} /\ p \in T
  BY <1>1, <1>2
<1>7. ASSUME NEW k \in T
      PROVE  /\ HeaderAt(w, k, w[k].size)
             /\ Magnitude(w[k].size) >= 8
             /\ End(w, k) \in T \cup {M}
             /\ Mirrored(w, k)
  <2>1. CASE k = p
    <3>1. e - p >= 8
      BY <1>1, <1>2
    <3> QED  BY <2>1, <3>1, <1>3, <1>6 DEF Mirrored
  <2>2. CASE k # p
    <3>1. Magnitude(w[k].size) >= 8
      BY <2>2, <1>4 DEF Tiles
    <3>2. End(w, k) \in S \cup {M} /\ (End(w, k) <= p \/ e <= End(w, k))
      BY <2>2, <1>4, <1>2
    <3> QED  BY <3>1, <3>2, <2>2, <1>4
  <2> QED  BY <2>1, <2>2
<1>8. ASSUME NEW j \in T, NEW k \in T, j < k PROVE End(w, j) <= k
  <2>1. CASE j = p
    BY <2>1, <1>8, <1>1, <1>3, <1>4
  <2>2. CASE j # p
    <3>1. End(m, j) <= k
      BY <1>8, BlockPlace
    <3> QED  BY <2>2, <3>1, <1>4
  <2> QED  BY <2>1, <2>2
<1>9. ASSUME NEW x \in T \cup {M}, x # 0 PROVE \E q \in T : End(w, q) = x
  <2>1. CASE x = e
    BY <2>1, <1>3, <1>6
  <2>2. CASE x # e
    <3>1. PICK q \in S : End(m, q) = x
      BY <1>9 DEF Tiles
    <3>2. q \in 0..(M - 1) /\ q + 8 <= x /\ x <= M
      BY <3>1, BlockPlace
    <3>3. CASE x <= p
      <4>1. q \in T /\ q # p
        BY <3>2, <3>3, <1>1
      <4> QED  BY <3>1, <4>1, <1>4
    <3>4. CASE ~(x <= p)
      <4>1. e < x
        BY <2>2, <3>2, <3>4, <1>1, <1>2, <1>9
      <4>2. e <= q
        <5>1. e \in S
          BY <4>1, <3>2
        <5>2. CASE q < e
          <6>1. End(m, q) <= e
            BY <5>1, <5>2, BlockPlace
          <6> QED  BY <6>1, <3>1, <3>2, <4>1, <1>2
        <5>3. CASE ~(q < e)
          BY <5>3, <3>2, <1>2
        <5> QED  BY <5>2, <5>3
      <4>3. q \in T /\ q # p
        BY <4>2, <3>2, <1>1, <1>2
      <4> QED  BY <3>1, <4>3, <1>4
    <3> QED  BY <3>3, <3>4
  <2> QED  BY <2>1, <2>2
<1>10. w \in [0..(M - 1) -> Byte]
  BY DEF Joined
<1>11. \A k \in {j \in S : j <= p \/ e <= j} : Mirrored(w, k)
  BY <1>7
<1> HIDE DEF T
<1> QED  BY <1>5, <1>7, <1>8, <1>9, <1>10, <1>11 DEF Tiles, T

-----------------------------------------------------------------------------
(* The client's blocks. *)

BlockCells(b) == b.at .. (b.at + b.size - 1)

(* Each of the client's blocks lies in an allocated block of its own, which   *)
(* has room for it and holds what the client put there.                       *)
Placed(m, S, blocks) ==
    /\ DOMAIN blocks \subseteq Id
    /\ \A i \in DOMAIN blocks :
          /\ blocks[i] \in [at : Int, size : Nat \ {0}]
          /\ blocks[i].at - HeaderSize \in S
          /\ m[blocks[i].at - HeaderSize].size < 0
          /\ blocks[i].size + 8 <= -m[blocks[i].at - HeaderSize].size
          /\ \A a \in BlockCells(blocks[i]) : m[a] = Data(i)
    /\ \A i, j \in DOMAIN blocks : i # j => blocks[i].at # blocks[j].at

(* No other block is allocated. *)
Serves(m, S, blocks) ==
    /\ Placed(m, S, blocks)
    /\ \A h \in S : m[h].size < 0 => \E i \in DOMAIN blocks : blocks[i].at - HeaderSize = h

(* Where the client's block is. *)
LEMMA ClientPlace ==
    ASSUME NEW M \in Nat, NEW m, NEW S, Tiles(m, M, S),
           NEW blocks, Placed(m, S, blocks), NEW i \in DOMAIN blocks
    PROVE  LET h == blocks[i].at - HeaderSize
           IN  /\ h \in S /\ h \in 0..(M - 1) /\ blocks[i].at \in Int
               /\ blocks[i].size \in Nat \ {0}
               /\ m[h].size < 0 /\ End(m, h) = h - m[h].size /\ End(m, h) <= M
               /\ \A a \in BlockCells(blocks[i]) :
                     a \in Int /\ h < a /\ a < End(m, h)
<1> DEFINE h == blocks[i].at - HeaderSize
<1>1. /\ blocks[i].at \in Int /\ blocks[i].size \in Nat \ {0} /\ h \in S
      /\ m[h].size < 0 /\ blocks[i].size + 8 <= -m[h].size
  BY DEF Placed
<1>2. h \in 0..(M - 1) /\ m[h].size \in Int /\ End(m, h) = h - m[h].size /\ End(m, h) <= M
  <2> HIDE DEF h
  <2>1. h \in 0..(M - 1) /\ m[h].size \in Int /\ End(m, h) <= M
    BY <1>1, BlockPlace
  <2>2. End(m, h) = h - m[h].size
    BY <1>1, BlockPlace
  <2> QED  BY <2>1, <2>2
<1>3. ASSUME NEW a \in BlockCells(blocks[i])
      PROVE  a \in Int /\ h < a /\ a < End(m, h)
  <2>1. a \in Int /\ blocks[i].at <= a /\ a <= blocks[i].at + blocks[i].size - 1
    BY <1>1 DEF BlockCells
  <2> QED  BY <2>1, <1>1, <1>2
<1> QED  BY <1>1, <1>2, <1>3

(* From m to w only the tiles from p to e change. *)
Changes(m, w, M, S, T, p, e) ==
    /\ p \in S /\ e \in S \cup {M}
    /\ \A a \in 0..(M - 1) : a < p \/ e <= a => w[a] = m[a]
    /\ \A k \in 0..(M - 1) : k < p \/ e <= k => (k \in T <=> k \in S)

(* kept are the blocks outside of those tiles. *)
Keeping(blocks, kept, p, e) ==
    /\ DOMAIN kept \subseteq DOMAIN blocks
    /\ \A i \in DOMAIN kept : kept[i] = blocks[i]
    /\ \A i \in DOMAIN blocks :
          i \in DOMAIN kept <=> blocks[i].at - HeaderSize < p \/ e <= blocks[i].at - HeaderSize

(* What changes in the tiles from p to e keeps the client's blocks elsewhere. *)
LEMMA PlacedElsewhere ==
    ASSUME NEW M \in Nat, NEW m, NEW S, Tiles(m, M, S),
           NEW blocks, Placed(m, S, blocks),
           NEW w, NEW T, Tiles(w, M, T),
           NEW p, NEW e, Changes(m, w, M, S, T, p, e),
           NEW kept, Keeping(blocks, kept, p, e)
    PROVE  Placed(w, T, kept)
<1>1. p \in Int /\ e \in Int
  BY DEF Tiles, Changes
<1>2. DOMAIN kept \subseteq DOMAIN blocks /\ DOMAIN kept \subseteq Id
  BY DEF Placed, Keeping
<1>3. ASSUME NEW i \in DOMAIN kept
      PROVE  /\ kept[i] \in [at : Int, size : Nat \ {0}]
             /\ kept[i].at - HeaderSize \in T
             /\ w[kept[i].at - HeaderSize].size < 0
             /\ kept[i].size + 8 <= -w[kept[i].at - HeaderSize].size
             /\ \A a \in BlockCells(kept[i]) : w[a] = Data(i)
  <2> DEFINE h == blocks[i].at - HeaderSize
  <2>1. i \in DOMAIN blocks /\ kept[i] = blocks[i] /\ (h < p \/ e <= h)
    BY DEF Keeping
  <2>2. /\ blocks[i] \in [at : Int, size : Nat \ {0}]
        /\ m[h].size < 0 /\ blocks[i].size + 8 <= -m[h].size
        /\ \A a \in BlockCells(blocks[i]) : m[a] = Data(i)
    BY <2>1 DEF Placed
  <2>3. /\ h \in S /\ h \in 0..(M - 1) /\ End(m, h) <= M /\ End(m, h) \in Int
        /\ \A a \in BlockCells(blocks[i]) :
              a \in Int /\ h < a /\ a < End(m, h)
    BY <2>1, ClientPlace, BlockPlace
  <2> HIDE DEF h
  <2>4. w[h] = m[h] /\ h \in T
    BY <2>1, <2>3 DEF Changes
  <2>5. ASSUME NEW a \in BlockCells(blocks[i]) PROVE w[a] = Data(i)
    <3>1. a \in Int /\ h < a /\ a < End(m, h)
      BY <2>3
    <3>2. a \in 0..(M - 1)
      BY <3>1, <2>3
    <3>3. a < p \/ e <= a
      <4>1. CASE h < p
        <5>1. p \in S
          BY DEF Changes
        <5>2. End(m, h) <= p
          BY <4>1, <5>1, <2>3, BlockPlace
        <5> QED  BY <5>2, <3>1, <2>3, <1>1
      <4>2. CASE e <= h
        BY <4>2, <3>1, <2>3, <1>1
      <4> QED  BY <4>1, <4>2, <2>1
    <3> QED  BY <3>2, <3>3, <2>2 DEF Changes
  <2> QED  BY <2>1, <2>2, <2>4, <2>5 DEF h
<1>4. \A i, j \in DOMAIN kept : i # j => kept[i].at # kept[j].at
  BY DEF Placed, Keeping
<1> QED  BY <1>2, <1>3, <1>4 DEF Placed

(* If none of the tiles from p to e is in use afterwards, no other is. *)
LEMMA ServesElsewhere ==
    ASSUME NEW M \in Nat, NEW m, NEW S, Tiles(m, M, S),
           NEW blocks, Serves(m, S, blocks),
           NEW w, NEW T, Tiles(w, M, T),
           NEW p, NEW e, Changes(m, w, M, S, T, p, e),
           \A k \in T : p <= k /\ k < e => w[k].size > 0,
           NEW kept, Keeping(blocks, kept, p, e)
    PROVE  Serves(w, T, kept)
<1>0. /\ p \in S /\ e \in S \cup {M}
      /\ \A a \in 0..(M - 1) : a < p \/ e <= a => w[a] = m[a]
      /\ \A k \in 0..(M - 1) : k < p \/ e <= k => (k \in T <=> k \in S)
      /\ DOMAIN kept \subseteq DOMAIN blocks
      /\ \A i \in DOMAIN kept : kept[i] = blocks[i]
      /\ \A i \in DOMAIN blocks :
            i \in DOMAIN kept <=> blocks[i].at - HeaderSize < p \/ e <= blocks[i].at - HeaderSize
  BY DEF Changes, Keeping
<1>1. p \in Int /\ e \in Int
  BY <1>0 DEF Tiles
<1>2. Placed(m, S, blocks)
  BY DEF Serves
<1>3. Placed(w, T, kept)
  BY <1>2, PlacedElsewhere
<1>4. ASSUME NEW h \in T, w[h].size < 0
      PROVE  \E i \in DOMAIN kept : kept[i].at - HeaderSize = h
  <2>1. h \in 0..(M - 1) /\ w[h].size \in Int
    BY BlockPlace
  <2>2. h < p \/ e <= h
    BY <2>1, <1>0, <1>1, <1>4
  <2>3. h \in S /\ m[h].size < 0
    BY <2>1, <2>2, <1>0, <1>4
  <2>4. PICK i \in DOMAIN blocks : blocks[i].at - HeaderSize = h
    BY <2>3 DEF Serves
  <2> QED  BY <2>2, <2>4, <1>0
<1> QED  BY <1>3, <1>4 DEF Serves

(* w is m with its free block h allocated, and filled with id. *)
FilledWith(m, w, M, h, n, id) ==
    /\ w \in [0..(M - 1) -> Byte]
    /\ HeaderAt(w, h, -m[h].size)
    /\ HeaderAt(w, End(m, h) - HeaderSize, -m[h].size)
    /\ \A a \in (h + HeaderSize)..(h + 3 + n) : w[a] = Data(id)
    /\ \A a \in 0..(M - 1) : a < h \/ End(m, h) <= a => w[a] = m[a]

(* A free block marked as used and filled leaves the tiling. *)
LEMMA FilledTiles ==
    ASSUME NEW M \in Nat, NEW m, NEW S, Tiles(m, M, S), NEW h \in S, m[h].size > 0,
           NEW n, NEW id, NEW w, FilledWith(m, w, M, h, n, id)
    PROVE  /\ Tiles(w, M, S)
           /\ \A k \in S : End(w, k) = End(m, k) /\ Mirrored(w, k)
<1>1. ASSUME NEW k \in S
      PROVE  /\ Magnitude(w[k].size) = Magnitude(m[k].size)
             /\ End(w, k) = End(m, k)
             /\ HeaderAt(w, k, w[k].size) /\ Mirrored(w, k)
  <2>1. /\ k \in 0..(M - 1) /\ m[k].size \in Int
        /\ End(m, k) \in Int /\ k + 8 <= End(m, k) /\ End(m, k) <= M
        /\ S = {0} \/ Mirrored(m, k)
    BY BlockPlace
  <2>2. h \in Int /\ End(m, h) \in Int
    BY BlockPlace
  <2>3. CASE k = h
    <3>1. /\ HeaderAt(w, h, -m[h].size)
          /\ HeaderAt(w, End(m, h) - HeaderSize, -m[h].size)
      BY DEF FilledWith
    <3>2. w[h].size = -m[h].size
      BY <2>2, <3>1, HeaderSays
    <3>3. Magnitude(w[k].size) = Magnitude(m[k].size)
      BY <2>1, <2>3, <3>2, Magnitudes
    <3>4. End(w, k) = End(m, k)
      BY <3>3 DEF End
    <3> QED  BY <2>3, <3>1, <3>2, <3>3, <3>4 DEF Mirrored
  <2>4. CASE k # h
    <3>1. (End(m, k) <= h \/ End(m, h) <= k) /\ S # {0}
      BY <2>4, Apart
    <3>2. ASSUME NEW c \in 0..(M - 1), k <= c, c < End(m, k) PROVE w[c] = m[c]
      <4>1. c < h \/ End(m, h) <= c
        BY <2>1, <2>2, <3>1, <3>2
      <4> QED  BY <4>1 DEF FilledWith
    <3>3. /\ w[k] = m[k] /\ End(w, k) = End(m, k) /\ HeaderAt(w, k, w[k].size)
          /\ Mirrored(m, k) => Mirrored(w, k)
      BY <3>2, BlockStays
    <3> QED  BY <2>1, <3>1, <3>3
  <2> QED  BY <2>3, <2>4
<1>2. w \in [0..(M - 1) -> Byte]
  BY DEF FilledWith
<1> QED  BY <1>1, <1>2 DEF Tiles

(* A free block handed to the client leaves the others' data intact. *)
LEMMA FilledServes ==
    ASSUME NEW M \in Nat, NEW m, NEW S, Tiles(m, M, S), NEW h \in S,
           NEW blocks, Serves(m, S, blocks),
           NEW n \in Nat \ {0}, n + 8 <= m[h].size,
           NEW id \in Id, id \notin DOMAIN blocks,
           NEW w, FilledWith(m, w, M, h, n, id),
           NEW more, more = [i \in DOMAIN blocks \cup {id} |->
                                IF i = id THEN [at |-> h + HeaderSize, size |-> n] ELSE blocks[i]]
    PROVE  Tiles(w, M, S) /\ Serves(w, S, more) /\ \A k \in S : Mirrored(w, k)
<1> DEFINE new == [at |-> h + HeaderSize, size |-> n]
<1>1. /\ h \in 0..(M - 1) /\ h \in Int /\ m[h].size \in Int /\ m[h].size > 0
      /\ End(m, h) = h + m[h].size /\ End(m, h) \in S \cup {M}
  <2>1. /\ h \in 0..(M - 1) /\ m[h].size \in Int
        /\ End(m, h) \in S \cup {M} /\ (m[h].size > 0 => End(m, h) = h + m[h].size)
    BY BlockPlace
  <2> QED  BY <2>1
<1>2. /\ Tiles(w, M, S)
      /\ \A k \in S : End(w, k) = End(m, k) /\ Mirrored(w, k)
  BY <1>1, FilledTiles
<1>3. ASSUME NEW i \in DOMAIN blocks
      PROVE  /\ blocks[i].at - HeaderSize \in S /\ blocks[i].at \in Int
             /\ blocks[i].at - HeaderSize # h
             /\ blocks[i].at - HeaderSize < h \/ End(m, h) <= blocks[i].at - HeaderSize
  <2>1. blocks[i].at - HeaderSize \in S /\ m[blocks[i].at - HeaderSize].size < 0 /\ blocks[i].at \in Int
    BY DEF Serves, Placed
  <2> DEFINE k == blocks[i].at - HeaderSize
  <2>2. k \in S /\ k # h /\ k \in Int
    BY <2>1, <1>1
  <2> HIDE DEF k
  <2>3. h < k => End(m, h) <= k
    BY <2>2, BlockPlace
  <2>4. k < h \/ End(m, h) <= k
    BY <2>2, <2>3, <1>1
  <2> QED  BY <2>1, <2>2, <2>4 DEF k
<1>4. Placed(w, S, blocks)
  <2>1. \A a \in 0..(M - 1) : a < h \/ End(m, h) <= a => w[a] = m[a]
    BY DEF FilledWith
  <2>2. Placed(m, S, blocks)
    BY DEF Serves
  <2>3. \A i \in DOMAIN blocks :
           i \in DOMAIN blocks <=> blocks[i].at - HeaderSize < h \/ End(m, h) <= blocks[i].at - HeaderSize
    BY <1>3
  <2>4. Changes(m, w, M, S, S, h, End(m, h))
    BY <2>1, <1>1 DEF Changes
  <2>5. Keeping(blocks, blocks, h, End(m, h))
    BY <2>3 DEF Keeping
  <2> QED  BY <2>2, <2>4, <2>5, <1>2, PlacedElsewhere
<1>5. /\ DOMAIN more = DOMAIN blocks \cup {id} /\ more[id] = new
      /\ \A i \in DOMAIN blocks : more[i] = blocks[i]
  OBVIOUS
<1>6. new.at = h + HeaderSize /\ new.size = n /\ new \in [at : Int, size : Nat \ {0}]
  BY <1>1
<1>7. BlockCells(new) = (h + HeaderSize)..(h + 3 + n)
  BY <1>1, <1>6 DEF BlockCells
<1>8. /\ w[h].size = -m[h].size
      /\ \A a \in (h + HeaderSize)..(h + 3 + n) : w[a] = Data(id)
  <2>1. HeaderAt(w, h, -m[h].size)
    BY DEF FilledWith
  <2>2. w[h].size = -m[h].size
    BY <2>1, <1>1, HeaderSays
  <2> QED  BY <2>2 DEF FilledWith
<1> HIDE DEF new
<1>9. Placed(w, S, more)
  <2>1. DOMAIN more \subseteq Id
    BY <1>4, <1>5 DEF Placed
  <2>2. ASSUME NEW i \in DOMAIN more
        PROVE  /\ more[i] \in [at : Int, size : Nat \ {0}]
               /\ more[i].at - HeaderSize \in S
               /\ w[more[i].at - HeaderSize].size < 0
               /\ more[i].size + 8 <= -w[more[i].at - HeaderSize].size
               /\ \A a \in BlockCells(more[i]) : w[a] = Data(i)
    <3>1. CASE i = id
      <4>1. more[i].at - HeaderSize = h
        BY <3>1, <1>1, <1>5, <1>6
      <4>2. w[h].size < 0 /\ n + 8 <= -w[h].size
        BY <1>1, <1>8
      <4> QED  BY <3>1, <4>1, <4>2, <1>5, <1>6, <1>7, <1>8
    <3>2. CASE i \in DOMAIN blocks
      BY <3>2, <1>4, <1>5 DEF Placed
    <3> QED  BY <3>1, <3>2, <1>5
  <2>3. ASSUME NEW i \in DOMAIN more, NEW j \in DOMAIN more, i # j
        PROVE  more[i].at # more[j].at
    <3>1. \A k \in DOMAIN blocks : blocks[k].at # h + HeaderSize
      BY <1>1, <1>3
    <3>2. \A k, l \in DOMAIN blocks : k # l => blocks[k].at # blocks[l].at
      BY <1>4 DEF Placed
    <3> QED  BY <2>3, <3>1, <3>2, <1>5, <1>6
  <2> QED  BY <2>1, <2>2, <2>3 DEF Placed
<1>10. ASSUME NEW k \in S, w[k].size < 0
       PROVE  \E i \in DOMAIN more : more[i].at - HeaderSize = k
  <2>1. CASE k = h
    BY <2>1, <1>1, <1>5, <1>6
  <2>2. CASE k # h
    <3>1. k < h \/ End(m, h) <= k
      <4>1. k \in Int /\ (h < k => End(m, h) <= k)
        BY BlockPlace
      <4> QED  BY <4>1, <2>2, <1>1
    <3>2. m[k].size < 0
      <4>1. k \in 0..(M - 1)
        BY BlockPlace
      <4> QED  BY <4>1, <3>1, <1>10 DEF FilledWith
    <3>3. PICK i \in DOMAIN blocks : blocks[i].at - HeaderSize = k
      BY <3>2 DEF Serves
    <3> QED  BY <3>3, <1>5
  <2> QED  BY <2>1, <2>2
<1> QED  BY <1>2, <1>9, <1>10 DEF Serves

-----------------------------------------------------------------------------
(* A store, and what it leaves alone. *)

LEMMA SizeIsInt ==
    ASSUME NEW M \in Nat, NEW m \in [0..(M - 1) -> Byte], NEW h \in 0..(M - 1)
    PROVE  m[h].size \in Int
<1>1. m[h] \in Byte
  OBVIOUS
<1> QED  BY <1>1 DEF Byte

LEMMA PutStores ==
    ASSUME NEW M \in Nat, NEW m \in [0..(M - 1) -> Byte], NEW p \in Int, NEW n \in Int
    PROVE  /\ Put(m, p, n) \in [0..(M - 1) -> Byte]
           /\ p \in 0..(M - 1) => Put(m, p, n)[p].size = n
           /\ 0 <= p /\ p + 4 <= M => HeaderAt(Put(m, p, n), p, n)
           /\ \A c \in 0..(M - 1) : c < p \/ p + 4 <= c => Put(m, p, n)[c] = m[c]
<1> DEFINE w == Put(m, p, n)
<1>1. w = [a \in 0..(M - 1) |-> IF a \in p..(p + 3)
                               THEN [size |-> n, byte |-> a - p] ELSE m[a]]
  BY DEF Put
<1>2. \A a \in p..(p + 3) : [size |-> n, byte |-> a - p] \in Byte
  BY DEF Byte
<1>3. w \in [0..(M - 1) -> Byte]
  BY <1>1, <1>2
<1>4. \A a \in 0..(M - 1) : a \in p..(p + 3) => w[a] = [size |-> n, byte |-> a - p]
  BY <1>1
<1>5. \A a \in 0..(M - 1) : a \notin p..(p + 3) => w[a] = m[a]
  BY <1>1
<1> HIDE DEF w
<1>6. ASSUME 0 <= p, p + 4 <= M PROVE HeaderAt(w, p, n)
  <2>1. ASSUME NEW k \in 0..(HeaderSize - 1) PROVE w[p + k] = [size |-> n, byte |-> k]
    <3>1. p + k \in 0..(M - 1) /\ p + k \in p..(p + 3) /\ (p + k) - p = k
      BY <1>6
    <3> DEFINE a == p + k
    <3> HIDE DEF a
    <3>2. w[a] = [size |-> n, byte |-> a - p]
      BY <3>1, <1>4 DEF a
    <3>3. a - p = k
      BY <3>1 DEF a
    <3>4. w[a] = [size |-> n, byte |-> k]
      BY <3>2, <3>3
    <3> QED  BY <3>4 DEF a
  <2> QED  BY <2>1, Zenon DEF HeaderAt
<1>7. p \in 0..(M - 1) => w[p].size = n
  <2>1. p \in p..(p + 3)
    OBVIOUS
  <2>2. p \in 0..(M - 1) => w[p] = [size |-> n, byte |-> p - p]
    BY <2>1, <1>4
  <2> QED  BY <2>2
<1>8. \A c \in 0..(M - 1) : c < p \/ p + 4 <= c => w[c] = m[c]
  BY <1>5
<1> QED  BY <1>3, <1>6, <1>7, <1>8 DEF w

(* Another integer stays. *)
LEMMA PutElsewhere ==
    ASSUME NEW M \in Nat, NEW m \in [0..(M - 1) -> Byte], NEW p \in Int, NEW n \in Int,
           NEW q \in Int, 0 <= q, q + 4 <= M, q + 4 <= p \/ p + 4 <= q,
           NEW v, HeaderAt(m, q, v)
    PROVE  HeaderAt(Put(m, p, n), q, v)
<1>1. \A c \in 0..(M - 1) : c < p \/ p + 4 <= c => Put(m, p, n)[c] = m[c]
  BY PutStores
<1>2. ASSUME NEW c \in q..(q + 3) PROVE Put(m, p, n)[c] = m[c]
  <2>1. c \in 0..(M - 1) /\ (c < p \/ p + 4 <= c)
    OBVIOUS
  <2> QED  BY <2>1, <1>1
<1> QED  BY <1>2, HeaderStays

-----------------------------------------------------------------------------
(* Split: every halving leaves a tiled pool, and block h with room enough. *)

SplitInv(given, S, M, h, n, m, T) ==
    /\ Tiles(m, M, T)
    /\ h \in T /\ n + 8 <= m[h].size /\ End(m, h) <= End(given, h)
    /\ \A a \in 0..(M - 1) : a < h \/ End(given, h) <= a => m[a] = given[a]
    /\ \A k \in 0..(M - 1) : k < h \/ End(given, h) <= k => (k \in T <=> k \in S)
    /\ \A k \in T : h <= k /\ k < End(given, h) => m[k].size > 0

Halved(m, h) ==
    LET half == m[h].size \div 2
        rest == half + (m[h].size % 2)
        footer == h + half - HeaderSize
    IN  Put(Put(Put(Put(m, h, half), h + half, rest), footer, half),
            footer + rest, rest)

(* Both halves of a block worth splitting have room for the request. *)
LEMMA HalvesOf ==
    ASSUME NEW x \in Nat, NEW n \in Nat \ {0}, x > 2 * n + 16
    PROVE  /\ x \div 2 \in Nat /\ x \div 2 + (x % 2) \in Nat
           /\ n + 8 <= x \div 2 /\ n + 8 <= x \div 2 + (x % 2)
           /\ x \div 2 + (x \div 2 + (x % 2)) = x
           /\ x \div 2 < x
OBVIOUS

(* What the four stores of a halving do. *)
FourStores(m, h, a, b) ==
    Put(Put(Put(Put(m, h, a), h + a, b), h + a - HeaderSize, a),
        h + a - HeaderSize + b, b)

SizeAt(m, p, n) == m[p].size = n

LEMMA HalvedIsStored ==
    ASSUME NEW M \in Nat, NEW m \in [0..(M - 1) -> Byte], NEW h \in 0..(M - 1),
           NEW a \in Nat, NEW b \in Nat, a >= 8, b >= 8,
           NEW stored, stored = FourStores(m, h, a, b)
    PROVE  /\ stored \in [0..(M - 1) -> Byte]
           /\ SizeAt(stored, h, a)
           /\ h + a + b <= M => Carved(m, stored, M, h, a, b)
<1> DEFINE m1 == Put(m, h, a)
           m2 == Put(m1, h + a, b)
           m3 == Put(m2, h + a - HeaderSize, a)
           w == Put(m3, h + a - HeaderSize + b, b)
           D == 0..(M - 1)
<1>1. /\ h \in Int /\ h + a \in Int /\ h + a - HeaderSize \in Int
      /\ h + a - HeaderSize + b \in Int
      /\ h + a - HeaderSize = h + a - 4 /\ h + a - HeaderSize + b = h + a + b - 4
      /\ a \in Int /\ b \in Int
  OBVIOUS
<1>2. /\ m1 \in [D -> Byte] /\ m1[h].size = a
      /\ h + 4 <= M => HeaderAt(m1, h, a)
      /\ \A c \in D : c < h \/ h + 4 <= c => m1[c] = m[c]
  BY <1>1, PutStores
<1> HIDE DEF m1
<1>3. /\ m2 \in [D -> Byte]
      /\ h + a + 4 <= M => HeaderAt(m2, h + a, b)
      /\ \A c \in D : c < h + a \/ h + a + 4 <= c => m2[c] = m1[c]
  BY <1>1, <1>2, PutStores
<1> HIDE DEF m2
<1>4. /\ m3 \in [D -> Byte]
      /\ h + a <= M => HeaderAt(m3, (h + a) - HeaderSize, a)
      /\ \A c \in D : c < h + a - 4 \/ h + a <= c => m3[c] = m2[c]
  <2> DEFINE p == h + a - HeaderSize
  <2>1. p \in Int /\ p = (h + a) - HeaderSize /\ p = h + a - 4 /\ 0 <= p /\ p + 4 = h + a
    OBVIOUS
  <2> HIDE DEF p
  <2>2. /\ m3 \in [D -> Byte]
        /\ 0 <= p /\ p + 4 <= M => HeaderAt(m3, p, a)
        /\ \A c \in D : c < p \/ p + 4 <= c => m3[c] = m2[c]
    BY <2>1, <1>1, <1>3, PutStores DEF p
  <2> QED  BY <2>1, <2>2
<1> HIDE DEF m3
<1>5. /\ w \in [D -> Byte]
      /\ h + a + b <= M => HeaderAt(w, (h + a + b) - HeaderSize, b)
      /\ \A c \in D : c < h + a + b - 4 \/ h + a + b <= c => w[c] = m3[c]
  <2> DEFINE p == h + a - HeaderSize + b
  <2>1. /\ p \in Int /\ p = (h + a + b) - HeaderSize /\ p = h + a + b - 4
        /\ 0 <= p /\ p + 4 = h + a + b
    OBVIOUS
  <2> HIDE DEF p
  <2>2. /\ w \in [D -> Byte]
        /\ 0 <= p /\ p + 4 <= M => HeaderAt(w, p, b)
        /\ \A c \in D : c < p \/ p + 4 <= c => w[c] = m3[c]
    BY <2>1, <1>1, <1>4, PutStores DEF p
  <2> QED  BY <2>1, <2>2
<1> HIDE DEF w
<1>6. w[h] = m1[h]
  <2>1. h \in D /\ h < h + a /\ h < h + a - 4 /\ h < h + a + b - 4
    OBVIOUS
  <2> QED  BY <2>1, <1>3, <1>4, <1>5
<1>7. ASSUME h + a + b <= M PROVE Carved(m, w, M, h, a, b)
  <2>1. ASSUME NEW c \in D, c < h \/ h + a + b <= c PROVE w[c] = m[c]
    <3>1. w[c] = m3[c]
      BY <2>1, <1>5
    <3>2. m3[c] = m2[c]
      BY <2>1, <1>4
    <3>3. m2[c] = m1[c]
      BY <2>1, <1>3
    <3>4. m1[c] = m[c]
      BY <2>1, <1>2
    <3> QED  BY <3>1, <3>2, <3>3, <3>4
  <2>2. HeaderAt(w, h, a)
    <3>1. HeaderAt(m1, h, a)
      BY <1>2, <1>7
    <3>2. ASSUME NEW c \in h..(h + 3) PROVE w[c] = m1[c]
      <4>1. c \in D /\ c < h + a /\ c < h + a - 4 /\ c < h + a + b - 4
        BY <1>7
      <4> QED  BY <4>1, <1>3, <1>4, <1>5
    <3> QED  BY <3>1, <3>2, <1>1, HeaderStays
  <2>3. HeaderAt(w, h + a, b)
    <3>1. HeaderAt(m2, h + a, b)
      BY <1>3, <1>7
    <3>2. ASSUME NEW c \in (h + a)..(h + a + 3) PROVE w[c] = m2[c]
      <4>1. c \in D /\ h + a <= c /\ c < h + a + b - 4
        BY <1>7
      <4> QED  BY <4>1, <1>4, <1>5
    <3> QED  BY <3>1, <3>2, <1>1, HeaderStays
  <2>4. HeaderAt(w, (h + a) - HeaderSize, a)
    <3> DEFINE p == (h + a) - HeaderSize
    <3>1. HeaderAt(m3, p, a) /\ p \in Int
      BY <1>4, <1>7
    <3>2. ASSUME NEW c \in p..(p + 3) PROVE w[c] = m3[c]
      <4>1. c \in D /\ c < h + a + b - 4
        BY <1>7
      <4> QED  BY <4>1, <1>5
    <3> HIDE DEF p
    <3>3. HeaderAt(w, p, a)
      BY <3>1, <3>2, HeaderStays
    <3> QED  BY <3>3 DEF p
  <2>5. HeaderAt(w, (h + a + b) - HeaderSize, b)
    BY <1>5, <1>7
  <2> QED  BY <2>1, <2>2, <2>3, <2>4, <2>5, <1>5 DEF Carved
<1>8. stored = w
  BY DEF FourStores, w, m3, m2, m1
<1>9. SizeAt(w, h, a)
  BY <1>2, <1>6 DEF SizeAt
<1> QED  BY <1>5, <1>7, <1>8, <1>9

(* A halving makes the block smaller, *)
LEMMA HalvedCells ==
    ASSUME NEW M \in Nat, NEW m \in [0..(M - 1) -> Byte], NEW h \in 0..(M - 1),
           NEW n \in Nat \ {0}, m[h].size > 2 * n + 16
    PROVE  /\ Halved(m, h) \in [0..(M - 1) -> Byte]
           /\ Halved(m, h)[h].size = m[h].size \div 2
           /\ m[h].size \in Nat /\ m[h].size \div 2 \in Nat
           /\ m[h].size \div 2 < m[h].size
<1> DEFINE a == m[h].size \div 2
           b == a + (m[h].size % 2)
<1>1. m[h].size \in Nat
  <2>1. m[h].size \in Int
    BY SizeIsInt
  <2> QED  BY <2>1
<1>2. a \in Nat /\ b \in Nat /\ n + 8 <= a /\ n + 8 <= b /\ a < m[h].size
  BY <1>1, HalvesOf
<1>3. Halved(m, h) = FourStores(m, h, a, b)
  BY DEF Halved, FourStores
<1> HIDE DEF a, b
<1> DEFINE w == Halved(m, h)
<1> HIDE DEF w
<1>4. w \in [0..(M - 1) -> Byte] /\ w[h].size = a
  <2>1. a >= 8 /\ b >= 8
    BY <1>2
  <2>2. w = FourStores(m, h, a, b)
    BY <1>3 DEF w
  <2>3. w \in [0..(M - 1) -> Byte] /\ SizeAt(w, h, a)
    BY <2>1, <2>2, <1>2, HalvedIsStored
  <2> QED  BY <2>3 DEF SizeAt
<1> QED  BY <1>1, <1>2, <1>4 DEF a, w

(* and replaces one tile by two. *)
LEMMA HalvedIsCarved ==
    ASSUME NEW M \in Nat, NEW m \in [0..(M - 1) -> Byte], NEW h \in 0..(M - 1),
           NEW n \in Nat \ {0}, m[h].size > 2 * n + 16, h + m[h].size <= M
    PROVE  Carved(m, Halved(m, h), M, h,
                  m[h].size \div 2, m[h].size \div 2 + (m[h].size % 2))
<1> DEFINE a == m[h].size \div 2
           b == a + (m[h].size % 2)
<1>1. m[h].size \in Nat
  <2>1. m[h].size \in Int
    BY SizeIsInt
  <2> QED  BY <2>1
<1>2. a \in Nat /\ b \in Nat /\ n + 8 <= a /\ n + 8 <= b /\ a + b = m[h].size
  BY <1>1, HalvesOf
<1>3. Halved(m, h) = FourStores(m, h, a, b)
  BY DEF Halved, FourStores
<1> HIDE DEF a, b
<1>4. h + a + b <= M
  BY <1>2
<1>5. Carved(m, Halved(m, h), M, h, a, b)
  <2>1. a >= 8 /\ b >= 8
    BY <1>2
  <2> QED  BY <2>1, <1>2, <1>3, <1>4, HalvedIsStored
<1> QED  BY <1>5 DEF a, b

(* A round of split_block keeps the tiling and what is not split. *)
LEMMA HalvedKeeps ==
    ASSUME NEW M \in Nat, NEW given, NEW S, NEW h, NEW n \in Nat \ {0},
           NEW m, NEW T, End(given, h) \in Int,
           SplitInv(given, S, M, h, n, m, T), m[h].size > 2 * n + 16
    PROVE  \E U : SplitInv(given, S, M, h, n, Halved(m, h), U)
<1> DEFINE a == m[h].size \div 2
           b == a + (m[h].size % 2)
           w == Halved(m, h)
           U == T \cup {h + a}
<1>1. /\ Tiles(m, M, T) /\ h \in T /\ End(m, h) <= End(given, h)
      /\ \A c \in 0..(M - 1) : c < h \/ End(given, h) <= c => m[c] = given[c]
      /\ \A k \in 0..(M - 1) : k < h \/ End(given, h) <= k => (k \in T <=> k \in S)
      /\ \A k \in T : h <= k /\ k < End(given, h) => m[k].size > 0
  BY DEF SplitInv
<1>2. /\ m \in [0..(M - 1) -> Byte] /\ h \in 0..(M - 1) /\ h \in Int
      /\ End(m, h) = h + m[h].size /\ h + m[h].size <= M /\ m[h].size \in Nat
  <2>1. m \in [0..(M - 1) -> Byte]
    BY <1>1 DEF Tiles
  <2>2. /\ h \in 0..(M - 1) /\ m[h].size \in Int /\ End(m, h) <= M
        /\ m[h].size > 0 => End(m, h) = h + m[h].size
    BY <1>1, BlockPlace
  <2> QED  BY <2>1, <2>2
<1>3. a \in Nat /\ b \in Nat /\ n + 8 <= a /\ n + 8 <= b /\ a + b = m[h].size
  BY <1>2, HalvesOf
<1>4. Carved(m, w, M, h, a, b)
  BY <1>2, HalvedIsCarved
<1> HIDE DEF a, b, w
<1>5. Tiles(w, M, U)
  <2>1. a >= 8 /\ b >= 8 /\ m[h].size = a + b
    BY <1>3
  <2> QED  BY <2>1, <1>1, <1>3, <1>4, Carve
<1>6. w[h].size = a /\ w[h + a].size = b
  <2>1. HeaderAt(w, h, a) /\ HeaderAt(w, h + a, b) /\ h + a \in Int
    BY <1>2, <1>3, <1>4 DEF Carved
  <2> QED  BY <2>1, <1>2, HeaderSays
<1>7. End(w, h) = h + a
  BY <1>3, <1>6, Magnitudes DEF End
<1>8. h + a < End(given, h) /\ h < h + a
  BY <1>1, <1>2, <1>3
<1>9. ASSUME NEW c \in 0..(M - 1), c < h \/ End(given, h) <= c
      PROVE  w[c] = given[c]
  <2>1. c < h \/ h + a + b <= c
    BY <1>9, <1>1, <1>2, <1>3
  <2>2. w[c] = m[c]
    BY <2>1, <1>4 DEF Carved
  <2> QED  BY <2>2, <1>9, <1>1
<1>10. ASSUME NEW k \in 0..(M - 1), k < h \/ End(given, h) <= k
       PROVE  k \in U <=> k \in S
  <2>1. k # h + a
    BY <1>10, <1>2, <1>3, <1>8
  <2> QED  BY <2>1, <1>10, <1>1
<1>11. ASSUME NEW k \in U, h <= k, k < End(given, h) PROVE w[k].size > 0
  <2>1. CASE k = h
    BY <2>1, <1>3, <1>6
  <2>2. CASE k = h + a
    BY <2>2, <1>3, <1>6
  <2>3. CASE k # h /\ k # h + a
    <3>1. k \in T /\ k \in 0..(M - 1) /\ h < k
      <4>1. k \in T
        BY <2>3
      <4>2. k \in 0..(M - 1)
        BY <4>1, <1>1, BlockPlace
      <4> QED  BY <4>1, <4>2, <2>3, <1>2, <1>11
    <3>2. End(m, h) <= k
      BY <3>1, <1>1, BlockPlace
    <3>3. h + a + b <= k
      BY <3>1, <3>2, <1>2, <1>3
    <3>4. w[k] = m[k]
      BY <3>1, <3>3, <1>4 DEF Carved
    <3> QED  BY <3>1, <3>4, <1>1, <1>11
  <2> QED  BY <2>1, <2>2, <2>3
<1>12. SplitInv(given, S, M, h, n, w, U)
  <2>1. h \in U /\ n + 8 <= w[h].size /\ End(w, h) <= End(given, h)
    <3>1. h \in U
      BY <1>1
    <3>2. n + 8 <= w[h].size
      BY <1>3, <1>6
    <3>3. End(w, h) <= End(given, h)
      BY <1>2, <1>3, <1>7, <1>8
    <3> QED  BY <3>1, <3>2, <3>3
  <2> HIDE DEF U
  <2> QED  BY <2>1, <1>5, <1>9, <1>10, <1>11 DEF SplitInv
<1> QED  BY <1>12 DEF w

(* Where the loop of myalloc that splits block h ends. *)
LEMMA SplitIsDone ==
    ASSUME MEMORY_SIZE \in Nat, NEW given, NEW S, Tiles(given, MEMORY_SIZE, S),
           NEW h \in S, NEW n \in Nat \ {0}, n + 8 <= given[h].size
    PROVE  \E T : SplitInv(given, S, MEMORY_SIZE, h, n, Split(given, h, n), T)
<1> DEFINE States == [0..(MEMORY_SIZE - 1) -> Byte]
           Ends(m) == m[h].size <= 2 * n + 16
           Good(m) == \E T : SplitInv(given, S, MEMORY_SIZE, h, n, m, T)
           stop == {m \in States : Ends(m)}
           same == [m \in States |-> m]
           next == [m \in States |-> Halved(m, h)]
           measure == [m \in States |-> IF m[h].size > 0 THEN m[h].size ELSE 0]
           inv == {m \in States : Good(m)}
           Body(g) == [m \in States |-> IF Ends(m) THEN m ELSE g[Halved(m, h)]]
           split == CHOOSE g : g = Body(g)
<1>0. h \in 0..(MEMORY_SIZE - 1)
  BY BlockPlace
<1>1. Falls(measure, States, stop, next)
  <2>1. measure \in [States -> Nat]
    <3>1. \A m \in States : m[h].size \in Int
      BY <1>0, SizeIsInt
    <3> QED  BY <3>1
  <2>2. ASSUME NEW m \in States \ stop
        PROVE  next[m] \in States /\ measure[next[m]] < measure[m]
    <3>1. m \in States /\ m[h].size > 2 * n + 16
      BY <1>0, SizeIsInt
    <3>2. /\ Halved(m, h) \in States /\ Halved(m, h)[h].size = m[h].size \div 2
          /\ m[h].size \in Nat /\ m[h].size \div 2 \in Nat
          /\ m[h].size \div 2 < m[h].size
      BY <1>0, <3>1, HalvedCells
    <3> QED  BY <3>1, <3>2
  <2> QED  BY <2>1, <2>2 DEF Falls
<1>2. ASSUME NEW g PROVE IsLoop(g, States, stop, same, next) <=> g = Body(g)
  <2>1. [m \in States |-> IF m \in stop THEN same[m] ELSE g[next[m]]] = Body(g)
    OBVIOUS
  <2> QED  BY <2>1 DEF IsLoop
<1>3. split = Body(split)
  <2>1. \E g : IsLoop(g, States, stop, same, next)
    <3> HIDE DEF States, stop, same, next, measure
    <3> QED  BY <1>1, LoopDefined
  <2>2. \E g : g = Body(g)
    BY <2>1, <1>2
  <2> HIDE DEF Body
  <2> QED  BY <2>2
<1>4. IsLoop(split, States, stop, same, next)
  <2> HIDE DEF Body, split
  <2> QED  BY <1>2, <1>3
<1>5. Keeps(inv, inv, States, stop, same, next)
  <2>1. ASSUME NEW m \in inv, m \notin stop PROVE next[m] \in inv
    <3>1. m \in States /\ m[h].size > 2 * n + 16 /\ Good(m)
      BY <2>1, <1>0, SizeIsInt
    <3>2. PICK T : SplitInv(given, S, MEMORY_SIZE, h, n, m, T)
      BY <3>1
    <3>3. End(given, h) \in Int
      BY BlockPlace
    <3>4. Good(Halved(m, h))
      BY <3>1, <3>2, <3>3, HalvedKeeps
    <3>5. Halved(m, h) \in States
      BY <1>0, <3>1, HalvedCells
    <3> HIDE DEF Good
    <3> QED  BY <3>1, <3>4, <3>5
  <2>2. ASSUME NEW m \in inv \cap stop PROVE same[m] \in inv
    BY <2>2
  <2> HIDE DEF Good
  <2> QED  BY <2>1, <2>2 DEF Keeps
<1>6. \A m \in inv : split[m] \in inv
  <2> HIDE DEF States, stop, same, next, measure, inv, split
  <2> QED  BY <1>1, <1>4, <1>5, LoopRule
<1>7. given \in inv
  <2>1. given \in States
    BY DEF Tiles
  <2>2. \A k \in S : h <= k /\ k < End(given, h) => given[k].size > 0
    <3>1. ASSUME NEW k \in S, h <= k, k < End(given, h) PROVE k = h
      <4>1. k \in Int /\ h \in Int /\ End(given, h) \in Int
        BY BlockPlace
      <4>2. ~(h < k)
        BY <3>1, <4>1, BlockPlace
      <4> QED  BY <3>1, <4>1, <4>2
    <3>2. given[h].size > 0
      <4>1. given[h].size \in Int
        BY BlockPlace
      <4> QED  BY <4>1
    <3> QED  BY <3>1, <3>2
  <2>3. End(given, h) <= End(given, h)
    BY BlockPlace
  <2>4. SplitInv(given, S, MEMORY_SIZE, h, n, given, S)
    BY <2>2, <2>3 DEF SplitInv
  <2> QED  BY <2>1, <2>4
<1>8. Split(given, h, n) = split[given]
  <2>1. ASSUME NEW g
        PROVE  Body(g) = [m \in [0..(MEMORY_SIZE - 1) -> Byte] |->
                  LET half == m[h].size \div 2
                      rest == half + (m[h].size % 2)
                      footer == h + half - HeaderSize
                  IN  IF m[h].size <= 2 * n + 16 THEN m
                      ELSE g[Put(Put(Put(Put(m, h, half), h + half, rest),
                                     footer, half), footer + rest, rest)]]
    BY DEF Halved
  <2> QED  BY <2>1 DEF Split
<1>9. split[given] \in inv
  <2> HIDE DEF inv, split
  <2> QED  BY <1>6, <1>7
<1> HIDE DEF split
<1> QED  BY <1>8, <1>9

-----------------------------------------------------------------------------
(* FirstFit finds a block with room when there is one. *)

(* The headers of the pool are its tiles. *)
LEMMA HeadersAreTiles ==
    ASSUME MEMORY_SIZE \in Nat, NEW S, Tiles(mem, MEMORY_SIZE, S)
    PROVE  Headers = S \cup {MEMORY_SIZE} /\ MEMORY_SIZE \notin S
<1>1. Headers = HeadersOf(mem, MEMORY_SIZE)
  BY DEF Headers, HeadersOf
<1>2. MEMORY_SIZE \notin S
  BY DEF Tiles
<1> QED  BY <1>1, <1>2, HeadersOfTiles

(* The block found is free and has room; if none is, no free block has. *)
LEMMA FirstFitIs ==
    ASSUME MEMORY_SIZE \in Nat, NEW S, Tiles(mem, MEMORY_SIZE, S),
           NEW n \in Nat \ {0}
    PROVE  /\ FirstFit(n) # NoBlock => FirstFit(n) \in S /\ n + 8 <= mem[FirstFit(n)].size
           /\ FirstFit(n) = NoBlock => \A h \in S : mem[h].size < n + 8
<1> DEFINE fits == {h \in Headers : h + n < MEMORY_SIZE /\ mem[h].size >= n + 8}
<1>1. Headers = S \cup {MEMORY_SIZE} /\ MEMORY_SIZE \notin S
  BY HeadersAreTiles
<1>2. ASSUME NEW h \in S PROVE h \in Nat /\ mem[h].size \in Int
  <2>1. h \in 0..(MEMORY_SIZE - 1) /\ mem[h].size \in Int
    BY BlockPlace
  <2> QED  BY <2>1
<1>3. fits \in SUBSET Nat /\ fits \subseteq S /\ \A h \in fits : n + 8 <= mem[h].size
  <2>1. fits \subseteq S
    BY <1>1
  <2>2. fits \in SUBSET Nat
    BY <2>1, <1>2
  <2>3. ASSUME NEW h \in fits PROVE n + 8 <= mem[h].size
    <3>1. mem[h].size \in Int /\ mem[h].size >= n + 8
      BY <2>1, <1>2
    <3> QED  BY <3>1
  <2> HIDE DEF fits
  <2> QED  BY <2>1, <2>2, <2>3
<1>4. CASE fits = {}
  <2>1. ASSUME NEW h \in S PROVE mem[h].size < n + 8
    <3>1. /\ h \in Nat /\ mem[h].size \in Int /\ End(mem, h) <= MEMORY_SIZE
          /\ mem[h].size > 0 => End(mem, h) = h + mem[h].size
      BY <1>2, BlockPlace
    <3>2. mem[h].size >= n + 8 => h + n < MEMORY_SIZE
      BY <3>1
    <3> QED  BY <3>1, <3>2, <1>1, <1>4
  <2>2. FirstFit(n) = NoBlock
    BY <1>4 DEF FirstFit
  <2> QED  BY <2>1, <2>2
<1>5. CASE fits # {}
  <2>1. \E x \in fits : \A y \in fits : x <= y
    <3> HIDE DEF fits
    <3> QED  BY <1>3, <1>5, LeastNat
  <2>2. FirstFit(n) = CHOOSE x \in fits : \A y \in fits : x <= y
    BY <1>5 DEF FirstFit, Min
  <2>3. FirstFit(n) \in fits
    <3> HIDE DEF fits
    <3> QED  BY <2>1, <2>2
  <2>4. FirstFit(n) \in Nat /\ NoBlock \notin Nat
    BY <1>3, <2>3 DEF NoBlock
  <2> HIDE DEF fits
  <2> QED  BY <1>3, <2>3, <2>4
<1> QED  BY <1>4, <1>5

-----------------------------------------------------------------------------
(* myfree makes one free block, from p to e, of a block and its free          *)
(* neighbours.                                                                *)

Region(S, h, p, e) ==
    /\ p \in S /\ e \in S \cup {MEMORY_SIZE} /\ p <= h /\ h < e
    /\ \A k \in S : p <= k /\ k < e => k = h \/ mem[k].size > 0

(* A block freed is joined with a free one behind it, and no other. *)
LEMMA NextJoins ==
    ASSUME MEMORY_SIZE \in Nat, NEW S, Tiles(mem, MEMORY_SIZE, S),
           NEW h \in S, mem[h].size < 0
    PROVE  LET current == -mem[h].size
               next == h + current
               joinsNext == next <= MEMORY_SIZE - 1 /\ mem[next].size > 0
               e == h + (current + (IF joinsNext THEN mem[next].size ELSE 0))
           IN  /\ e \in S \cup {MEMORY_SIZE} /\ e \in Int /\ h < e
               /\ \A k \in S : h <= k /\ k < e => k = h \/ mem[k].size > 0
<1> DEFINE current == -mem[h].size
           next == h + current
           joinsNext == next <= MEMORY_SIZE - 1 /\ mem[next].size > 0
           e == h + (current + (IF joinsNext THEN mem[next].size ELSE 0))
<1>1. /\ h \in Int /\ mem[h].size \in Int /\ next \in Int /\ next = End(mem, h)
      /\ next \in S \cup {MEMORY_SIZE} /\ h < next
  <2>1. /\ h \in 0..(MEMORY_SIZE - 1) /\ mem[h].size \in Int
        /\ h + 8 <= End(mem, h) /\ End(mem, h) = h - mem[h].size
        /\ End(mem, h) \in S \cup {MEMORY_SIZE}
    BY BlockPlace
  <2>2. next = h - mem[h].size
    BY <2>1
  <2> QED  BY <2>1, <2>2
<1> HIDE DEF next
<1>2. ASSUME NEW k \in S, h <= k PROVE k = h \/ next <= k
  <2>1. k \in Int /\ (h < k => End(mem, h) <= k)
    BY BlockPlace
  <2> QED  BY <2>1, <1>1, <1>2
<1> DEFINE Goal == /\ e \in S \cup {MEMORY_SIZE} /\ e \in Int /\ h < e
                   /\ \A k \in S : h <= k /\ k < e => k = h \/ mem[k].size > 0
<1>3. ASSUME ~joinsNext PROVE Goal
  <2>1. e = next
    BY <1>1, <1>3 DEF next
  <2>2. ASSUME NEW k \in S, h <= k, k < e PROVE k = h
    <3>1. k \in Int
      BY BlockPlace
    <3> HIDE DEF e
    <3> QED  BY <2>1, <2>2, <3>1, <1>1, <1>2
  <2> HIDE DEF e
  <2> QED  BY <2>1, <2>2, <1>1
<1>4. ASSUME joinsNext PROVE Goal
  <2>1. next \in S
    BY <1>1, <1>4
  <2>2. /\ mem[next].size \in Int /\ End(mem, next) = next + mem[next].size
        /\ End(mem, next) \in S \cup {MEMORY_SIZE}
    BY <2>1, <1>4, BlockPlace
  <2>3. e = End(mem, next) /\ e \in Int /\ h < e
    <3>1. e = h + (current + mem[next].size)
      BY <1>4
    <3>2. next = h + current
      BY DEF next
    <3>3. mem[next].size > 0
      BY <1>4
    <3> HIDE DEF e
    <3> QED  BY <3>1, <3>2, <3>3, <2>2, <1>1
  <2> HIDE DEF e
  <2>4. ASSUME NEW k \in S, h <= k, k < e PROVE k = h \/ mem[k].size > 0
    <3>1. CASE k = h
      BY <3>1
    <3>2. CASE next < k
      <4>1. End(mem, next) <= k
        BY <2>1, <3>2, BlockPlace
      <4>2. k \in Int
        BY BlockPlace
      <4> QED  BY <4>1, <4>2, <2>3, <2>4
    <3>3. CASE k = next
      BY <3>3, <1>4
    <3>4. k \in Int
      BY BlockPlace
    <3> QED  BY <3>1, <3>2, <3>3, <3>4, <2>4, <1>1, <1>2
  <2> QED  BY <2>2, <2>3, <2>4
<1>5. Goal
  BY <1>3, <1>4
<1> QED  BY <1>5 DEF next

(* The footer before a block says where the block before it starts. *)
LEMMA FooterSays ==
    ASSUME NEW M \in Nat, NEW m, NEW S, Tiles(m, M, S), NEW q \in S, NEW h \in S,
           End(m, q) = h
    PROVE  /\ q \in Int /\ q < h /\ m[q].size \in Int
           /\ m[h - HeaderSize].size = m[q].size
           /\ m[q].size > 0 => h = q + m[q].size
<1>1. /\ q \in 0..(M - 1) /\ m[q].size \in Int /\ q + 8 <= End(m, q)
      /\ S = {0} \/ Mirrored(m, q)
      /\ m[q].size > 0 => End(m, q) = q + m[q].size
  BY BlockPlace
<1>2. h \in Int
  BY BlockPlace
<1>3. q < h
  BY <1>1, <1>2
<1>4. S # {0}
  BY <1>1, <1>2, <1>3
<1>5. HeaderAt(m, h - HeaderSize, m[q].size)
  BY <1>1, <1>4 DEF Mirrored
<1>6. m[h - HeaderSize].size = m[q].size
  <2> DEFINE f == h - HeaderSize
  <2>1. f \in Int
    BY <1>2
  <2>2. HeaderAt(m, f, m[q].size)
    BY <1>5
  <2> HIDE DEF f
  <2>3. m[f].size = m[q].size
    BY <2>1, <2>2, HeaderSays
  <2> QED  BY <2>3 DEF f
<1> QED  BY <1>1, <1>3, <1>6

(* myfree replaces the freed block and its free neighbours by one. *)
LEMMA FreeIsJoin ==
    ASSUME MEMORY_SIZE \in Nat, NEW S, Tiles(mem, MEMORY_SIZE, S),
           NEW oldptr, NEW h \in S, h = oldptr - HeaderSize, mem[h].size < 0
    PROVE  \E p, e : Region(S, h, p, e) /\ myfree(oldptr) = Sized(mem, p, e - p)
<1> DEFINE current == -mem[h].size
           next == h + current
           joinsNext == next <= MEMORY_SIZE - 1 /\ mem[next].size > 0
           joinsPrev == h # 0 /\ mem[h - HeaderSize].size > 0
           after == current + (IF joinsNext THEN mem[next].size ELSE 0)
           e == h + after
<1>1. /\ e \in S \cup {MEMORY_SIZE} /\ e \in Int /\ h < e
      /\ \A k \in S : h <= k /\ k < e => k = h \/ mem[k].size > 0
  BY NextJoins
<1>2. h \in Int /\ mem[h].size \in Int /\ h \in 0..(MEMORY_SIZE - 1)
  BY BlockPlace
<1>3. myfree(oldptr) = Sized(mem, IF joinsPrev THEN h - mem[h - HeaderSize].size ELSE h,
                             after + (IF joinsPrev THEN mem[h - HeaderSize].size ELSE 0))
  BY DEF myfree
<1>4. after \in Int
  <2>1. h + current \in 0..(MEMORY_SIZE - 1) => mem[h + current].size \in Int
    <3>1. mem \in [0..(MEMORY_SIZE - 1) -> Byte]
      BY DEF Tiles
    <3> QED  BY <3>1, SizeIsInt
  <2>2. joinsNext => h + current \in 0..(MEMORY_SIZE - 1)
    <3>1. End(mem, h) = h - mem[h].size /\ h + 8 <= End(mem, h)
      BY BlockPlace
    <3> QED  BY <3>1, <1>2
  <2> QED  BY <2>1, <2>2, <1>2
<1> HIDE DEF after
<1>5. CASE ~joinsPrev
  <2>1. e - h = after + 0
    BY <1>2, <1>4
  <2>2. myfree(oldptr) = Sized(mem, h, e - h)
    BY <2>1, <1>3, <1>5
  <2>3. Region(S, h, h, e)
    <3>1. h \in S /\ h <= h
      BY <1>2
    <3> HIDE DEF e
    <3> QED  BY <3>1, <1>1, Zenon DEF Region
  <2> QED  BY <2>2, <2>3
<1>6. CASE joinsPrev
  <2>1. PICK q \in S : End(mem, q) = h
    BY <1>6 DEF Tiles
  <2>2. /\ q \in Int /\ q < h /\ mem[q].size \in Int
        /\ mem[h - HeaderSize].size = mem[q].size
        /\ mem[q].size > 0 => h = q + mem[q].size
    BY <2>1, FooterSays
  <2>3. /\ q = h - mem[h - HeaderSize].size /\ mem[q].size > 0
        /\ e - q = after + mem[h - HeaderSize].size
    <3>1. mem[h - HeaderSize].size > 0
      BY <1>6
    <3> HIDE DEF joinsPrev
    <3> QED  BY <3>1, <2>2, <1>2, <1>4
  <2>4. myfree(oldptr) = Sized(mem, q, e - q)
    BY <2>3, <1>3, <1>6
  <2>5. ASSUME NEW k \in S, q <= k, k < e PROVE k = h \/ mem[k].size > 0
    <3>1. k \in Int
      BY BlockPlace
    <3>2. CASE k = q
      BY <3>2, <2>3
    <3>3. CASE k # q
      <4>1. q < k
        BY <3>1, <3>3, <2>2, <2>5
      <4>2. h <= k
        BY <4>1, <2>1, BlockPlace
      <4> QED  BY <4>2, <2>5, <1>1
    <3> QED  BY <3>2, <3>3
  <2>6. Region(S, h, q, e)
    BY <2>2, <2>5, <1>1, <1>2 DEF Region
  <2> QED  BY <2>4, <2>6
<1> QED  BY <1>5, <1>6

(* The two stores of myfree write the header and the footer of one block. *)
LEMMA SizedIsJoined ==
    ASSUME NEW M \in Nat, NEW m \in [0..(M - 1) -> Byte], NEW p \in Int, NEW e \in Int,
           0 <= p, p + 8 <= e, e <= M, NEW w, w = Sized(m, p, e - p)
    PROVE  Joined(m, w, M, p, e)
<1> DEFINE m1 == Put(m, p, e - p)
           f == e - HeaderSize
<1>1. e - p \in Int /\ f \in Int /\ 0 <= f /\ f + 4 = e /\ p + 4 <= f
  OBVIOUS
<1>2. /\ m1 \in [0..(M - 1) -> Byte] /\ HeaderAt(m1, p, e - p)
      /\ \A c \in 0..(M - 1) : c < p \/ p + 4 <= c => m1[c] = m[c]
  <2>1. p + 4 <= M
    OBVIOUS
  <2> HIDE DEF f
  <2> QED  BY <2>1, <1>1, PutStores
<1>3. w = Put(m1, f, e - p)
  <2>1. (p + (e - p)) - HeaderSize = f
    OBVIOUS
  <2>2. p + (e - p) - HeaderSize = f
    OBVIOUS
  <2> HIDE DEF f
  <2> QED  BY <2>1, <2>2 DEF Sized
<1> HIDE DEF m1, f
<1>4. /\ w \in [0..(M - 1) -> Byte] /\ HeaderAt(w, f, e - p)
      /\ \A c \in 0..(M - 1) : c < f \/ f + 4 <= c => w[c] = m1[c]
  <2>1. f + 4 <= M
    BY <1>1
  <2> QED  BY <2>1, <1>1, <1>2, <1>3, PutStores
<1>5. HeaderAt(w, p, e - p)
  <2>1. p + 4 <= M
    OBVIOUS
  <2> QED  BY <2>1, <1>1, <1>2, <1>3, PutElsewhere
<1>6. ASSUME NEW c \in 0..(M - 1), c < p \/ e <= c PROVE w[c] = m[c]
  <2>1. w[c] = m1[c]
    BY <1>1, <1>4, <1>6
  <2>2. m1[c] = m[c]
    BY <1>2, <1>6
  <2> QED  BY <2>1, <2>2
<1> QED  BY <1>4, <1>5, <1>6 DEF Joined, f

(* What myfree does to the tiles and to the client's other blocks. *)
LEMMA FreeServes ==
    ASSUME MEMORY_SIZE \in Nat, NEW S, Tiles(mem, MEMORY_SIZE, S),
           Serves(mem, S, live), NEW id \in DOMAIN live,
           NEW kept, kept = [i \in DOMAIN live \ {id} |-> live[i]]
    PROVE  \E T : /\ Tiles(myfree(live[id].at), MEMORY_SIZE, T)
                  /\ Serves(myfree(live[id].at), T, kept)
                  /\ \A k \in T : Mirrored(myfree(live[id].at), k)
<1> DEFINE h == live[id].at - HeaderSize
<1>1. h \in S /\ mem[h].size < 0
  BY DEF Serves, Placed
<1>2. PICK p, e : /\ Region(S, h, p, e)
                  /\ myfree(live[id].at) = Sized(mem, p, e - p)
  <2>1. h = live[id].at - HeaderSize
    OBVIOUS
  <2> HIDE DEF h
  <2> QED  BY <1>1, <2>1, FreeIsJoin
<1> HIDE DEF h
<1> DEFINE w == myfree(live[id].at)
           T == {k \in S : k <= p \/ e <= k}
<1>3. /\ p \in S /\ e \in S \cup {MEMORY_SIZE} /\ p <= h /\ h < e
      /\ \A k \in S : p <= k /\ k < e => k = h \/ mem[k].size > 0
  BY <1>2 DEF Region
<1>4. /\ p \in 0..(MEMORY_SIZE - 1) /\ p \in Int /\ h \in Int
      /\ e \in Int /\ e <= MEMORY_SIZE /\ p < e
      /\ mem \in [0..(MEMORY_SIZE - 1) -> Byte]
  <2>1. /\ S \subseteq 0..(MEMORY_SIZE - 1)
        /\ mem \in [0..(MEMORY_SIZE - 1) -> Byte]
    BY DEF Tiles
  <2>2. e \in Int /\ e <= MEMORY_SIZE
    BY <2>1, <1>3
  <2> QED  BY <2>1, <2>2, <1>1, <1>3
<1>5. w = Sized(mem, p, e - p)
  BY <1>2
<1> HIDE DEF w
<1>6. 0 <= p /\ p + 8 <= e
  <2>1. p + 8 <= End(mem, p) /\ End(mem, p) \in Int /\ End(mem, p) <= MEMORY_SIZE
    BY <1>3, BlockPlace
  <2>2. End(mem, p) <= e
    <3>1. CASE e \in S
      BY <3>1, <1>3, <1>4, BlockPlace
    <3>2. CASE e = MEMORY_SIZE
      BY <3>2, <2>1
    <3> QED  BY <3>1, <3>2, <1>3
  <2> QED  BY <2>1, <2>2, <1>4
<1>7. Joined(mem, w, MEMORY_SIZE, p, e)
  BY <1>4, <1>5, <1>6, SizedIsJoined
<1>8. Tiles(w, MEMORY_SIZE, T) /\ \A k \in T : Mirrored(w, k)
  BY <1>3, <1>4, <1>7, Join
<1>9. Serves(w, T, kept)
  <2>1. \A a \in 0..(MEMORY_SIZE - 1) : a < p \/ e <= a => w[a] = mem[a]
    BY <1>7 DEF Joined
  <2>2. \A k \in 0..(MEMORY_SIZE - 1) : k < p \/ e <= k => (k \in T <=> k \in S)
    BY <1>4
  <2>3. ASSUME NEW k \in T, p <= k, k < e PROVE w[k].size > 0
    <3>1. k = p
      <4>1. k \in Int
        BY BlockPlace
      <4> QED  BY <4>1, <2>3, <1>4
    <3>2. w[p].size = e - p
      <4>1. HeaderAt(w, p, e - p)
        BY <1>7 DEF Joined
      <4> QED  BY <4>1, <1>4, HeaderSays
    <3> QED  BY <3>1, <3>2, <1>4
  <2>4. /\ DOMAIN kept \subseteq DOMAIN live
        /\ \A i \in DOMAIN kept : kept[i] = live[i]
    OBVIOUS
  <2>5. ASSUME NEW i \in DOMAIN live
        PROVE  i \in DOMAIN kept <=> live[i].at - HeaderSize < p \/ e <= live[i].at - HeaderSize
    <3> DEFINE k == live[i].at - HeaderSize
    <3>1. k \in S /\ mem[k].size < 0 /\ k \in Int
      <4>1. k \in S /\ mem[k].size < 0
        BY DEF Serves, Placed
      <4> HIDE DEF k
      <4> QED  BY <4>1, BlockPlace
    <3>2. k = h <=> i = id
      <4>1. live[i].at \in Int /\ live[id].at \in Int
        BY DEF Serves, Placed
      <4>2. i # id => live[i].at # live[id].at
        BY DEF Serves, Placed
      <4> QED  BY <4>1, <4>2 DEF h
    <3>3. i \in DOMAIN kept <=> i # id
      OBVIOUS
    <3> HIDE DEF k
    <3>4. p <= k /\ k < e => k = h
      <4>1. mem[k].size \in Int
        BY <3>1, BlockPlace
      <4> QED  BY <4>1, <3>1, <1>3
    <3>5. k = h <=> ~(k < p \/ e <= k)
      BY <3>1, <3>4, <1>3, <1>4
    <3> QED  BY <3>2, <3>3, <3>5 DEF k
  <2> HIDE DEF T
  <2>6. Changes(mem, w, MEMORY_SIZE, S, T, p, e)
    BY <2>1, <2>2, <1>3 DEF Changes
  <2>7. Keeping(live, kept, p, e)
    BY <2>4, <2>5 DEF Keeping
  <2> QED  BY <2>3, <2>6, <2>7, <1>8, ServesElsewhere
<1> QED  BY <1>8, <1>9 DEF w

-----------------------------------------------------------------------------
(* What the client has in use. *)

CellsInUse(blocks) == UNION {BlockCells(blocks[i]) : i \in DOMAIN blocks}

(* Data are of one block. *)
LEMMA DataNames ==
    ASSUME NEW i, NEW j, Data(i) = Data(j)
    PROVE  i = j
<1>1. Data(i).size = i /\ Data(j).size = j
  BY DEF Data
<1> QED  BY <1>1

(* One block more uses as many cells more as its size. *)
LEMMA CellsOfOneMore ==
    ASSUME NEW m, NEW S, NEW more, Placed(m, S, more), NEW id \in DOMAIN more,
           NEW kept, DOMAIN kept = DOMAIN more \ {id},
           \A i \in DOMAIN kept : kept[i] = more[i],
           IsFiniteSet(CellsInUse(kept))
    PROVE  /\ IsFiniteSet(CellsInUse(more))
           /\ Cardinality(CellsInUse(more)) =
                 Cardinality(CellsInUse(kept)) + more[id].size
<1> DEFINE A == CellsInUse(kept)
           B == BlockCells(more[id])
<1>1. CellsInUse(more) = A \cup B
  <2>1. DOMAIN more = DOMAIN kept \cup {id}
    OBVIOUS
  <2> QED  BY <2>1 DEF CellsInUse
<1>2. A \cap B = {}
  <2>1. ASSUME NEW a \in A, a \in B PROVE FALSE
    <3>1. PICK i \in DOMAIN kept : a \in BlockCells(kept[i])
      BY <2>1 DEF CellsInUse
    <3>2. i \in DOMAIN more /\ i # id /\ a \in BlockCells(more[i])
      BY <3>1
    <3>3. m[a] = Data(i) /\ m[a] = Data(id)
      BY <2>1, <3>2 DEF Placed
    <3> QED  BY <3>2, <3>3, DataNames
  <2> QED  BY <2>1
<1>3. IsFiniteSet(B) /\ Cardinality(B) = more[id].size
  <2> DEFINE from == more[id].at
             n == more[id].size
  <2>1. from \in Int /\ n \in Nat \ {0}
    BY DEF Placed
  <2> HIDE DEF from, n
  <2>2. from + n - 1 \in Int /\ ~(from > from + n - 1) /\ from + n - 1 - from + 1 = n
    BY <2>1
  <2>3. /\ IsFiniteSet(from .. (from + n - 1))
        /\ Cardinality(from .. (from + n - 1)) = n
    <3> DEFINE to == from + n - 1
    <3>1. to \in Int /\ ~(from > to) /\ to - from + 1 = n
      BY <2>1, <2>2
    <3> HIDE DEF to
    <3>2. IsFiniteSet(from .. to) /\ Cardinality(from .. to) = n
      BY <2>1, <3>1, FS_Interval
    <3> QED  BY <3>2 DEF to
  <2> QED  BY <2>3 DEF BlockCells, from, n
<1> HIDE DEF A, B
<1>4. Cardinality(A) \in Nat /\ Cardinality(B) \in Nat
  BY <1>3, FS_CardinalityType DEF A
<1>5. IsFiniteSet(A \cup B) /\ Cardinality(A \cup B) = Cardinality(A) + Cardinality(B)
  <2>1. Cardinality(A \cap B) = 0
    BY <1>2, FS_EmptySet
  <2>2. /\ IsFiniteSet(A \cup B)
        /\ Cardinality(A \cup B) = Cardinality(A) + Cardinality(B) - Cardinality(A \cap B)
    <3>1. IsFiniteSet(A)
      BY DEF A
    <3> QED  BY <3>1, <1>3, FS_Union
  <2>3. Cardinality(A \cup B) = Cardinality(A) + Cardinality(B) - 0
    BY <2>1, <2>2
  <2> QED  BY <2>2, <2>3, <1>4
<1> QED  BY <1>1, <1>3, <1>5 DEF A

(* Each block in use has a cell of its own, so a client with room to spare has *)
(* a name left.                                                                *)
LEMMA NameLeft ==
    ASSUME NEW m, NEW S, NEW blocks, Placed(m, S, blocks),
           IsFiniteSet(CellsInUse(blocks)), Cardinality(CellsInUse(blocks)) < MaxUsed
    PROVE  Min(Id \ DOMAIN blocks) \in Id \ DOMAIN blocks
<1> DEFINE D == DOMAIN blocks
           C == CellsInUse(blocks)
           f == [i \in D |-> blocks[i].at]
<1>1. D \subseteq Id /\ Id \subseteq Nat /\ IsFiniteSet(Id) /\ Cardinality(Id) = MaxUsed
  <2>1. D \subseteq Id
    BY DEF Placed
  <2>2. IsFiniteSet(Id) /\ Cardinality(Id) = MaxUsed
    BY AllocAssumption, FS_Interval DEF Id
  <2> QED  BY <2>1, <2>2, AllocAssumption DEF Id
<1>2. \A i \in D : blocks[i].at \in C
  <2>1. ASSUME NEW i \in D PROVE blocks[i].at \in C
    <3>1. blocks[i].at \in Int /\ blocks[i].size \in Nat \ {0}
      BY DEF Placed
    <3>2. blocks[i].at \in BlockCells(blocks[i])
      BY <3>1 DEF BlockCells
    <3> QED  BY <3>2 DEF CellsInUse
  <2> QED  BY <2>1
<1>3. \A i, j \in D : f[i] = f[j] => i = j
  BY DEF Placed
<1>4. f \in Injection(D, C)
  <2> HIDE DEF C
  <2> QED  BY <1>2, <1>3 DEF Injection, IsInjective
<1>5. Cardinality(D) <= Cardinality(C)
  <2> HIDE DEF f, C, D
  <2>1. IsFiniteSet(C)
    BY DEF C
  <2> QED  BY <2>1, <1>4, FS_Injection
<1>6. Cardinality(C) \in Nat /\ MaxUsed \in Nat
  BY AllocAssumption, FS_CardinalityType
<1>7. Id \ D # {}
  <2>1. ASSUME Id \ D = {} PROVE FALSE
    <3>1. D = Id
      BY <2>1, <1>1
    <3>2. Cardinality(D) = MaxUsed
      BY <3>1, <1>1
    <3> HIDE DEF D, C
    <3> QED  BY <3>2, <1>5, <1>6 DEF C
  <2> QED  BY <2>1
<1>8. \E x \in Id \ D : \A y \in Id \ D : x <= y
  <2> DEFINE R == Id \ D
  <2>1. R \in SUBSET Nat /\ R # {}
    BY <1>1, <1>7
  <2> HIDE DEF R
  <2>2. \E x \in R : \A y \in R : x <= y
    BY <2>1, LeastNat
  <2> QED  BY <2>2 DEF R
<1> QED  BY <1>8 DEF Min

-----------------------------------------------------------------------------
(* The invariant. *)

AllocTypeOK ==
    /\ MEMORY_SIZE \in Nat /\ MEMORY_SIZE >= 2 * HeaderSize
    /\ used_memory \in Int
    /\ wanted \in Nat \ {0}
    /\ failed \in BOOLEAN

(* The blocks at S tile the pool and serve the client.  Only the pool as        *)
(* initialised may have a footer out of place.                                  *)
TiledBy(S) ==
    /\ Tiles(mem, MEMORY_SIZE, S) /\ Serves(mem, S, live)
    /\ \/ MEMORY_SIZE % HeaderSize # 0 /\ mem = init_myalloc
       \/ \A h \in S : Mirrored(mem, h)

UsedIsCounted ==
    IsFiniteSet(CellsInUse(live)) /\ used_memory = Cardinality(CellsInUse(live))

AllocInv ==
    /\ AllocTypeOK
    /\ UsedIsCounted
    /\ FailsOnlyWhenFull
    /\ \E S : TiledBy(S)

(* The client asks for blocks of positive size. *)
LEMMA BlockSizesArePositive == BlockSizes \subseteq Nat \ {0}
BY DEF BlockSizes

(* The two stores of init_myalloc make one block of the pool.  They write at z, *)
(* which is 0.                                                                  *)
LEMMA OneBlock ==
    ASSUME NEW M \in Nat, M >= 8, NEW z \in Int, z = 0, NEW w,
           w = Put(Put([a \in 0..(M - 1) |-> Data(0)], z, M),
                   HeaderSize * (M \div HeaderSize - 1), M)
    PROVE  /\ w \in [0..(M - 1) -> Byte] /\ HeaderAt(w, z, M) /\ SizeAt(w, z, M)
           /\ M % HeaderSize = 0 => HeaderAt(w, M - HeaderSize, M)
<1> DEFINE m0 == [a \in 0..(M - 1) |-> Data(0)]
           m1 == Put(m0, z, M)
           f == HeaderSize * (M \div HeaderSize - 1)
<1>1. /\ f \in Int /\ z + 4 <= f /\ 0 <= f /\ f + 4 <= M
      /\ M % HeaderSize = 0 => f = M - HeaderSize
  OBVIOUS
<1>2. w = Put(m1, f, M)
  OBVIOUS
<1> HIDE DEF f
<1>3. m0 \in [0..(M - 1) -> Byte]
  <2>1. Data(0) \in Byte
    BY DEF Data, Byte
  <2> QED  BY <2>1
<1> HIDE DEF m0
<1>4. z + 4 <= M /\ M \in Int
  OBVIOUS
<1>5. m1 \in [0..(M - 1) -> Byte] /\ HeaderAt(m1, z, M)
  BY <1>3, <1>4, PutStores
<1> HIDE DEF m1
<1>6. w \in [0..(M - 1) -> Byte] /\ HeaderAt(w, f, M)
  BY <1>1, <1>2, <1>4, <1>5, PutStores
<1>7. HeaderAt(w, z, M)
  BY <1>1, <1>2, <1>4, <1>5, PutElsewhere
<1>8. SizeAt(w, z, M)
  <2>1. w[z].size = M
    BY <1>7, HeaderSays
  <2> QED  BY <2>1 DEF SizeAt
<1> QED  BY <1>1, <1>6, <1>7, <1>8

(* The pool as initialised has the invariant. *)
LEMMA AllocInvInit == AllocInit => AllocInv
<1> SUFFICES ASSUME AllocInit PROVE AllocInv
  OBVIOUS
<1> DEFINE M == MEMORY_SIZE
<1>1. /\ M \in Nat /\ M >= 8 /\ live = << >> /\ used_memory = 0 /\ failed = FALSE
      /\ mem = init_myalloc
  BY AllocAssumption DEF AllocInit
<1>2. AllocTypeOK
  <2>1. wanted \in Nat \ {0}
    BY BlockSizesArePositive DEF AllocInit
  <2>2. used_memory \in Int
    BY <1>1
  <2>3. failed \in BOOLEAN
    BY <1>1, Zenon
  <2> QED  BY <2>1, <2>2, <2>3, <1>1 DEF AllocTypeOK
<1>3. UsedIsCounted
  <2>1. DOMAIN live = {}
    BY <1>1
  <2>2. CellsInUse(live) = {}
    BY <2>1 DEF CellsInUse
  <2> QED  BY <2>2, <1>1, FS_EmptySet DEF UsedIsCounted
<1>4. /\ mem \in [0..(M - 1) -> Byte] /\ HeaderAt(mem, 0, M) /\ mem[0].size = M
      /\ M % HeaderSize = 0 => HeaderAt(mem, M - HeaderSize, M)
  <2> DEFINE z == 0
  <2>1. z \in Int /\ z = 0
    OBVIOUS
  <2>2. mem = Put(Put([a \in 0..(M - 1) |-> Data(0)], z, M),
                  HeaderSize * (M \div HeaderSize - 1), M)
    BY <1>1 DEF init_myalloc
  <2> HIDE DEF M, z
  <2>3. /\ mem \in [0..(M - 1) -> Byte] /\ HeaderAt(mem, z, M) /\ SizeAt(mem, z, M)
        /\ M % HeaderSize = 0 => HeaderAt(mem, M - HeaderSize, M)
    BY <1>1, <2>1, <2>2, OneBlock
  <2> QED  BY <2>3 DEF z, SizeAt
<1>5. Magnitude(M) = M /\ End(mem, 0) = M
  <2>1. M \in Int /\ M > 0
    BY <1>1
  <2> HIDE DEF M
  <2>2. Magnitude(M) = M
    BY <2>1, Magnitudes
  <2> QED  BY <2>1, <2>2, <1>4 DEF End
<1>6. TiledBy({0})
  <2>1. Tiles(mem, M, {0})
    <3>1. {0} \subseteq 0..(M - 1)
      BY <1>1
    <3> HIDE DEF M
    <3> QED  BY <1>1, <1>4, <1>5, <3>1 DEF Tiles
  <2>2. Serves(mem, {0}, live)
    <3>1. DOMAIN live = {}
      BY <1>1
    <3>2. ~(mem[0].size < 0)
      BY <1>1, <1>4
    <3> QED  BY <3>1, <3>2 DEF Serves, Placed
  <2>3. M % HeaderSize = 0 => Mirrored(mem, 0)
    <3> HIDE DEF M
    <3> QED  BY <1>4, <1>5 DEF Mirrored
  <2> QED  BY <2>1, <2>2, <2>3, <1>1 DEF TiledBy
<1>7. FailsOnlyWhenFull
  BY <1>1 DEF FailsOnlyWhenFull
<1> QED  BY <1>2, <1>3, <1>6, <1>7 DEF AllocInv

(* A step of the client that frees a block. *)
LEMMA FreeKeepsInv ==
    ASSUME AllocInv, NEW id \in DOMAIN live, Free(id)
    PROVE  AllocInv'
<1>1. PICK S : TiledBy(S)
  BY DEF AllocInv
<1>2. /\ Tiles(mem, MEMORY_SIZE, S) /\ Serves(mem, S, live)
      /\ MEMORY_SIZE \in Nat
  BY <1>1 DEF TiledBy, AllocInv, AllocTypeOK
<1>3. /\ mem' = myfree(live[id].at)
      /\ live' = [i \in DOMAIN live \ {id} |-> live[i]]
      /\ used_memory' = used_memory - live[id].size
      /\ MEMORY_SIZE' = MEMORY_SIZE /\ wanted' = wanted /\ failed' = failed
      /\ ~failed
  BY DEF Free
<1>4. PICK T : /\ Tiles(mem', MEMORY_SIZE, T) /\ Serves(mem', T, live')
               /\ \A k \in T : Mirrored(mem', k)
  BY <1>2, <1>3, FreeServes
<1>5. TiledBy(T)'
  BY <1>3, <1>4 DEF TiledBy, Mirrored, HeaderAt, End
<1>6. UsedIsCounted'
  <2>1. IsFiniteSet(CellsInUse(live)) /\ used_memory = Cardinality(CellsInUse(live))
    BY DEF AllocInv, UsedIsCounted
  <2>2. /\ DOMAIN live' = DOMAIN live \ {id}
        /\ \A i \in DOMAIN live' : live'[i] = live[i]
    BY <1>3
  <2>3. CellsInUse(live') \subseteq CellsInUse(live)
    BY <2>2 DEF CellsInUse
  <2>4. IsFiniteSet(CellsInUse(live'))
    BY <2>1, <2>3, FS_Subset
  <2>5. Placed(mem, S, live) /\ live[id].size \in Nat
    BY <1>2 DEF Serves, Placed
  <2>6. Cardinality(CellsInUse(live)) = Cardinality(CellsInUse(live')) + live[id].size
    BY <2>2, <2>4, <2>5, CellsOfOneMore
  <2>7. Cardinality(CellsInUse(live')) \in Nat
    BY <2>4, FS_CardinalityType
  <2> QED  BY <2>1, <2>4, <2>5, <2>6, <2>7, <1>3 DEF UsedIsCounted
<1>7. AllocTypeOK'
  <2>1. live[id].size \in Nat
    BY <1>2 DEF Serves, Placed
  <2> QED  BY <2>1, <1>3 DEF AllocInv, AllocTypeOK
<1>8. FailsOnlyWhenFull'
  BY <1>3 DEF FailsOnlyWhenFull
<1> QED  BY <1>5, <1>6, <1>7, <1>8 DEF AllocInv

(* What the allocation of a free block and filling it with data do. *)
LEMMA TakenIsFilled ==
    ASSUME NEW M \in Nat, NEW m, NEW S, Tiles(m, M, S), NEW h \in S,
           NEW n \in Nat \ {0}, n + 8 <= m[h].size, NEW id \in Int
    PROVE  FilledWith(m, fill_data(Taken(m, h), [at |-> h + HeaderSize, size |-> n], id),
                      M, h, n, id)
<1> DEFINE s == m[h].size
           b == [at |-> h + HeaderSize, size |-> n]
           t1 == Put(m, h, -s)
           t == Taken(m, h)
           w == fill_data(t, b, id)
           f == End(m, h) - HeaderSize
           D == 0..(M - 1)
<1>1. /\ m \in [D -> Byte] /\ h \in D /\ h \in Int /\ s \in Int
      /\ End(m, h) = h + s /\ h + s <= M
  <2>1. m \in [D -> Byte]
    BY DEF Tiles
  <2>2. h \in D /\ m[h].size \in Int /\ End(m, h) <= M
    BY BlockPlace
  <2>3. m[h].size > 0 => End(m, h) = h + m[h].size
    BY BlockPlace
  <2> QED  BY <2>1, <2>2, <2>3
<1>2. t = Put(t1, f, -s) /\ f \in Int /\ h + 4 + n <= f /\ f + 4 = h + s
  <2>1. h + s - HeaderSize = f
    BY <1>1
  <2> QED  BY <2>1, <1>1 DEF Taken
<1> HIDE DEF s, f
<1>3. /\ t1 \in [D -> Byte] /\ HeaderAt(t1, h, -s)
      /\ \A c \in D : c < h \/ h + 4 <= c => t1[c] = m[c]
  <2>1. -s \in Int /\ 0 <= h /\ h + 4 <= M
    BY <1>1, <1>2
  <2> QED  BY <2>1, <1>1, PutStores
<1> HIDE DEF t1, t
<1>4. /\ t \in [D -> Byte] /\ HeaderAt(t, f, -s) /\ HeaderAt(t, h, -s)
      /\ \A c \in D : c < f \/ f + 4 <= c => t[c] = t1[c]
  <2>1. -s \in Int /\ 0 <= h /\ h + 4 <= M /\ 0 <= f /\ f + 4 <= M /\ h + 4 <= f
    BY <1>1, <1>2
  <2>2. /\ t \in [D -> Byte] /\ HeaderAt(t, f, -s)
        /\ \A c \in D : c < f \/ f + 4 <= c => t[c] = t1[c]
    BY <2>1, <1>2, <1>3, PutStores
  <2>3. HeaderAt(t, h, -s)
    BY <2>1, <1>1, <1>2, <1>3, PutElsewhere
  <2> QED  BY <2>2, <2>3
<1>5. w = [a \in D |-> IF a \in (h + 4)..(h + 3 + n) THEN Data(id) ELSE t[a]]
  <2>1. h + 4 + n - 1 = h + 3 + n /\ DOMAIN t = D
    BY <1>1, <1>4
  <2> QED  BY <2>1 DEF fill_data
<1> HIDE DEF w
<1>6. w \in [D -> Byte]
  <2>1. Data(id) \in Byte
    BY DEF Data, Byte
  <2> QED  BY <2>1, <1>4, <1>5
<1>7. \A a \in (h + HeaderSize)..(h + 3 + n) : w[a] = Data(id)
  <2>1. \A a \in (h + 4)..(h + 3 + n) : a \in D
    BY <1>1, <1>2
  <2> QED  BY <2>1, <1>5
<1>8. \A a \in D : a < h + 4 \/ h + 4 + n <= a => w[a] = t[a]
  BY <1>1, <1>5
<1>9. HeaderAt(w, h, -s)
  <2>1. ASSUME NEW c \in h..(h + 3) PROVE w[c] = t[c]
    <3>1. c \in D /\ c < h + 4
      BY <1>1, <1>2
    <3> QED  BY <3>1, <1>8
  <2> QED  BY <2>1, <1>1, <1>4, HeaderStays
<1>10. HeaderAt(w, f, -s)
  <2>1. ASSUME NEW c \in f..(f + 3) PROVE w[c] = t[c]
    <3>1. c \in D /\ h + 4 + n <= c
      BY <1>1, <1>2
    <3> QED  BY <3>1, <1>8
  <2> QED  BY <2>1, <1>2, <1>4, HeaderStays
<1>11. ASSUME NEW a \in D, a < h \/ End(m, h) <= a PROVE w[a] = m[a]
  <2>1. w[a] = t[a]
    BY <1>1, <1>2, <1>8, <1>11
  <2>2. t[a] = t1[a]
    BY <1>1, <1>2, <1>4, <1>11
  <2>3. t1[a] = m[a]
    BY <1>1, <1>2, <1>3, <1>11
  <2> QED  BY <2>1, <2>2, <2>3
<1>12. FilledWith(m, w, M, h, n, id)
  BY <1>6, <1>7, <1>9, <1>10, <1>11 DEF FilledWith, s, f
<1> QED  BY <1>12 DEF w, t

(* What a successful allocation leaves. *)
LEMMA AllocateServes ==
    ASSUME AllocInv, Allocate, FirstFit(wanted) # NoBlock
    PROVE  \E id, T, at :
              /\ id \in Id \ DOMAIN live
              /\ live' = [i \in DOMAIN live \cup {id} |->
                            IF i = id THEN [at |-> at, size |-> wanted] ELSE live[i]]
              /\ Tiles(mem', MEMORY_SIZE, T) /\ Serves(mem', T, live')
              /\ \A k \in T : Mirrored(mem', k)
<1> DEFINE h == FirstFit(wanted)
           id == Min(Id \ DOMAIN live)
           block == [at |-> h + HeaderSize, size |-> wanted]
           m == Split(mem, h, wanted)
<1>1. PICK S : TiledBy(S)
  BY DEF AllocInv
<1>2. /\ Tiles(mem, MEMORY_SIZE, S) /\ Serves(mem, S, live) /\ Placed(mem, S, live)
      /\ MEMORY_SIZE \in Nat /\ wanted \in Nat \ {0}
  BY <1>1 DEF TiledBy, AllocInv, AllocTypeOK, Serves
<1>3. /\ mem' = fill_data(Taken(m, h), block, id)
      /\ live' = [i \in DOMAIN live \cup {id} |-> IF i = id THEN block ELSE live[i]]
      /\ used_memory + wanted <= MaxUsed
  BY DEF Allocate
<1>4. h \in S /\ wanted + 8 <= mem[h].size
  BY <1>2, FirstFitIs
<1> HIDE DEF h
<1>5. id \in Id \ DOMAIN live
  <2>1. /\ IsFiniteSet(CellsInUse(live)) /\ used_memory = Cardinality(CellsInUse(live))
    BY DEF AllocInv, UsedIsCounted
  <2>2. Cardinality(CellsInUse(live)) \in Nat
    BY <2>1, FS_CardinalityType
  <2>3. Cardinality(CellsInUse(live)) < MaxUsed
    BY <2>1, <2>2, <1>2, <1>3, AllocAssumption
  <2> QED  BY <2>1, <2>3, <1>2, NameLeft
<1>6. PICK T : SplitInv(mem, S, MEMORY_SIZE, h, wanted, m, T)
  BY <1>2, <1>4, SplitIsDone
<1> HIDE DEF id, m
<1>7. Tiles(m, MEMORY_SIZE, T) /\ h \in T /\ wanted + 8 <= m[h].size
  BY <1>6 DEF SplitInv
<1>8. Serves(m, T, live)
  <2> DEFINE e == End(mem, h)
  <2>1. /\ h \in Int /\ e \in S \cup {MEMORY_SIZE} /\ e \in Int /\ h < e
        /\ mem[h].size > 0
    <3>1. /\ h \in 0..(MEMORY_SIZE - 1) /\ e \in S \cup {MEMORY_SIZE} /\ e \in Int
          /\ h + 8 <= e /\ mem[h].size \in Int
      BY <1>2, <1>4, BlockPlace
    <3> QED  BY <3>1, <1>2, <1>4
  <2>2. /\ \A a \in 0..(MEMORY_SIZE - 1) : a < h \/ e <= a => m[a] = mem[a]
        /\ \A k \in 0..(MEMORY_SIZE - 1) : k < h \/ e <= k => (k \in T <=> k \in S)
        /\ \A k \in T : h <= k /\ k < e => m[k].size > 0
    BY <1>6 DEF SplitInv
  <2>3. ASSUME NEW i \in DOMAIN live
        PROVE  live[i].at - HeaderSize < h \/ e <= live[i].at - HeaderSize
    <3> DEFINE k == live[i].at - HeaderSize
    <3>1. k \in S /\ mem[k].size < 0
      BY <1>2 DEF Placed
    <3> HIDE DEF k
    <3>2. k \in Int /\ k # h
      BY <3>1, <2>1, <1>2, BlockPlace
    <3>3. h < k => e <= k
      BY <3>1, <1>2, <1>4, BlockPlace
    <3>4. k < h \/ e <= k
      BY <3>2, <3>3, <2>1
    <3> QED  BY <3>4 DEF k
  <2> HIDE DEF e
  <2>4. Keeping(live, live, h, e)
    BY <2>3 DEF Keeping
  <2>5. Changes(mem, m, MEMORY_SIZE, S, T, h, e)
    BY <2>1, <2>2, <1>4 DEF Changes
  <2> QED  BY <2>2, <2>4, <2>5, <1>2, <1>7, ServesElsewhere
<1>9. FilledWith(m, mem', MEMORY_SIZE, h, wanted, id)
  <2>1. id \in Int
    BY <1>5, AllocAssumption DEF Id
  <2> QED  BY <2>1, <1>2, <1>3, <1>7, TakenIsFilled
<1>10. /\ Tiles(mem', MEMORY_SIZE, T) /\ Serves(mem', T, live')
       /\ \A k \in T : Mirrored(mem', k)
  BY <1>2, <1>3, <1>5, <1>7, <1>8, <1>9, FilledServes
<1> QED  BY <1>3, <1>5, <1>10

(* A step of the client that asks for a block. *)
LEMMA AllocateKeepsInv ==
    ASSUME AllocInv, Allocate
    PROVE  AllocInv'
<1>1. PICK S : TiledBy(S)
  BY DEF AllocInv
<1>2. /\ Tiles(mem, MEMORY_SIZE, S) /\ Serves(mem, S, live)
      /\ MEMORY_SIZE \in Nat /\ wanted \in Nat \ {0}
      /\ MEMORY_SIZE' = MEMORY_SIZE /\ failed = FALSE
  BY <1>1 DEF TiledBy, AllocInv, AllocTypeOK, Allocate
<1>3. CASE FirstFit(wanted) = NoBlock
  <2>1. /\ failed' = TRUE /\ mem' = mem /\ live' = live
        /\ used_memory' = used_memory /\ wanted' = wanted
    BY <1>3 DEF Allocate
  <2>2. \A h \in S : mem[h].size < wanted + 8
    BY <1>2, <1>3, FirstFitIs
  <2>3. Tiles(mem', MEMORY_SIZE', S)
    BY <2>1, <1>2
  <2>4. Headers' = S \cup {MEMORY_SIZE'} /\ MEMORY_SIZE' \notin S
    <3>1. Headers = S \cup {MEMORY_SIZE} /\ MEMORY_SIZE \notin S
      BY <1>2, HeadersAreTiles
    <3>2. Headers' = Headers
      BY <2>1, <1>2 DEF Headers
    <3> QED  BY <3>1, <3>2, <1>2
  <2>5. FailsOnlyWhenFull'
    BY <2>1, <2>2, <2>4 DEF FailsOnlyWhenFull
  <2>6. AllocTypeOK' /\ UsedIsCounted'
    <3>1. AllocTypeOK /\ UsedIsCounted
      BY DEF AllocInv
    <3>2. failed' \in BOOLEAN
      BY <2>1, Zenon
    <3> QED  BY <2>1, <1>2, <3>1, <3>2 DEF AllocTypeOK, UsedIsCounted
  <2>7. TiledBy(S)'
    <3>1. init_myalloc' = init_myalloc
      BY <1>2 DEF init_myalloc
    <3> QED  BY <2>1, <3>1, <1>1, <1>2 DEF TiledBy, Mirrored, HeaderAt, End
  <2> QED  BY <2>5, <2>6, <2>7 DEF AllocInv
<1>4. CASE FirstFit(wanted) # NoBlock
  <2>1. /\ failed' = failed /\ wanted' \in BlockSizes
        /\ used_memory' = used_memory + wanted
    BY <1>4 DEF Allocate
  <2>2. PICK id, T, at :
              /\ id \in Id \ DOMAIN live
              /\ live' = [i \in DOMAIN live \cup {id} |->
                            IF i = id THEN [at |-> at, size |-> wanted] ELSE live[i]]
              /\ Tiles(mem', MEMORY_SIZE, T) /\ Serves(mem', T, live')
              /\ \A k \in T : Mirrored(mem', k)
    BY <1>4, AllocateServes
  <2>3. TiledBy(T)'
    BY <2>2, <1>2 DEF TiledBy, Mirrored, HeaderAt, End
  <2>4. FailsOnlyWhenFull'
    BY <2>1, <1>2 DEF FailsOnlyWhenFull
  <2>5. UsedIsCounted'
    <3>1. IsFiniteSet(CellsInUse(live)) /\ used_memory = Cardinality(CellsInUse(live))
      BY DEF AllocInv, UsedIsCounted
    <3>2. /\ id \in DOMAIN live' /\ DOMAIN live = DOMAIN live' \ {id}
          /\ \A i \in DOMAIN live : live[i] = live'[i]
          /\ live'[id].size = wanted
      BY <2>2
    <3>3. Placed(mem', T, live')
      BY <2>2 DEF Serves
    <3>4. /\ IsFiniteSet(CellsInUse(live'))
          /\ Cardinality(CellsInUse(live')) =
                Cardinality(CellsInUse(live)) + live'[id].size
      BY <3>1, <3>2, <3>3, CellsOfOneMore
    <3>5. used_memory' = Cardinality(CellsInUse(live'))
      BY <3>1, <3>2, <3>4, <2>1
    <3> QED  BY <3>4, <3>5 DEF UsedIsCounted
  <2>6. AllocTypeOK'
    <3>1. used_memory \in Int
      BY DEF AllocInv, AllocTypeOK
    <3>2. wanted' \in Nat \ {0} /\ used_memory' \in Int
      BY <2>1, <3>1, <1>2, BlockSizesArePositive
    <3>3. failed' \in BOOLEAN
      BY <2>1, <1>2, Zenon
    <3> QED  BY <1>2, <3>2, <3>3 DEF AllocInv, AllocTypeOK
  <2> QED  BY <2>3, <2>4, <2>5, <2>6 DEF AllocInv
<1> QED  BY <1>3, <1>4

(* Every step keeps the invariant. *)
LEMMA AllocInvStep == AllocInv /\ [AllocNext]_allocVars => AllocInv'
<1>1. ASSUME AllocInv, Allocate PROVE AllocInv'
  BY <1>1, AllocateKeepsInv
<1>2. ASSUME AllocInv, NEW id \in DOMAIN live, Free(id) PROVE AllocInv'
  BY <1>2, FreeKeepsInv
<1>3. ASSUME AllocInv, UNCHANGED allocVars PROVE AllocInv'
  <2>1. /\ MEMORY_SIZE' = MEMORY_SIZE /\ mem' = mem /\ live' = live
        /\ used_memory' = used_memory /\ wanted' = wanted /\ failed' = failed
    BY <1>3 DEF allocVars
  <2>2. AllocTypeOK' /\ UsedIsCounted'
    <3>1. AllocTypeOK /\ UsedIsCounted
      BY <1>3 DEF AllocInv
    <3> QED  BY <2>1, <3>1 DEF AllocTypeOK, UsedIsCounted
  <2>3. FailsOnlyWhenFull'
    <3>1. Headers' = Headers
      BY <2>1 DEF Headers
    <3>2. FailsOnlyWhenFull
      BY <1>3 DEF AllocInv
    <3> QED  BY <2>1, <3>1, <3>2 DEF FailsOnlyWhenFull
  <2>4. PICK S : TiledBy(S)
    BY <1>3 DEF AllocInv
  <2>5. TiledBy(S)'
    <3>1. init_myalloc' = init_myalloc
      BY <2>1 DEF init_myalloc
    <3> QED  BY <2>1, <2>4, <3>1 DEF TiledBy, Mirrored, HeaderAt, End
  <2> QED  BY <2>2, <2>3, <2>5 DEF AllocInv
<1> QED  BY <1>1, <1>2, <1>3 DEF AllocNext

(* What the invariant says of the pool and of the client's blocks. *)
LEMMA AllocInvKeeps == AllocInv => AllocatorKeepsBlocks
<1> SUFFICES ASSUME AllocInv PROVE AllocatorKeepsBlocks
  OBVIOUS
<1>1. PICK S : TiledBy(S)
  BY DEF AllocInv
<1>2. /\ Tiles(mem, MEMORY_SIZE, S) /\ Serves(mem, S, live) /\ Placed(mem, S, live)
      /\ MEMORY_SIZE \in Nat
  BY <1>1 DEF TiledBy, AllocInv, AllocTypeOK, Serves
<1>3. Headers \ {MEMORY_SIZE} = S /\ MEMORY_SIZE \in Headers
  BY <1>2, HeadersAreTiles
<1>4. ASSUME NEW h \in S
      PROVE  /\ HeaderAt(mem, h, mem[h].size)
             /\ Mirrored(mem, h) =>
                   HeaderAt(mem, h + Magnitude(mem[h].size) - HeaderSize, mem[h].size)
  <2>1. /\ HeaderAt(mem, h, mem[h].size) /\ h \in Int /\ End(mem, h) \in Int
        /\ Magnitude(mem[h].size) = End(mem, h) - h
    BY <1>2, BlockPlace
  <2>2. h + Magnitude(mem[h].size) - HeaderSize = End(mem, h) - HeaderSize
    BY <2>1
  <2> QED  BY <2>1, <2>2 DEF Mirrored
<1>5. {h \in S : mem[h].size < 0} = {live[id].at - HeaderSize : id \in DOMAIN live}
  <2>1. \A id \in DOMAIN live : live[id].at - HeaderSize \in S /\ mem[live[id].at - HeaderSize].size < 0
    BY <1>2 DEF Placed
  <2>2. \A h \in S : mem[h].size < 0 => \E i \in DOMAIN live : live[i].at - HeaderSize = h
    BY <1>2 DEF Serves
  <2> QED  BY <2>1, <2>2
<1>6. \A id \in DOMAIN live : live[id].size + 8 <= -mem[live[id].at - HeaderSize].size
  BY <1>2 DEF Placed
<1>7. BlocksTilePool
  <2>1. \/ MEMORY_SIZE % HeaderSize # 0 /\ mem = init_myalloc
        \/ \A h \in S : HeaderAt(mem, h + Magnitude(mem[h].size) - HeaderSize, mem[h].size)
    BY <1>1, <1>4 DEF TiledBy
  <2> QED  BY <2>1, <1>3, <1>4, <1>5, <1>6 DEF BlocksTilePool
<1>8. DataIntact
  BY <1>2 DEF DataIntact, Placed, BlockCells
<1>9. FailsOnlyWhenFull
  BY DEF AllocInv
<1> QED  BY <1>7, <1>8, <1>9 DEF AllocatorKeepsBlocks

(* myalloc.c: whatever the client allocates and frees, the blocks tile the     *)
(* pool, the client finds in its blocks what it put there, and a request fails *)
(* only when no free block has room for it.                                    *)
THEOREM AllocatorIsCorrect == AllocSpec => []AllocatorKeepsBlocks
<1>1. AllocInit => AllocInv
  BY AllocInvInit
<1>2. AllocInv /\ [AllocNext]_allocVars => AllocInv'
  BY AllocInvStep
<1>3. AllocInv => AllocatorKeepsBlocks
  BY AllocInvKeeps
<1> QED  BY <1>1, <1>2, <1>3, PTL DEF AllocSpec

-----------------------------------------------------------------------------
(* The abstract pool. *)

(* The allocator starts as the abstract pool does. *)
LEMMA PoolInitially == AllocInit => ThePool!PoolInit
<1> SUFFICES ASSUME AllocInit PROVE ThePool!PoolInit
  OBVIOUS
<1>1. MEMORY_SIZE \in Nat /\ live = << >>
  BY AllocAssumption DEF AllocInit
<1>2. DOMAIN live = {}
  BY <1>1
<1> QED  BY <1>1, <1>2 DEF ThePool!PoolInit

(* A successful allocation hands out cells of the pool that no other block has. *)
LEMMA AllocateIsMalloc ==
    ASSUME AllocInv, Allocate, FirstFit(wanted) # NoBlock
    PROVE  \E id \in Id : ThePool!Malloc(id)
<1>1. PICK id, T, at :
              /\ id \in Id \ DOMAIN live
              /\ live' = [i \in DOMAIN live \cup {id} |->
                            IF i = id THEN [at |-> at, size |-> wanted] ELSE live[i]]
              /\ Tiles(mem', MEMORY_SIZE, T) /\ Serves(mem', T, live')
  BY AllocateServes
<1>2. /\ DOMAIN live' = DOMAIN live \cup {id}
      /\ \A i \in DOMAIN live : live'[i] = live[i]
      /\ MEMORY_SIZE' = MEMORY_SIZE /\ MEMORY_SIZE \in Nat
  BY <1>1 DEF Allocate, AllocInv, AllocTypeOK
<1>3. Placed(mem', T, live')
  BY <1>1 DEF Serves
<1>4. \A b : ThePool!Cells(b) = BlockCells(b)
  BY DEF ThePool!Cells, BlockCells
<1>5. ASSUME NEW i \in DOMAIN live
      PROVE  ThePool!Cells(live[i]) \cap ThePool!Cells(live'[id]) = {}
  <2>1. live[i] = live'[i] /\ i \in DOMAIN live' /\ id \in DOMAIN live' /\ i # id
    BY <1>1, <1>2
  <2>2. /\ \A a \in BlockCells(live'[i]) : (mem')[a] = Data(i)
        /\ \A a \in BlockCells(live'[id]) : (mem')[a] = Data(id)
    BY <1>3, <2>1 DEF Placed
  <2>3. BlockCells(live[i]) \cap BlockCells(live'[id]) = {}
    BY <2>1, <2>2, DataNames
  <2> QED  BY <2>3, <1>4
<1>6. ThePool!Cells(live'[id]) \subseteq 0..(MEMORY_SIZE - 1)
  <2> DEFINE w == mem'
             new == live'
             h == new[id].at - HeaderSize
  <2>1. id \in DOMAIN new /\ Tiles(w, MEMORY_SIZE, T) /\ Placed(w, T, new)
    BY <1>1, <1>2, <1>3
  <2> HIDE DEF w, new
  <2>2. /\ h \in 0..(MEMORY_SIZE - 1) /\ End(w, h) <= MEMORY_SIZE
        /\ w[h].size < 0 /\ End(w, h) = h - w[h].size /\ h \in T
        /\ \A a \in BlockCells(new[id]) : a \in Int /\ h < a /\ a < End(w, h)
    BY <2>1, <1>2, ClientPlace
  <2>3. End(w, h) \in Int
    <3> HIDE DEF h
    <3> QED  BY <2>1, <2>2, <1>2, BlockPlace
  <2> HIDE DEF h
  <2>4. BlockCells(new[id]) \subseteq 0..(MEMORY_SIZE - 1)
    BY <2>2, <2>3, <1>2
  <2> QED  BY <2>4, <1>4 DEF new
<1>7. ThePool!Malloc(id)
  BY <1>1, <1>2, <1>5, <1>6 DEF ThePool!Malloc
<1> QED  BY <1>1, <1>7

(* Every step of the allocator is one of the pool, or none of it. *)
LEMMA AllocStepIsPoolStep ==
    AllocInv /\ [AllocNext]_allocVars => [ThePool!PoolNext]_(ThePool!poolVars)
<1>1. ASSUME AllocInv, Allocate PROVE [ThePool!PoolNext]_(ThePool!poolVars)
  <2>1. CASE FirstFit(wanted) = NoBlock
    <3>1. live' = live /\ MEMORY_SIZE' = MEMORY_SIZE
      BY <1>1, <2>1 DEF Allocate
    <3> QED  BY <3>1 DEF ThePool!poolVars
  <2>2. CASE FirstFit(wanted) # NoBlock
    <3>1. \E id \in Id : ThePool!Malloc(id)
      BY <1>1, <2>2, AllocateIsMalloc
    <3> QED  BY <3>1 DEF ThePool!PoolNext
  <2> QED  BY <2>1, <2>2
<1>2. ASSUME AllocInv, NEW id \in DOMAIN live, Free(id)
      PROVE  [ThePool!PoolNext]_(ThePool!poolVars)
  <2>1. id \in Id
    <3>1. PICK S : TiledBy(S)
      BY <1>2 DEF AllocInv
    <3> QED  BY <3>1 DEF TiledBy, Serves, Placed
  <2>2. ThePool!Free(id)
    BY <1>2 DEF Free, ThePool!Free
  <2> QED  BY <2>1, <2>2 DEF ThePool!PoolNext
<1>3. ASSUME UNCHANGED allocVars PROVE [ThePool!PoolNext]_(ThePool!poolVars)
  BY <1>3 DEF allocVars, ThePool!poolVars
<1> QED  BY <1>1, <1>2, <1>3 DEF AllocNext

(* myalloc.c implements the abstract pool: every block it hands out lies in    *)
(* the pool and shares no cell with a block in use, and only free gives one    *)
(* back.                                                                       *)
THEOREM AllocatorIsAPool == AllocSpec => AllocatorImplementsPool
<1>1. AllocInit => AllocInv /\ ThePool!PoolInit
  BY AllocInvInit, PoolInitially
<1>2. AllocInv /\ [AllocNext]_allocVars => AllocInv'
  BY AllocInvStep
<1>3. AllocInv /\ [AllocNext]_allocVars => [ThePool!PoolNext]_(ThePool!poolVars)
  BY AllocStepIsPoolStep
<1> QED  BY <1>1, <1>2, <1>3, PTL
         DEF AllocSpec, AllocatorImplementsPool, ThePool!PoolSpec

HIDE DEF HeaderSize

-----------------------------------------------------------------------------
(****************************************************************************)
(* The multimap.                                                            *)
(****************************************************************************)

Node == [key : Int, values : Seq(Value), left_child : Nat, right_child : Nat]

(* Nodes numbered in order of allocation: a child comes after its parent. *)
IsTree(ns) ==
    /\ ns \in Seq(Node)
    /\ \A n \in 1..Len(ns) :
          /\ ns[n].left_child # NoNode => ns[n].left_child \in (n + 1)..Len(ns)
          /\ ns[n].right_child # NoNode => ns[n].right_child \in (n + 1)..Len(ns)

(* A child of a node comes after it in the order of creation. *)
LEMMA TreeNodes ==
    ASSUME NEW ns, IsTree(ns), NEW key, NEW n \in 1..Len(ns)
    PROVE  /\ Len(ns) \in Nat /\ n \in Nat /\ ns[n] \in Node
           /\ Child(ns[n], key) # NoNode => Child(ns[n], key) \in (n + 1)..Len(ns)
<1>1. Len(ns) \in Nat /\ ns[n] \in Node
  BY LenProperties, ElementOfSeq DEF IsTree
<1>2. Child(ns[n], key) # NoNode => Child(ns[n], key) \in (n + 1)..Len(ns)
  BY DEF Child, IsTree
<1> QED  BY <1>1, <1>2

-----------------------------------------------------------------------------
(* The search of find_mm_node, from every node on. *)

Search(ns, key) ==
    LET descend[n \in 1..Len(ns)] ==
            LET child == Child(ns[n], key)
            IN  IF ns[n].key = key \/ child = NoNode THEN n ELSE descend[child]
    IN  descend

(* Where the search ends. *)
Ends(ns, key) == {n \in 1..Len(ns) : ns[n].key = key \/ Child(ns[n], key) = NoNode}

(* The search for a key ends, since it moves on to later nodes. *)
LEMMA SearchIsLoop ==
    ASSUME NEW ns, IsTree(ns), NEW key
    PROVE  \E measure :
              /\ Falls(measure, 1..Len(ns), Ends(ns, key),
                       [n \in 1..Len(ns) |-> Child(ns[n], key)])
              /\ IsLoop(Search(ns, key), 1..Len(ns), Ends(ns, key),
                        [n \in 1..Len(ns) |-> n],
                        [n \in 1..Len(ns) |-> Child(ns[n], key)])
<1> DEFINE S == 1..Len(ns)
           stop == Ends(ns, key)
           res == [n \in S |-> n]
           next == [n \in S |-> Child(ns[n], key)]
           measure == [n \in S |-> Len(ns) - n]
<1>1. Falls(measure, S, stop, next)
  <2>1. measure \in [S -> Nat]
    <3>1. Len(ns) \in Nat
      BY LenProperties DEF IsTree
    <3> QED  BY <3>1
  <2>2. ASSUME NEW n \in S \ stop
        PROVE  next[n] \in S /\ measure[next[n]] < measure[n]
    <3>1. next[n] # NoNode /\ next[n] = Child(ns[n], key)
      BY <2>2 DEF Ends
    <3>2. Len(ns) \in Nat /\ n \in Nat /\ next[n] \in (n + 1)..Len(ns)
      BY <3>1, TreeNodes
    <3> HIDE DEF next
    <3> QED  BY <3>2
  <2> QED  BY <2>1, <2>2 DEF Falls
<1>2. IsLoop(Search(ns, key), S, stop, res, next)
  <2> DEFINE Is(g) == g = [n \in S |-> LET child == Child(ns[n], key)
                                       IN  IF ns[n].key = key \/ child = NoNode
                                           THEN n ELSE g[child]]
  <2>1. ASSUME NEW g PROVE Is(g) <=> IsLoop(g, S, stop, res, next)
    <3>1. \A n \in S : n \in stop <=> ns[n].key = key \/ Child(ns[n], key) = NoNode
      BY DEF Ends
    <3> HIDE DEF stop
    <3> QED  BY <3>1 DEF IsLoop
  <2>2. \E g : IsLoop(g, S, stop, res, next)
    <3> HIDE DEF S, stop, res, next, measure
    <3> QED  BY <1>1, LoopDefined
  <2>3. \E g : Is(g)
    BY <2>1, <2>2
  <2>4. Search(ns, key) = CHOOSE g : Is(g)
    BY DEF Search
  <2>5. Is(Search(ns, key))
    <3> HIDE DEF Is
    <3> QED  BY <2>3, <2>4
  <2> HIDE DEF Is
  <2> QED  BY <2>1, <2>5
<1> QED  BY <1>1, <1>2

(* One round of the search. *)
LEMMA SearchRound ==
    ASSUME NEW ns, IsTree(ns), NEW key, NEW n \in 1..Len(ns)
    PROVE  /\ n \in Ends(ns, key) => Search(ns, key)[n] = n
           /\ n \notin Ends(ns, key) =>
                 /\ Child(ns[n], key) \in 1..Len(ns)
                 /\ Search(ns, key)[n] = Search(ns, key)[Child(ns[n], key)]
<1>1. IsLoop(Search(ns, key), 1..Len(ns), Ends(ns, key), [k \in 1..Len(ns) |-> k],
             [k \in 1..Len(ns) |-> Child(ns[k], key)])
  BY SearchIsLoop
<1>2. Search(ns, key)[n] = IF n \in Ends(ns, key) THEN n
                           ELSE Search(ns, key)[Child(ns[n], key)]
  BY <1>1 DEF IsLoop
<1>3. n \notin Ends(ns, key) => Child(ns[n], key) \in 1..Len(ns)
  <2>1. n \notin Ends(ns, key) => Child(ns[n], key) # NoNode
    BY DEF Ends
  <2>2. Child(ns[n], key) # NoNode => Child(ns[n], key) \in (n + 1)..Len(ns)
    BY TreeNodes
  <2>3. Len(ns) \in Nat /\ n \in Nat
    BY TreeNodes
  <2> QED  BY <2>1, <2>2, <2>3
<1> QED  BY <1>2, <1>3

(* Every round keeps the node in inv, and where the search ends it is in good. *)
SearchKeeps(ns, key, inv, good) ==
    /\ inv \subseteq 1..Len(ns)
    /\ \A n \in inv \ Ends(ns, key) : Child(ns[n], key) \in inv
    /\ \A n \in inv \cap Ends(ns, key) : n \in good

(* What every round keeps tells of the node that the search finds. *)
LEMMA SearchRule ==
    ASSUME NEW ns, IsTree(ns), NEW key, NEW inv, NEW good,
           SearchKeeps(ns, key, inv, good)
    PROVE  \A n \in inv : Search(ns, key)[n] \in good
<1> DEFINE S == 1..Len(ns)
           stop == Ends(ns, key)
           res == [n \in S |-> n]
           next == [n \in S |-> Child(ns[n], key)]
<1>1. PICK measure : /\ Falls(measure, S, stop, next)
                     /\ IsLoop(Search(ns, key), S, stop, res, next)
  BY SearchIsLoop
<1>2. Keeps(inv, good, S, stop, res, next)
  <2>1. \A n \in inv : res[n] = n /\ next[n] = Child(ns[n], key)
    BY DEF SearchKeeps
  <2> QED  BY <2>1 DEF Keeps, SearchKeeps
<1> HIDE DEF S, stop, res, next
<1> QED  BY <1>1, <1>2, LoopRule

(* The search ends where it can. *)
LEMMA SearchEnds ==
    ASSUME NEW ns, IsTree(ns), NEW key, NEW n \in 1..Len(ns)
    PROVE  Search(ns, key)[n] \in Ends(ns, key)
<1>1. \A k \in (1..Len(ns)) \ Ends(ns, key) : Child(ns[k], key) \in 1..Len(ns)
  BY SearchRound
<1>2. SearchKeeps(ns, key, 1..Len(ns), Ends(ns, key))
  BY <1>1 DEF SearchKeeps
<1> QED  BY <1>2, SearchRule

-----------------------------------------------------------------------------
(* A tree that grew from another finds what the other found. *)

(* ws has the nodes of ns with their keys, and with their children, but for    *)
(* those that were missing.                                                    *)
Grew(ns, ws) ==
    /\ Len(ns) <= Len(ws)
    /\ \A n \in 1..Len(ns) : /\ ws[n].key = ns[n].key
                             /\ ns[n].left_child # NoNode =>
                                    ws[n].left_child = ns[n].left_child
                             /\ ns[n].right_child # NoNode =>
                                    ws[n].right_child = ns[n].right_child

(* A new node replaces nobody's child. *)
LEMMA GrewChild ==
    ASSUME NEW ns, NEW ws, Grew(ns, ws), NEW n \in 1..Len(ns), NEW key,
           Child(ns[n], key) # NoNode
    PROVE  Child(ws[n], key) = Child(ns[n], key)
BY DEF Grew, Child

(* A search that found its node still does after a node is added. *)
LEMMA StillFound ==
    ASSUME NEW ns, IsTree(ns), NEW ws, IsTree(ws), Grew(ns, ws),
           NEW x \in 1..Len(ns), NEW n \in 1..Len(ns),
           Search(ns, ns[x].key)[n] = x
    PROVE  Search(ws, ns[x].key)[n] = x
<1> DEFINE key == ns[x].key
           inv == {a \in 1..Len(ns) : Search(ns, key)[a] = x}
<1>1. inv \in SUBSET (1..Len(ws))
  BY LenProperties DEF Grew, IsTree
<1>2. ASSUME NEW a \in inv \ Ends(ws, key) PROVE Child(ws[a], key) \in inv
  <2>1. a \in 1..Len(ns) /\ Search(ns, key)[a] = x /\ a \in 1..Len(ws)
    BY <1>1, <1>2
  <2>2. ws[a].key = ns[a].key /\ ws[a].key # key
    BY <2>1, <1>2 DEF Grew, Ends
  <2>3. a \notin Ends(ns, key)
    <3>1. a # x
      BY <2>2
    <3> QED  BY <2>1, <3>1, SearchRound
  <2>4. /\ Child(ns[a], key) \in 1..Len(ns)
        /\ Search(ns, key)[Child(ns[a], key)] = x
    BY <2>1, <2>3, SearchRound
  <2>5. Child(ws[a], key) = Child(ns[a], key)
    <3>1. Child(ns[a], key) # NoNode
      BY <2>1, <2>3 DEF Ends
    <3> QED  BY <2>1, <3>1, GrewChild
  <2> QED  BY <2>4, <2>5
<1>3. ASSUME NEW a \in inv \cap Ends(ws, key) PROVE a \in {x}
  <2>1. a \in 1..Len(ns) /\ Search(ns, key)[a] = x
    BY <1>3
  <2>2. ws[a].key = ns[a].key
    BY <2>1 DEF Grew
  <2>3. a \in Ends(ns, key)
    <3>1. ws[a].key = key \/ Child(ws[a], key) = NoNode
      BY <1>3 DEF Ends
    <3>2. Child(ws[a], key) = NoNode => Child(ns[a], key) = NoNode
      BY <2>1, GrewChild
    <3> QED  BY <2>1, <2>2, <3>1, <3>2 DEF Ends
  <2> QED  BY <2>1, <2>3, SearchRound
<1>4. n \in inv
  OBVIOUS
<1> HIDE DEF inv, key
<1>5. \A a \in inv : Search(ws, key)[a] \in {x}
  <2>1. SearchKeeps(ws, key, inv, {x})
    BY <1>1, <1>2, <1>3 DEF SearchKeeps
  <2> QED  BY <2>1, SearchRule
<1> QED  BY <1>4, <1>5 DEF key

(* The search that ended at the parent now ends at its new child. *)
LEMMA NewFound ==
    ASSUME NEW ns, IsTree(ns), NEW ws, IsTree(ws), Grew(ns, ws),
           NEW key, NEW p \in Ends(ns, key), ns[p].key # key,
           NEW new, new \in 1..Len(ws), ws[new].key = key, Child(ws[p], key) = new,
           NEW n \in 1..Len(ns), Search(ns, key)[n] = p
    PROVE  Search(ws, key)[n] = new
<1> DEFINE inv == {a \in 1..Len(ns) : Search(ns, key)[a] = p} \cup {new}
<1>1. inv \in SUBSET (1..Len(ws))
  BY LenProperties DEF Grew, IsTree
<1>2. new \in Ends(ws, key)
  BY DEF Ends
<1>3. ASSUME NEW a \in inv, a # new
      PROVE  a \notin Ends(ws, key) /\ Child(ws[a], key) \in inv
  <2>1. a \in 1..Len(ns) /\ Search(ns, key)[a] = p
    BY <1>3
  <2>2. CASE a = p
    <3>1. ws[a].key # key /\ Child(ws[a], key) # NoNode
      <4>1. new # NoNode
        BY DEF NoNode
      <4> QED  BY <2>1, <2>2, <4>1 DEF Grew
    <3> QED  BY <2>2, <3>1 DEF Ends
  <2>3. CASE a # p
    <3>1. a \notin Ends(ns, key)
      BY <2>1, <2>3, SearchRound
    <3>2. /\ Child(ns[a], key) \in 1..Len(ns)
          /\ Search(ns, key)[Child(ns[a], key)] = p
      BY <2>1, <3>1, SearchRound
    <3>3. ns[a].key # key /\ Child(ns[a], key) # NoNode
      BY <2>1, <3>1 DEF Ends
    <3>4. Child(ws[a], key) = Child(ns[a], key)
      BY <2>1, <3>3, GrewChild
    <3>5. ws[a].key = ns[a].key
      BY <2>1 DEF Grew
    <3> QED  BY <3>2, <3>3, <3>4, <3>5 DEF Ends
  <2> QED  BY <2>2, <2>3
<1>4. n \in inv
  OBVIOUS
<1> HIDE DEF inv
<1>5. \A a \in inv : Search(ws, key)[a] \in {new}
  <2>1. \A a \in inv \ Ends(ws, key) : Child(ws[a], key) \in inv
    BY <1>2, <1>3
  <2>2. \A a \in inv \cap Ends(ws, key) : a \in {new}
    BY <1>3
  <2>3. SearchKeeps(ws, key, inv, {new})
    BY <1>1, <2>1, <2>2 DEF SearchKeeps
  <2> QED  BY <2>3, SearchRule
<1> QED  BY <1>4, <1>5

-----------------------------------------------------------------------------
(* The invariant. *)

(* The search from the first node on finds every node by its key. *)
AllFound(ns) == \A x \in 1..Len(ns) : Search(ns, ns[x].key)[1] = x

(* The value is in the list of node n. *)
Lists(ns, n, v) == \E i \in 1..Len(ns[n].values) : ns[n].values[i] = v

(* The pair is in some node. *)
Has(ns, k, v) == \E n \in 1..Len(ns) : ns[n].key = k /\ Lists(ns, n, v)

Given(given, k, v) == \E i \in 1..Len(given) : given[i] = <<k, v>>

(* The nodes hold the pairs that were added. *)
HoldsPairs(ns, given) == \A k, v : Given(given, k, v) <=> Has(ns, k, v)

MapInv ==
    /\ added \in Seq(Key \X Value)
    /\ IsTree(nodes) /\ AllFound(nodes) /\ HoldsPairs(nodes, added)
    /\ \A n \in 1..Len(nodes) : Len(nodes[n].values) > 0
    /\ root = IF Len(nodes) = 0 THEN NoNode ELSE 1

(* What the steps of mm_add_value keep. *)
MapOf(ns, given) == IsTree(ns) /\ AllFound(ns) /\ HoldsPairs(ns, given)

(* find_mm_node is the search from the root. *)
LEMMA FindIsSearch ==
    ASSUME NEW key
    PROVE  Descend(key) = Search(nodes, key)[root]
BY DEF Descend, Search

(* find_mm_node finds the node with the key if there is one. *)
LEMMA FindFinds ==
    ASSUME MapInv, NEW key
    PROVE  /\ find_mm_node(key) # NoNode =>
                 /\ find_mm_node(key) \in 1..Len(nodes)
                 /\ nodes[find_mm_node(key)].key = key
           /\ \A x \in 1..Len(nodes) : nodes[x].key = key => find_mm_node(key) = x
<1>1. /\ Len(nodes) \in Nat /\ IsTree(nodes) /\ AllFound(nodes)
      /\ root = IF Len(nodes) = 0 THEN NoNode ELSE 1
  BY LenProperties DEF MapInv, IsTree
<1>2. CASE Len(nodes) = 0
  BY <1>1, <1>2 DEF find_mm_node
<1>3. CASE Len(nodes) # 0
  <2>1. root = 1 /\ root # NoNode /\ 1 \in 1..Len(nodes)
    BY <1>1, <1>3 DEF NoNode
  <2>2. Descend(key) = Search(nodes, key)[1]
    BY <2>1, FindIsSearch
  <2>3. Descend(key) \in 1..Len(nodes)
    <3>1. Search(nodes, key)[1] \in Ends(nodes, key)
      BY <1>1, <2>1, SearchEnds
    <3> QED  BY <2>2, <3>1 DEF Ends
  <2>4. ASSUME NEW x \in 1..Len(nodes), nodes[x].key = key
        PROVE  Descend(key) = x
    BY <2>2, <2>4, <1>1 DEF AllFound
  <2>5. find_mm_node(key) = IF nodes[Descend(key)].key = key THEN Descend(key) ELSE NoNode
    BY <2>1 DEF find_mm_node
  <2> QED  BY <2>3, <2>4, <2>5
<1> QED  BY <1>2, <1>3

-----------------------------------------------------------------------------
(* The pieces of mm_add_value. *)

(* The pairs added before, and the new one. *)
LEMMA GivenOneMore ==
    ASSUME NEW S, NEW given \in Seq(S), NEW e \in S, NEW j, NEW u
    PROVE  Given(Append(given, e), j, u) <=> Given(given, j, u) \/ e = <<j, u>>
<1> DEFINE after == Append(given, e)
<1>1. /\ Len(given) \in Nat /\ Len(after) = Len(given) + 1 /\ after[Len(given) + 1] = e
      /\ \A i \in 1..Len(given) : after[i] = given[i]
  BY LenProperties, AppendProperties
<1> HIDE DEF after
<1>2. 1..Len(after) = (1..Len(given)) \cup {Len(given) + 1}
  BY <1>1
<1>3. Given(after, j, u) <=> Given(given, j, u) \/ e = <<j, u>>
  BY <1>1, <1>2 DEF Given
<1> QED  BY <1>3 DEF after

(* A value appended to the list of node n. *)
LEMMA AppendedAdds ==
    ASSUME NEW ns, NEW n \in 1..Len(ns), NEW v \in Value, NEW k \in Key,
           NEW given \in Seq(Key \X Value), MapOf(ns, given),
           ns[n].key = k,
           NEW ws, ws = Appended(ns, n, v)
    PROVE  /\ MapOf(ws, Append(given, <<k, v>>))
           /\ Len(ws) = Len(ns) /\ Len(ws[n].values) > 0
           /\ \A m \in 1..Len(ns) : m # n => ws[m] = ns[m]
<1> DEFINE vs == ns[n].values
           new == Append(vs, v)
<1>0. IsTree(ns) /\ AllFound(ns) /\ HoldsPairs(ns, given)
  BY DEF MapOf
<1>1. /\ ns \in Seq(Node) /\ Len(ns) \in Nat /\ ns[n] \in Node /\ vs \in Seq(Value)
      /\ Len(vs) \in Nat
  <2>1. ns \in Seq(Node) /\ Len(ns) \in Nat /\ ns[n] \in Node
    BY <1>0, LenProperties, ElementOfSeq DEF IsTree
  <2>2. vs \in Seq(Value)
    BY <2>1 DEF Node
  <2> QED  BY <2>1, <2>2, LenProperties
<1>2. /\ new \in Seq(Value) /\ Len(new) = Len(vs) + 1 /\ new[Len(vs) + 1] = v
      /\ \A i \in 1..Len(vs) : new[i] = vs[i]
  <2> HIDE DEF vs
  <2> QED  BY <1>1, AppendProperties
<1> HIDE DEF new
<1>3. ws = [ns EXCEPT ![n] = [ns[n] EXCEPT !.values = new]]
  BY DEF Appended, new
<1>4. /\ ws \in Seq(Node) /\ Len(ws) = Len(ns)
      /\ ws[n] = [ns[n] EXCEPT !.values = new]
      /\ \A m \in 1..Len(ns) : m # n => ws[m] = ns[m]
  <2>1. [ns[n] EXCEPT !.values = new] \in Node
    BY <1>1, <1>2 DEF Node
  <2> HIDE DEF vs
  <2> QED  BY <1>1, <1>3, <2>1, ExceptSeq
<1>5. /\ ws[n].key = k /\ ws[n].values = new
      /\ ws[n].left_child = ns[n].left_child /\ ws[n].right_child = ns[n].right_child
  BY <1>1, <1>4 DEF Node
<1>6. \A m \in 1..Len(ns) : /\ ws[m].key = ns[m].key
                            /\ ws[m].left_child = ns[m].left_child
                            /\ ws[m].right_child = ns[m].right_child
  BY <1>4, <1>5
<1>7. IsTree(ws)
  BY <1>0, <1>4, <1>6 DEF IsTree
<1>8. AllFound(ws)
  <2>1. Grew(ns, ws)
    BY <1>1, <1>4, <1>6 DEF Grew
  <2>2. ASSUME NEW x \in 1..Len(ns) PROVE Search(ws, ws[x].key)[1] = x
    <3>1. 1 \in 1..Len(ns)
      BY <1>1
    <3>2. Search(ns, ns[x].key)[1] = x
      BY <1>0 DEF AllFound
    <3> QED  BY <1>0, <1>6, <1>7, <2>1, <3>1, <3>2, StillFound
  <2> QED  BY <2>2, <1>4 DEF AllFound
<1>9. HoldsPairs(ws, Append(given, <<k, v>>))
  <2> DEFINE after == Append(given, <<k, v>>)
  <2>1. ASSUME NEW j, NEW u
        PROVE  Given(after, j, u) <=> Given(given, j, u) \/ (j = k /\ u = v)
    <3>1. Given(after, j, u) <=> Given(given, j, u) \/ <<k, v>> = <<j, u>>
      BY GivenOneMore
    <3>2. <<k, v>> = <<j, u>> <=> j = k /\ u = v
      OBVIOUS
    <3> QED  BY <3>1, <3>2
  <2>2. ASSUME NEW u PROVE Lists(ws, n, u) <=> Lists(ns, n, u) \/ u = v
    <3>1. (\E i \in 1..Len(new) : new[i] = u)
             <=> (\E i \in 1..Len(vs) : vs[i] = u) \/ u = v
      <4> HIDE DEF vs
      <4>1. 1..Len(new) = (1..Len(vs)) \cup {Len(vs) + 1}
        BY <1>1, <1>2
      <4> QED  BY <1>2, <4>1
    <3> QED  BY <3>1, <1>5 DEF Lists
  <2>3. ASSUME NEW m \in 1..Len(ns), m # n, NEW u
        PROVE  Lists(ws, m, u) <=> Lists(ns, m, u)
    BY <2>3, <1>4 DEF Lists
  <2>4. ASSUME NEW j, NEW u
        PROVE  Has(ws, j, u) <=> Has(ns, j, u) \/ (j = k /\ u = v)
    BY <2>2, <2>3, <1>4, <1>6 DEF Has
  <2> HIDE DEF after
  <2>5. ASSUME NEW j, NEW u PROVE Given(after, j, u) <=> Has(ws, j, u)
    <3>1. Given(given, j, u) <=> Has(ns, j, u)
      BY <1>0 DEF HoldsPairs
    <3> QED  BY <3>1, <2>1, <2>4
  <2>6. HoldsPairs(ws, after)
    BY <2>5 DEF HoldsPairs
  <2> QED  BY <2>6 DEF after
<1> QED  BY <1>1, <1>2, <1>4, <1>5, <1>7, <1>8, <1>9 DEF MapOf

(* A new node, still without values, where the search for its key ended.       *)
LEMMA HungAdds ==
    ASSUME NEW ns, NEW given, MapOf(ns, given), Len(ns) > 0,
           NEW key \in Int, NEW p, p = Search(ns, key)[1], ns[p].key # key,
           NEW ws,
           ws = Hung(Append(ns, alloc_mm_node(key)), p, key, Len(ns) + 1)
    PROVE  /\ MapOf(ws, given)
           /\ Len(ws) = Len(ns) + 1 /\ ws[Len(ns) + 1].key = key
           /\ \A m \in 1..Len(ns) : ws[m].values = ns[m].values
<1> DEFINE new == Len(ns) + 1
           node == alloc_mm_node(key)
           grown == Append(ns, node)
<1>0. IsTree(ns) /\ AllFound(ns) /\ HoldsPairs(ns, given)
  BY DEF MapOf
<1>1. /\ ns \in Seq(Node) /\ Len(ns) \in Nat /\ 1 \in 1..Len(ns) /\ new \in Nat
      /\ \A m \in 1..Len(ns) : ns[m] \in Node
  <2>1. ns \in Seq(Node) /\ Len(ns) \in Nat
    BY <1>0, LenProperties DEF IsTree
  <2> QED  BY <2>1, ElementOfSeq
<1>2. node \in Node /\ node.key = key /\ node.values = << >>
      /\ node.left_child = NoNode /\ node.right_child = NoNode
  BY DEF alloc_mm_node, Node, NoNode
<1> HIDE DEF node
<1>3. /\ grown \in Seq(Node) /\ Len(grown) = new /\ grown[new] = node
      /\ \A m \in 1..Len(ns) : grown[m] = ns[m]
  BY <1>1, <1>2, AppendProperties
<1> HIDE DEF grown
<1>4. p \in Ends(ns, key) /\ p \in 1..Len(ns) /\ p \in 1..new /\ p # new
      /\ Child(ns[p], key) = NoNode
  <2>1. p \in Ends(ns, key)
    BY <1>0, <1>1, SearchEnds
  <2> QED  BY <2>1, <1>1 DEF Ends
<1>5. /\ ws \in Seq(Node) /\ Len(ws) = new /\ ws[new] = node
      /\ \A m \in 1..Len(ns) : m # p => ws[m] = ns[m]
      /\ ns[p].key > key => ws[p] = [ns[p] EXCEPT !.left_child = new]
      /\ ~(ns[p].key > key) => ws[p] = [ns[p] EXCEPT !.right_child = new]
  <2>1. grown[p] = ns[p] /\ ns[p] \in Node /\ p \in 1..Len(grown)
    BY <1>1, <1>3, <1>4
  <2>2. ws = IF ns[p].key > key
             THEN [grown EXCEPT ![p] = [ns[p] EXCEPT !.left_child = new]]
             ELSE [grown EXCEPT ![p] = [ns[p] EXCEPT !.right_child = new]]
    BY <2>1 DEF Hung, grown, node
  <2>3. /\ [ns[p] EXCEPT !.left_child = new] \in Node
        /\ [ns[p] EXCEPT !.right_child = new] \in Node
    BY <2>1, <1>1 DEF Node
  <2> HIDE DEF new
  <2>6. ASSUME NEW e \in Node, ws = [grown EXCEPT ![p] = e]
        PROVE  /\ ws \in Seq(Node) /\ Len(ws) = new /\ ws[p] = e
               /\ \A m \in 1..new : m # p => ws[m] = grown[m]
    <3>1. p \in 1..Len(grown) /\ grown \in Seq(Node)
      BY <1>3, <1>4
    <3>2. /\ ws \in Seq(Node) /\ Len(ws) = Len(grown)
          /\ \A m \in 1..Len(grown) : ws[m] = IF m = p THEN e ELSE grown[m]
      BY <3>1, <2>6, ExceptSeq
    <3> QED  BY <3>1, <3>2, <1>3
  <2>7. new \in 1..new /\ \A m \in 1..Len(ns) : m \in 1..new
    BY <1>1 DEF new
  <2>4. CASE ns[p].key > key
    <3>1. ws = [grown EXCEPT ![p] = [ns[p] EXCEPT !.left_child = new]]
      BY <2>2, <2>4
    <3>2. /\ ws \in Seq(Node) /\ Len(ws) = new
          /\ ws[p] = [ns[p] EXCEPT !.left_child = new]
          /\ \A m \in 1..new : m # p => ws[m] = grown[m]
      BY <2>3, <2>6, <3>1
    <3> QED  BY <1>3, <1>4, <2>7, <2>4, <3>2
  <2>5. CASE ~(ns[p].key > key)
    <3>1. ws = [grown EXCEPT ![p] = [ns[p] EXCEPT !.right_child = new]]
      BY <2>2, <2>5
    <3>2. /\ ws \in Seq(Node) /\ Len(ws) = new
          /\ ws[p] = [ns[p] EXCEPT !.right_child = new]
          /\ \A m \in 1..new : m # p => ws[m] = grown[m]
      BY <2>3, <2>6, <3>1
    <3> QED  BY <1>3, <1>4, <2>7, <2>5, <3>2
  <2> QED  BY <2>4, <2>5
<1>6. /\ ws[p].key = ns[p].key /\ ws[p].values = ns[p].values
      /\ Child(ws[p], key) = new
      /\ ns[p].left_child # NoNode => ws[p].left_child = ns[p].left_child
      /\ ns[p].right_child # NoNode => ws[p].right_child = ns[p].right_child
      /\ ws[p].left_child = ns[p].left_child \/ ws[p].left_child = new
      /\ ws[p].right_child = ns[p].right_child \/ ws[p].right_child = new
  <2>1. ns[p] \in Node
    BY <1>1, <1>4
  <2> HIDE DEF new
  <2>2. CASE ns[p].key > key
    <3>1. ns[p].left_child = NoNode
      BY <1>4, <2>2 DEF Child
    <3> QED  BY <2>1, <2>2, <3>1, <1>5 DEF Node, Child
  <2>3. CASE ~(ns[p].key > key)
    <3>1. ns[p].right_child = NoNode
      BY <1>4, <2>3 DEF Child
    <3> QED  BY <2>1, <2>3, <3>1, <1>5 DEF Node, Child
  <2> QED  BY <2>2, <2>3
<1>7. IsTree(ws)
  <2>1. ASSUME NEW m \in 1..Len(ws)
        PROVE  /\ ws[m].left_child # NoNode => ws[m].left_child \in (m + 1)..Len(ws)
               /\ ws[m].right_child # NoNode => ws[m].right_child \in (m + 1)..Len(ws)
    <3>1. CASE m = new
      BY <3>1, <1>2, <1>5
    <3>2. CASE m \in 1..Len(ns)
      <4>1. /\ ns[m].left_child # NoNode => ns[m].left_child \in (m + 1)..Len(ns)
            /\ ns[m].right_child # NoNode => ns[m].right_child \in (m + 1)..Len(ns)
        BY <1>0, <3>2 DEF IsTree
      <4>2. /\ ws[m].left_child = ns[m].left_child \/ ws[m].left_child = new
            /\ ws[m].right_child = ns[m].right_child \/ ws[m].right_child = new
        BY <3>2, <1>5, <1>6
      <4> QED  BY <3>2, <4>1, <4>2, <1>1, <1>5
    <3> QED  BY <3>1, <3>2, <1>1, <1>5
  <2> QED  BY <2>1, <1>5 DEF IsTree
<1>8. Grew(ns, ws)
  <2>1. \A m \in 1..Len(ns) : /\ ws[m].key = ns[m].key
                              /\ ns[m].left_child # NoNode =>
                                     ws[m].left_child = ns[m].left_child
                              /\ ns[m].right_child # NoNode =>
                                     ws[m].right_child = ns[m].right_child
    BY <1>5, <1>6
  <2> QED  BY <2>1, <1>1, <1>5 DEF Grew
<1>9. AllFound(ws)
  <2>1. ASSUME NEW x \in 1..Len(ws) PROVE Search(ws, ws[x].key)[1] = x
    <3>1. CASE x = new
      <4>1. ws[new].key = key /\ new \in 1..Len(ws) /\ Search(ns, key)[1] = p
        BY <1>1, <1>2, <1>5
      <4> HIDE DEF new
      <4>2. Search(ws, key)[1] = new
        BY <4>1, <1>0, <1>1, <1>4, <1>6, <1>7, <1>8, NewFound
      <4> QED  BY <4>1, <4>2, <3>1
    <3>2. CASE x \in 1..Len(ns)
      <4>1. Search(ns, ns[x].key)[1] = x /\ ws[x].key = ns[x].key
        BY <3>2, <1>0, <1>5, <1>6 DEF AllFound
      <4> QED  BY <3>2, <4>1, <1>0, <1>1, <1>7, <1>8, StillFound
    <3> QED  BY <3>1, <3>2, <1>1, <1>5
  <2> QED  BY <2>1 DEF AllFound
<1>10. \A m \in 1..Len(ns) : ws[m].values = ns[m].values /\ ws[m].key = ns[m].key
  BY <1>5, <1>6
<1>11. HoldsPairs(ws, given)
  <2>1. \A u : ~Lists(ws, new, u)
    <3>1. Len(ws[new].values) = 0
      BY <1>2, <1>5
    <3> QED  BY <3>1 DEF Lists
  <2>2. \A m \in 1..Len(ns) : \A u : Lists(ws, m, u) <=> Lists(ns, m, u)
    BY <1>10 DEF Lists
  <2>3. 1..Len(ws) = (1..Len(ns)) \cup {new}
    BY <1>1, <1>5
  <2> HIDE DEF new
  <2>4. ASSUME NEW j, NEW u PROVE Has(ws, j, u) <=> Has(ns, j, u)
    BY <2>1, <2>2, <2>3, <1>10 DEF Has
  <2> QED  BY <2>4, <1>0 DEF HoldsPairs
<1> QED  BY <1>2, <1>5, <1>7, <1>9, <1>10, <1>11 DEF MapOf

(* Every step of the program keeps the invariant. *)
LEMMA AddKeepsMap ==
    ASSUME MapInv, NEW k \in Key, NEW v \in Value, mm_add_value(k, v)
    PROVE  MapInv'
<1>1. /\ added \in Seq(Key \X Value) /\ added' = Append(added, <<k, v>>)
      /\ IsTree(nodes) /\ MapOf(nodes, added)
      /\ \A n \in 1..Len(nodes) : Len(nodes[n].values) > 0
      /\ root = IF Len(nodes) = 0 THEN NoNode ELSE 1
      /\ nodes \in Seq(Node) /\ Len(nodes) \in Nat /\ k \in Int
  BY KeyAssumption, LenProperties DEF MapInv, MapOf, IsTree, mm_add_value
<1>2. added' \in Seq(Key \X Value)
  BY <1>1, AppendProperties
<1>3. CASE root = NoNode
  <2>1. Len(nodes) = 0 /\ nodes = << >>
    BY <1>1, <1>3, EmptySeq DEF NoNode
  <2> DEFINE ns == Append(nodes, alloc_mm_node(k))
  <2>2. root' = 1 /\ nodes' = Appended(ns, 1, v)
    BY <1>3, <2>1, <1>1 DEF mm_add_value
  <2>3. /\ alloc_mm_node(k) \in Node /\ alloc_mm_node(k).key = k
        /\ alloc_mm_node(k).left_child = NoNode
        /\ alloc_mm_node(k).right_child = NoNode
        /\ alloc_mm_node(k).values = << >>
    BY <1>1 DEF alloc_mm_node, Node, NoNode
  <2>4. ns \in Seq(Node) /\ Len(ns) = 1 /\ ns[1] = alloc_mm_node(k)
    <3> HIDE DEF ns
    <3> QED  BY <1>1, <2>1, <2>3, AppendProperties DEF ns
  <2> HIDE DEF ns
  <2>5. \A x \in 1..Len(ns) : x = 1
    BY <2>4
  <2>6. IsTree(ns)
    BY <2>3, <2>4, <2>5 DEF IsTree
  <2>7. AllFound(ns)
    <3>1. 1 \in 1..Len(ns) /\ 1 \in Ends(ns, ns[1].key)
      BY <2>4 DEF Ends
    <3>2. Search(ns, ns[1].key)[1] = 1
      BY <2>6, <3>1, SearchRound
    <3> QED  BY <2>5, <3>2 DEF AllFound
  <2>8. HoldsPairs(ns, added)
    <3>1. ASSUME NEW j, NEW u PROVE ~Has(nodes, j, u)
      <4>1. \A n \in 1..Len(nodes) : FALSE
        BY <2>1
      <4> QED  BY <4>1 DEF Has
    <3>2. ASSUME NEW j, NEW u PROVE ~Has(ns, j, u)
      <4>1. Len(ns[1].values) = 0
        BY <2>3, <2>4
      <4> QED  BY <2>5, <4>1 DEF Has, Lists
    <3> QED  BY <3>1, <3>2, <1>1 DEF HoldsPairs, MapOf
  <2>9. /\ MapOf(nodes', Append(added, <<k, v>>))
        /\ Len(nodes') = Len(ns) /\ Len(nodes'[1].values) > 0
    <3>1. 1 \in 1..Len(ns) /\ ns[1].key = k
      BY <2>3, <2>4
    <3>2. MapOf(ns, added)
      BY <2>6, <2>7, <2>8 DEF MapOf
    <3> DEFINE ws == nodes'
               n == 1
    <3>3. n \in 1..Len(ns) /\ ns[n].key = k /\ ws = Appended(ns, n, v)
      BY <2>2, <3>1
    <3> HIDE DEF ws, n
    <3>4. /\ MapOf(ws, Append(added, <<k, v>>))
          /\ Len(ws) = Len(ns) /\ Len(ws[n].values) > 0
      BY <3>2, <3>3, <1>1, AppendedAdds
    <3> QED  BY <3>4 DEF ws, n
  <2> QED  BY <2>2, <2>4, <2>5, <2>9, <1>1, <1>2 DEF MapInv, MapOf
<1>4. CASE root # NoNode
  <2> DEFINE p == Descend(k)
  <2>1. root = 1 /\ Len(nodes) > 0 /\ 1 \in 1..Len(nodes)
    BY <1>1, <1>4
  <2>2. p = Search(nodes, k)[1]
    BY <2>1, FindIsSearch
  <2>3. p \in 1..Len(nodes)
    <3>1. Search(nodes, k)[1] \in Ends(nodes, k)
      BY <1>1, <2>1, SearchEnds
    <3> QED  BY <2>2, <3>1 DEF Ends
  <2>4. CASE nodes[p].key = k
    <3>1. root' = root /\ nodes' = Appended(nodes, p, v)
      BY <1>4, <2>4 DEF mm_add_value
    <3> HIDE DEF p
    <3>2. /\ MapOf(nodes', Append(added, <<k, v>>))
          /\ Len(nodes') = Len(nodes) /\ Len(nodes'[p].values) > 0
          /\ \A m \in 1..Len(nodes) : m # p => nodes'[m] = nodes[m]
      <4> DEFINE ws == nodes'
      <4>1. ws = Appended(nodes, p, v)
        BY <3>1
      <4>2. MapOf(nodes, added) /\ added \in Seq(Key \X Value)
        BY <1>1
      <4> HIDE DEF ws
      <4>3. /\ MapOf(ws, Append(added, <<k, v>>))
            /\ Len(ws) = Len(nodes) /\ Len(ws[p].values) > 0
            /\ \A m \in 1..Len(nodes) : m # p => ws[m] = nodes[m]
        BY <2>3, <2>4, <4>1, <4>2, AppendedAdds
      <4> QED  BY <4>3 DEF ws
    <3>3. \A n \in 1..Len(nodes') : Len(nodes'[n].values) > 0
      BY <3>2, <1>1
    <3> QED  BY <3>1, <3>2, <3>3, <1>1, <1>2 DEF MapInv, MapOf
  <2>5. CASE nodes[p].key # k
    <3> DEFINE new == Len(nodes) + 1
               ns == Hung(Append(nodes, alloc_mm_node(k)), p, k, new)
    <3>1. root' = root /\ nodes' = Appended(ns, new, v)
      BY <1>4, <2>5 DEF mm_add_value
    <3> HIDE DEF p
    <3>2. /\ MapOf(ns, added)
          /\ Len(ns) = new /\ ns[new].key = k
          /\ \A m \in 1..Len(nodes) : ns[m].values = nodes[m].values
      BY <2>1, <2>2, <2>5, <1>1, HungAdds
    <3> HIDE DEF ns
    <3>3. new \in 1..Len(ns) /\ Len(ns) \in Nat /\ Len(ns) # 0
      BY <3>2, <1>1
    <3>4. 1..Len(ns) = (1..Len(nodes)) \cup {new}
      BY <3>2, <1>1
    <3> HIDE DEF new
    <3>5. /\ MapOf(nodes', Append(added, <<k, v>>))
          /\ Len(nodes') = Len(ns) /\ Len(nodes'[new].values) > 0
          /\ \A m \in 1..Len(ns) : m # new => nodes'[m] = ns[m]
      <4> DEFINE ws == nodes'
      <4>1. ws = Appended(ns, new, v)
        BY <3>1
      <4>2. MapOf(ns, added) /\ added \in Seq(Key \X Value) /\ ns[new].key = k
        BY <3>2, <1>1
      <4> HIDE DEF ws
      <4>3. /\ MapOf(ws, Append(added, <<k, v>>))
            /\ Len(ws) = Len(ns) /\ Len(ws[new].values) > 0
            /\ \A m \in 1..Len(ns) : m # new => ws[m] = ns[m]
        BY <3>3, <4>1, <4>2, AppendedAdds
      <4> QED  BY <4>3 DEF ws
    <3>6. ASSUME NEW n \in 1..Len(nodes') PROVE Len(nodes'[n].values) > 0
      <4>1. CASE n = new
        BY <4>1, <3>5
      <4>2. CASE n # new
        <5>1. n \in 1..Len(nodes) /\ n \in 1..Len(ns)
          BY <4>2, <3>4, <3>5
        <5>2. nodes'[n].values = nodes[n].values
          BY <4>2, <5>1, <3>2, <3>5
        <5> QED  BY <5>1, <5>2, <1>1
      <4> QED  BY <4>1, <4>2
    <3>7. root' = IF Len(nodes') = 0 THEN NoNode ELSE 1
      BY <3>1, <3>3, <3>5, <2>1
    <3> QED  BY <3>5, <3>6, <3>7, <1>1, <1>2 DEF MapInv, MapOf
  <2> QED  BY <2>4, <2>5
<1> QED  BY <1>3, <1>4

(* The empty map has the invariant. *)
LEMMA EmptyMapInv ==
    ASSUME root = NoNode, nodes = << >>, added = << >>
    PROVE  MapInv
<1>1. Len(nodes) = 0 /\ Len(added) = 0
  OBVIOUS
<1>2. \A n \in 1..Len(nodes) : FALSE
  BY <1>1
<1>3. IsTree(nodes) /\ AllFound(nodes)
  BY <1>2 DEF IsTree, AllFound
<1>4. HoldsPairs(nodes, added)
  <2>1. ASSUME NEW k, NEW v PROVE ~Has(nodes, k, v) /\ ~Given(added, k, v)
    BY <1>1 DEF Has, Given
  <2> QED  BY <2>1 DEF HoldsPairs
<1> QED  BY <1>1, <1>2, <1>3, <1>4 DEF MapInv

(* Every step keeps the invariant. *)
LEMMA MapInvStep == MapInv /\ [MmNext]_mmVars => MapInv'
<1>1. ASSUME MapInv, NEW k \in Key, NEW v \in Value, mm_add_value(k, v)
      PROVE  MapInv'
  BY <1>1, AddKeepsMap
<1>2. ASSUME clear_multimap PROVE MapInv'
  <2>1. root' = NoNode /\ nodes' = << >> /\ added' = << >>
    BY <1>2 DEF clear_multimap
  <2>2. Len(nodes') = 0 /\ Len(added') = 0
    BY <2>1
  <2>3. \A n \in 1..Len(nodes') : FALSE
    BY <2>2
  <2>4. IsTree(nodes') /\ AllFound(nodes')
    BY <2>1, <2>3 DEF IsTree, AllFound
  <2>5. HoldsPairs(nodes', added')
    <3>1. ASSUME NEW k, NEW v PROVE ~Has(nodes', k, v) /\ ~Given(added', k, v)
      BY <2>2 DEF Has, Given
    <3> QED  BY <3>1 DEF HoldsPairs
  <2> QED  BY <2>1, <2>2, <2>3, <2>4, <2>5 DEF MapInv
<1>3. ASSUME MapInv, UNCHANGED mmVars PROVE MapInv'
  BY <1>3 DEF MapInv, mmVars
<1> QED  BY <1>1, <1>2, <1>3 DEF MmNext

(* mm_impl.c: whatever the order in which the pairs come, and however often    *)
(* the map is cleared, the search finds every key and every pair that was      *)
(* added since, and no others.                                                 *)
THEOREM MapAlwaysFinds == MmSpec => []MapFindsItsPairs
<1>1. init_multimap => MapInv
  BY EmptyMapInv DEF init_multimap
<1>2. MapInv => MapFindsItsPairs
  <2> SUFFICES ASSUME MapInv, NEW k \in Key
               PROVE  /\ mm_contains_key(k) <=> \E i \in DOMAIN added : added[i][1] = k
                      /\ \A v \in Value : mm_contains_pair(k, v) <=>
                                \E i \in DOMAIN added : added[i] = <<k, v>>
    BY DEF MapFindsItsPairs
  <2> DEFINE n == find_mm_node(k)
  <2>1. /\ n # NoNode => n \in 1..Len(nodes) /\ nodes[n].key = k
        /\ \A x \in 1..Len(nodes) : nodes[x].key = k => n = x /\ x # NoNode
    <3>1. \A x \in 1..Len(nodes) : x # NoNode
      BY DEF NoNode
    <3> QED  BY <3>1, FindFinds
  <2> HIDE DEF n
  <2>2. /\ added \in Seq(Key \X Value) /\ DOMAIN added = 1..Len(added)
        /\ Len(added) \in Nat
        /\ \A i \in 1..Len(added) : added[i] \in Key \X Value
    <3>1. added \in Seq(Key \X Value)
      BY DEF MapInv
    <3> QED  BY <3>1, LenProperties, ElementOfSeq
  <2>3. ASSUME NEW v
        PROVE  (\E i \in DOMAIN added : added[i] = <<k, v>>) <=> n # NoNode /\ Lists(nodes, n, v)
    <3>1. Given(added, k, v) <=> Has(nodes, k, v)
      BY DEF MapInv, HoldsPairs
    <3>2. Has(nodes, k, v) <=> n # NoNode /\ Lists(nodes, n, v)
      BY <2>1 DEF Has
    <3>3. Given(added, k, v) <=> \E i \in DOMAIN added : added[i] = <<k, v>>
      BY <2>2 DEF Given
    <3> QED  BY <3>1, <3>2, <3>3
  <2>4. ASSUME n # NoNode
        PROVE  DOMAIN nodes[n].values = 1..Len(nodes[n].values) /\ Len(nodes[n].values) > 0
    <3>1. n \in 1..Len(nodes) /\ nodes \in Seq(Node)
      BY <2>1, <2>4 DEF MapInv, IsTree
    <3>2. nodes[n].values \in Seq(Value)
      <4>1. nodes[n] \in Node
        BY <3>1, ElementOfSeq
      <4> QED  BY <4>1 DEF Node
    <3> QED  BY <3>1, <3>2, LenProperties DEF MapInv
  <2>5. ASSUME NEW v \in Value
        PROVE  mm_contains_pair(k, v) <=> \E i \in DOMAIN added : added[i] = <<k, v>>
    <3>1. mm_contains_pair(k, v) <=> n # NoNode /\ Lists(nodes, n, v)
      BY <2>4 DEF mm_contains_pair, Lists, n
    <3> QED  BY <3>1, <2>3
  <2>6. mm_contains_key(k) <=> \E i \in DOMAIN added : added[i][1] = k
    <3>1. ASSUME NEW i \in DOMAIN added, added[i][1] = k PROVE n # NoNode
      <4>1. added[i] = <<k, added[i][2]>>
        BY <3>1, <2>2
      <4> QED  BY <4>1, <2>3
    <3>2. ASSUME n # NoNode PROVE \E i \in DOMAIN added : added[i][1] = k
      <4>1. Len(nodes[n].values) \in Nat
        <5>1. n \in 1..Len(nodes) /\ nodes \in Seq(Node)
          BY <2>1, <3>2 DEF MapInv, IsTree
        <5> QED  BY <5>1, ElementOfSeq, LenProperties DEF Node
      <4>2. Lists(nodes, n, nodes[n].values[1])
        <5>1. 1 \in 1..Len(nodes[n].values)
          BY <4>1, <3>2, <2>4
        <5> QED  BY <5>1 DEF Lists
      <4>3. PICK i \in DOMAIN added : added[i] = <<k, nodes[n].values[1]>>
        BY <4>2, <3>2, <2>3
      <4> QED  BY <4>3
    <3> QED  BY <3>1, <3>2 DEF mm_contains_key, n
  <2> QED  BY <2>5, <2>6
<1>3. MapInv /\ [MmNext]_mmVars => MapInv'
  BY MapInvStep
<1> QED  BY <1>1, <1>2, <1>3, PTL DEF MmSpec
-----------------------------------------------------------------------------
(****************************************************************************)
(* The collector of the Scheme interpreter.                                 *)
(****************************************************************************)

(* A is a set of allocated objects that points to no other. *)
Closed(m, A) ==
    /\ A \subseteq DOMAIN m.heap
    /\ \A v \in A : mark_value(m.heap[v]) \cap DOMAIN m.heap \subseteq A

(* What the objects of F point to. *)
PointedTo(m, F) == {v \in DOMAIN m.heap : \E u \in F : v \in mark_value(m.heap[u])}

(* marked is the least closed set with the roots. *)
Exact(m, roots, marked) ==
    /\ roots \cap DOMAIN m.heap \subseteq marked /\ Closed(m, marked)
    /\ \A A : roots \cap DOMAIN m.heap \subseteq A /\ Closed(m, A) => marked \subseteq A

-----------------------------------------------------------------------------
(* The rounds of Marked. *)

MarkStates(D) == [front : SUBSET D, marked : SUBSET D]
MarkEnds(D) == {s \in MarkStates(D) : s.front = {}}

MarkRound(m, s) ==
    [front |-> PointedTo(m, s.front) \ (s.marked \cup s.front),
     marked |-> s.marked \cup s.front]

(* What is not marked yet, twice; a front that is marked already, as only the   *)
(* first could be, counts once.                                                 *)
MarkMeasure(D, s) ==
    2 * Cardinality(D \ s.marked)
        + (IF s.front # {} /\ s.front \subseteq s.marked THEN 1 ELSE 0)

(* What every round keeps: everything that a marked object points to is marked *)
(* or next, and no closed set with the roots lacks any of it.                  *)
MarkInv(m, roots) ==
    {s \in MarkStates(DOMAIN m.heap) :
        /\ roots \cap DOMAIN m.heap \subseteq s.marked \cup s.front
        /\ PointedTo(m, s.marked) \subseteq s.marked \cup s.front
        /\ \A A : roots \cap DOMAIN m.heap \subseteq A /\ Closed(m, A)
                     => s.marked \cup s.front \subseteq A}

(* A round of marking, part by part. *)
LEMMA MarkRoundIn ==
    ASSUME NEW m, NEW s \in MarkStates(DOMAIN m.heap)
    PROVE  /\ MarkRound(m, s) \in MarkStates(DOMAIN m.heap)
           /\ MarkRound(m, s).front = PointedTo(m, s.front) \ (s.marked \cup s.front)
           /\ MarkRound(m, s).marked = s.marked \cup s.front
<1>1. s.front \in SUBSET DOMAIN m.heap /\ s.marked \in SUBSET DOMAIN m.heap
  BY DEF MarkStates
<1>2. PointedTo(m, s.front) \in SUBSET DOMAIN m.heap
  BY DEF PointedTo
<1> QED  BY <1>1, <1>2 DEF MarkStates, MarkRound

(* A round of marking keeps its invariant. *)
LEMMA MarkRoundKeeps ==
    ASSUME NEW m, NEW roots, NEW s \in MarkInv(m, roots)
    PROVE  MarkRound(m, s) \in MarkInv(m, roots)
<1> DEFINE D == DOMAIN m.heap
           t == MarkRound(m, s)
<1>1. /\ s \in MarkStates(D)
      /\ roots \cap D \subseteq s.marked \cup s.front
      /\ PointedTo(m, s.marked) \subseteq s.marked \cup s.front
      /\ \A A : roots \cap D \subseteq A /\ Closed(m, A) => s.marked \cup s.front \subseteq A
  BY DEF MarkInv
<1>2. /\ t \in MarkStates(D)
      /\ t.front = PointedTo(m, s.front) \ (s.marked \cup s.front)
      /\ t.marked = s.marked \cup s.front
  BY <1>1, MarkRoundIn
<1>3. t.marked \cup t.front = s.marked \cup s.front \cup PointedTo(m, s.front)
  BY <1>2
<1>4. PointedTo(m, t.marked) \subseteq t.marked \cup t.front
  <2>1. PointedTo(m, t.marked) \subseteq PointedTo(m, s.marked) \cup PointedTo(m, s.front)
    BY <1>2 DEF PointedTo
  <2> QED  BY <2>1, <1>1, <1>3
<1>5. ASSUME NEW A, roots \cap D \subseteq A, Closed(m, A)
      PROVE  t.marked \cup t.front \subseteq A
  <2>1. s.marked \cup s.front \subseteq A
    BY <1>1, <1>5
  <2>2. PointedTo(m, s.front) \subseteq A
    BY <2>1, <1>5 DEF PointedTo, Closed
  <2> QED  BY <2>1, <2>2, <1>3
<1>6. roots \cap D \subseteq t.marked \cup t.front
  BY <1>1, <1>3
<1>7. t \in MarkStates(D)
  BY <1>2
<1>8. \A A : roots \cap D \subseteq A /\ Closed(m, A) => t.marked \cup t.front \subseteq A
  BY <1>5
<1>9. t \in MarkInv(m, roots)
  <2> HIDE DEF t
  <2> QED  BY <1>4, <1>6, <1>7, <1>8 DEF MarkInv
<1> QED  BY <1>9

(* Every round of marking leaves fewer objects to mark. *)
LEMMA MarkMeasureFalls ==
    ASSUME NEW m, IsFiniteSet(DOMAIN m.heap),
           NEW s \in MarkStates(DOMAIN m.heap), s.front # {}
    PROVE  MarkMeasure(DOMAIN m.heap, MarkRound(m, s)) < MarkMeasure(DOMAIN m.heap, s)
<1> DEFINE D == DOMAIN m.heap
           t == MarkRound(m, s)
           n == Cardinality(D \ s.marked)
           k == Cardinality(D \ t.marked)
<1>1. /\ t.front = PointedTo(m, s.front) \ (s.marked \cup s.front)
      /\ t.marked = s.marked \cup s.front
  BY MarkRoundIn
<1>2. s.front \in SUBSET D /\ s.marked \in SUBSET D
  BY DEF MarkStates
<1>3. IsFiniteSet(D \ s.marked) /\ IsFiniteSet(D \ t.marked) /\ n \in Nat /\ k \in Nat
  BY FS_Difference, FS_CardinalityType
<1>4. ~(t.front # {} /\ t.front \subseteq t.marked)
  BY <1>1
<1>5. MarkMeasure(D, t) = 2 * k
  <2> HIDE DEF t
  <2> QED  BY <1>3, <1>4 DEF MarkMeasure
<1>6. CASE s.front \subseteq s.marked
  <2>1. t.marked = s.marked
    BY <1>1, <1>6
  <2>2. k = n
    BY <2>1
  <2>3. MarkMeasure(D, s) = 2 * n + 1
    BY <1>6 DEF MarkMeasure
  <2> HIDE DEF n, k
  <2> QED  BY <2>2, <2>3, <1>3, <1>5
<1>7. CASE ~(s.front \subseteq s.marked)
  <2>1. PICK v \in s.front : v \notin s.marked
    BY <1>7
  <2>2. D \ t.marked \subseteq D \ s.marked /\ D \ t.marked # D \ s.marked
    BY <2>1, <1>1, <1>2
  <2>3. k < n
    BY <2>2, <1>3, FS_Subset, FS_CardinalityType
  <2>4. MarkMeasure(D, s) = 2 * n
    <3> HIDE DEF n
    <3>1. MarkMeasure(D, s) = 2 * n + 0
      BY <1>7 DEF MarkMeasure, n
    <3> QED  BY <3>1, <1>3
  <2> HIDE DEF n, k
  <2> QED  BY <2>3, <2>4, <1>3, <1>5
<1> QED  BY <1>6, <1>7

(* Marking marks the least closed set that has the roots. *)
LEMMA MarkedIsExact ==
    ASSUME NEW m, IsFiniteSet(DOMAIN m.heap), NEW roots
    PROVE  Exact(m, roots, Marked(m, roots))
<1> DEFINE D == DOMAIN m.heap
           S == MarkStates(D)
           stop == MarkEnds(D)
           res == [s \in S |-> s.marked]
           next == [s \in S |-> MarkRound(m, s)]
           measure == [s \in S |-> MarkMeasure(D, s)]
           first == [front |-> roots \cap D, marked |-> {}]
           inv == MarkInv(m, roots)
           good == {A \in SUBSET D : Exact(m, roots, A)}
           Body(g) == [s \in [front : SUBSET D, marked : SUBSET D] |->
                        LET reached == UNION {mark_value(m.heap[v]) : v \in s.front}
                            now == s.marked \cup s.front
                        IN  IF s.front = {} THEN s.marked
                            ELSE g[[front |-> (reached \cap D) \ now, marked |-> now]]]
           mark == CHOOSE g : g = Body(g)
<1>1. Falls(measure, S, stop, next)
  <2>1. ASSUME NEW s \in S PROVE MarkMeasure(D, s) \in Nat
    <3>1. Cardinality(D \ s.marked) \in Nat
      BY FS_Difference, FS_CardinalityType
    <3> QED  BY <3>1 DEF MarkMeasure
  <2>2. measure \in [S -> Nat]
    BY <2>1
  <2>3. ASSUME NEW s \in S \ stop
        PROVE  next[s] \in S /\ measure[next[s]] < measure[s]
    <3>1. s \in S /\ s.front # {}
      BY DEF MarkEnds
    <3>2. MarkRound(m, s) \in S /\ MarkMeasure(D, MarkRound(m, s)) < MarkMeasure(D, s)
      BY <3>1, MarkRoundIn, MarkMeasureFalls
    <3> HIDE DEF S
    <3> QED  BY <3>1, <3>2
  <2> HIDE DEF measure, S, stop, next
  <2> QED  BY <2>2, <2>3 DEF Falls
<1>2. ASSUME NEW g PROVE IsLoop(g, S, stop, res, next) <=> g = Body(g)
  <2>1. ASSUME NEW s \in S
        PROVE  (IF s \in stop THEN res[s] ELSE g[next[s]]) =
                 LET reached == UNION {mark_value(m.heap[v]) : v \in s.front}
                     now == s.marked \cup s.front
                 IN  IF s.front = {} THEN s.marked
                     ELSE g[[front |-> (reached \cap D) \ now, marked |-> now]]
    <3>1. s \in stop <=> s.front = {}
      BY DEF MarkEnds
    <3>2. (UNION {mark_value(m.heap[v]) : v \in s.front}) \cap D = PointedTo(m, s.front)
      BY DEF PointedTo
    <3>3. next[s] = MarkRound(m, s) /\ res[s] = s.marked
      OBVIOUS
    <3> HIDE DEF stop, next, res, S
    <3> QED  BY <3>1, <3>2, <3>3 DEF MarkRound
  <2>2. [s \in S |-> IF s \in stop THEN res[s] ELSE g[next[s]]] = Body(g)
    <3>1. S = [front : SUBSET D, marked : SUBSET D]
      BY DEF MarkStates
    <3> HIDE DEF S, stop, next, res
    <3> QED  BY <2>1, <3>1
  <2> HIDE DEF Body
  <2> QED  BY <2>2 DEF IsLoop
<1>3. mark = Body(mark)
  <2>1. \E g : IsLoop(g, S, stop, res, next)
    <3> HIDE DEF S, stop, res, next, measure
    <3> QED  BY <1>1, LoopDefined
  <2>2. \E g : g = Body(g)
    <3> HIDE DEF Body, S, stop, res, next
    <3> QED  BY <2>1, <1>2
  <2> HIDE DEF Body
  <2> QED  BY <2>2
<1>4. IsLoop(mark, S, stop, res, next)
  <2> HIDE DEF Body, mark, S, stop, res, next
  <2> QED  BY <1>2, <1>3
<1>5. Keeps(inv, good, S, stop, res, next)
  <2>1. inv \subseteq S
    BY DEF MarkInv
  <2>2. \A s \in inv : next[s] \in inv
    BY <2>1, MarkRoundKeeps
  <2>3. ASSUME NEW s \in inv \cap stop PROVE res[s] \in good
    <3>1. res[s] = s.marked /\ s.front = {} /\ s.marked \in SUBSET D
      BY <2>1 DEF MarkEnds, MarkStates
    <3>2. /\ roots \cap D \subseteq s.marked
          /\ PointedTo(m, s.marked) \subseteq s.marked
          /\ \A A : roots \cap D \subseteq A /\ Closed(m, A) => s.marked \subseteq A
      BY <3>1 DEF MarkInv
    <3>3. Closed(m, s.marked)
      BY <3>1, <3>2 DEF Closed, PointedTo
    <3>4. Exact(m, roots, s.marked)
      BY <3>2, <3>3 DEF Exact
    <3> QED  BY <3>1, <3>4
  <2> HIDE DEF inv, good, S, stop, res, next
  <2> QED  BY <2>1, <2>2, <2>3 DEF Keeps
<1>6. first \in inv
  <2>1. first \in S
    BY DEF MarkStates
  <2>2. PointedTo(m, first.marked) = {}
    BY DEF PointedTo
  <2>3. first.marked \cup first.front = roots \cap D
    OBVIOUS
  <2> HIDE DEF first
  <2> QED  BY <2>1, <2>2, <2>3 DEF MarkInv
<1>7. mark[first] \in good
  <2> HIDE DEF inv, good, S, stop, res, next, mark, first, measure
  <2> QED  BY <1>1, <1>4, <1>5, <1>6, LoopRule
<1>8. Marked(m, roots) = mark[first]
  BY DEF Marked
<1> HIDE DEF mark, first
<1> QED  BY <1>7, <1>8

(* The collector of alloc.c frees exactly the garbage: what collect_garbage     *)
(* leaves in the heap is the least set that has every object the global        *)
(* environment and the evaluation contexts point to, and every object that one *)
(* of its own points to; and it changes no object that it leaves.              *)
THEOREM CollectsExactlyGarbage ==
    ASSUME NEW m, IsFiniteSet(DOMAIN m.heap), m.gc = TRUE, "heap" \in DOMAIN m
    PROVE  LET heap == collect_garbage(m).heap
           IN  /\ Exact(m, {m.global} \cup mark_eval_stack(m), DOMAIN heap)
               /\ \A v \in DOMAIN heap : heap[v] = m.heap[v]
<1>1. collect_garbage(m).heap = [v \in Reachable(m) |-> m.heap[v]]
  BY DEF collect_garbage, sweep
<1>2. Exact(m, {m.global} \cup mark_eval_stack(m), Reachable(m))
  BY MarkedIsExact DEF Reachable
<1> HIDE DEF collect_garbage, Reachable, Exact
<1> QED  BY <1>1, <1>2
=============================================================================
