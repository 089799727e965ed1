----------------------------- MODULE CacheProofs -----------------------------
(****************************************************************************)
(* Theorems about the cache simulator, for every chain of caches and every  *)
(* memory.                                                                  *)
(*                                                                          *)
(* Serves(A, b, q) is what a level with the functions b promises the level  *)
(* above it about the addresses A: in a sound state a read returns the byte *)
(* of the view, a write changes that byte of it, and the state stays sound. *)
(* The memory serves (MemoryServes); a cache over a level that serves does  *)
(* so too, since a clean line has the bytes of the next level and a dirty   *)
(* one is written back before it is given up (CacheServes).  So all levels  *)
(* serve, up from the memory (LevelsServe), and the invariant CacheInv is   *)
(* that the first level is in a sound state.  HistoryInv adds that the      *)
(* history of each set of the first cache agrees with its lines.            *)
(****************************************************************************)
EXTENDS CacheSim, Loops, FiniteSetTheorems

(****************************************************************************)
(* Addresses.                                                               *)
(****************************************************************************)

(* Where the byte of a line's block at an offset belongs. *)
Place(c, tag, set_no, o) == get_block_start_from_line_info(c, tag, set_no) + o

(* The parts of a geometry are positive numbers. *)
LEMMA GeometryFields ==
    ASSUME NEW c \in Geometry
    PROVE  /\ c.block_size \in Nat \ {0}
           /\ c.num_sets \in Nat \ {0}
           /\ c.lines_per_set \in Nat \ {0}
BY DEF Geometry, PowersOfTwo

(* Quotient and remainder give the number back. *)
LEMMA Dividing ==
    ASSUME NEW a \in Nat, NEW d \in Nat \ {0}
    PROVE  /\ a \div d \in Nat
           /\ a % d \in 0..(d - 1)
           /\ a = d * (a \div d) + (a % d)
OBVIOUS

(* A number built from a quotient and a remainder has those. *)
LEMMA Quotient ==
    ASSUME NEW q \in Nat, NEW d \in Nat \ {0}, NEW r \in 0..(d - 1)
    PROVE  (d * q + r) \div d = q /\ (d * q + r) % d = r
OBVIOUS

(* The line that decompose_address selects for an address begins at the     *)
(* address's block, and has its byte at the offset.                         *)
LEMMA Decomposed ==
    ASSUME NEW c \in Geometry, NEW a \in Address,
           NEW d, d = decompose_address(c, a)
    PROVE  /\ d.tag \in Nat /\ d.set \in SetNos(c) /\ d.offset \in Offsets(c)
           /\ get_block_start_from_line_info(c, d.tag, d.set)
                = get_block_start_from_address(c, a)
           /\ Place(c, d.tag, d.set, d.offset) = a
<1> DEFINE B == c.block_size
           S == c.num_sets
           q == a \div B
<1>1. B \in Nat \ {0} /\ S \in Nat \ {0} /\ a \in Nat
  BY GeometryFields DEF Address
<1>2. /\ d.tag = q \div S /\ d.set = q % S /\ d.offset = a % B
  BY DEF decompose_address
<1> HIDE DEF B, S
<1>3. q \in Nat /\ a % B \in 0..(B - 1) /\ a = B * q + (a % B)
  BY <1>1, Dividing
<1> HIDE DEF q
<1>4. q \div S \in Nat /\ q % S \in 0..(S - 1) /\ q = S * (q \div S) + (q % S)
  BY <1>1, <1>3, Dividing
<1>5. get_block_start_from_line_info(c, d.tag, d.set) = (d.tag * S + d.set) * B
  BY DEF get_block_start_from_line_info, S, B
<1>6. get_block_start_from_address(c, a) = a - (a % B)
  BY DEF get_block_start_from_address, B
<1>7. (d.tag * S + d.set) * B = a - (a % B)
  <2>1. S * d.tag = d.tag * S
    BY <1>1, <1>2, <1>4
  <2>2. d.tag * S + d.set = q
    BY <1>2, <1>4, <2>1
  <2>3. q * B = B * q
    BY <1>1, <1>3
  <2>4. a % B \in Int
    BY <1>1, <1>3
  <2> QED  BY <1>1, <1>3, <2>2, <2>3, <2>4
<1>8. Place(c, d.tag, d.set, d.offset) = (a - (a % B)) + (a % B)
  BY <1>2, <1>5, <1>7 DEF Place
<1> QED  BY <1>1, <1>2, <1>3, <1>4, <1>5, <1>6, <1>7, <1>8
         DEF SetNos, Offsets, S, B

(* The byte at an offset of a line's block has the line's tag, set and      *)
(* offset as its address: decomposing undoes                                *)
(* get_block_start_from_line_info.                                          *)
LEMMA Composed ==
    ASSUME NEW c \in Geometry, NEW tag \in Nat, NEW set_no \in SetNos(c),
           NEW o \in Offsets(c), NEW a, a = Place(c, tag, set_no, o)
    PROVE  /\ a \in Address
           /\ decompose_address(c, a) = [tag |-> tag, set |-> set_no, offset |-> o]
           /\ get_block_start_from_address(c, a)
                = get_block_start_from_line_info(c, tag, set_no)
<1> DEFINE B == c.block_size
           S == c.num_sets
           q == tag * S + set_no
<1>1. B \in Nat \ {0} /\ S \in Nat \ {0}
  BY GeometryFields
<1>2. set_no \in 0..(S - 1) /\ o \in 0..(B - 1)
  BY DEF SetNos, Offsets
<1>3. a = q * B + o
  BY DEF Place, get_block_start_from_line_info
<1>4. decompose_address(c, a) =
        [tag |-> (a \div B) \div S, set |-> (a \div B) % S, offset |-> a % B]
  BY DEF decompose_address
<1>5. get_block_start_from_address(c, a) = a - (a % B)
  BY DEF get_block_start_from_address
<1>6. get_block_start_from_line_info(c, tag, set_no) = q * B
  BY DEF get_block_start_from_line_info
<1> HIDE DEF B, S
<1>7. tag * S = S * tag /\ S * tag \in Nat
  BY <1>1
<1>8. q \in Nat /\ q \div S = tag /\ q % S = set_no
  <2>1. q = S * tag + set_no
    BY <1>7
  <2>2. (S * tag + set_no) \div S = tag /\ (S * tag + set_no) % S = set_no
    BY <1>1, <1>2, Quotient
  <2>3. S * tag + set_no \in Nat
    BY <1>1, <1>2, <1>7
  <2> HIDE DEF q
  <2> QED  BY <2>1, <2>2, <2>3
<1> HIDE DEF q
<1>9. q * B = B * q /\ B * q \in Nat
  BY <1>1, <1>8
<1>10. a \in Nat /\ a \div B = q /\ a % B = o
  BY <1>1, <1>2, <1>3, <1>8, <1>9, Quotient
<1>11. a - (a % B) = q * B
  BY <1>1, <1>2, <1>3, <1>9, <1>10
<1> QED  BY <1>4, <1>5, <1>6, <1>8, <1>10, <1>11 DEF Address

-----------------------------------------------------------------------------
(****************************************************************************)
(* Sets and their lines.                                                    *)
(****************************************************************************)

CacheSet(c) == [LineNos(c) -> Line(c)]

(* A set of numbers that is not empty has a least one, and Min is that. *)
LEMMA MinOf ==
    ASSUME NEW S \in SUBSET Nat, S # {}
    PROVE  Min(S) \in S /\ \A k \in S : Min(S) <= k
BY LeastNat DEF Min

(* The victim is a line that is not valid, or, if all are, one whose time   *)
(* of access is the least (choose_victim).                                  *)
LEMMA VictimIs ==
    ASSUME NEW c \in Geometry, NEW set \in CacheSet(c)
    PROVE  /\ choose_victim(set) \in LineNos(c)
           /\ Invalid(set) # {} => choose_victim(set) \in Invalid(set)
           /\ Invalid(set) = {} =>
                \A k \in LineNos(c) : set[choose_victim(set)].last_time_accessed
                                        <= set[k].last_time_accessed
<1> DEFINE Oldest(n) == \A k \in LineNos(c) :
                set[n].last_time_accessed <= set[k].last_time_accessed
<1>1. DOMAIN set = LineNos(c) /\ LineNos(c) \subseteq Nat /\ 0 \in LineNos(c)
  BY GeometryFields DEF CacheSet, LineNos
<1>2. Invalid(set) \in SUBSET LineNos(c)
  BY <1>1 DEF Invalid
<1>3. CASE Invalid(set) # {}
  <2>1. Min(Invalid(set)) \in Invalid(set)
    BY <1>1, <1>2, <1>3, MinOf
  <2> QED  BY <2>1, <1>2, <1>3 DEF choose_victim
<1>4. CASE Invalid(set) = {}
  <2>1. \E n \in LineNos(c) : Oldest(n)
    <3> DEFINE time == [n \in LineNos(c) |-> set[n].last_time_accessed]
    <3>1. time \in [LineNos(c) -> Nat]
      BY <1>1 DEF CacheSet, Line
    <3>2. PICK n \in LineNos(c) : \A k \in LineNos(c) : time[n] <= time[k]
      <4> HIDE DEF time
      <4> QED  BY <1>1, <3>1, LeastState
    <3> QED  BY <3>2
  <2>2. choose_victim(set) = CHOOSE n \in LineNos(c) : Oldest(n)
    BY <1>1, <1>4 DEF choose_victim
  <2> HIDE DEF Oldest
  <2>3. choose_victim(set) \in LineNos(c) /\ Oldest(choose_victim(set))
    BY <2>1, <2>2
  <2> QED  BY <2>3, <1>4 DEF Oldest
<1> QED  BY <1>3, <1>4

(* The line that an access uses is one that hits, else the victim. *)
LEMMA LineForIs ==
    ASSUME NEW c \in Geometry, NEW set \in CacheSet(c), NEW tag
    PROVE  /\ LineFor(set, tag) \in LineNos(c)
           /\ Hits(set, tag) # {} => LineFor(set, tag) \in Hits(set, tag)
           /\ Hits(set, tag) = {} => LineFor(set, tag) = choose_victim(set)
<1>1. Hits(set, tag) \in SUBSET LineNos(c) /\ LineNos(c) \subseteq Nat
  BY DEF Hits, CacheSet, LineNos
<1>2. Hits(set, tag) # {} => Min(Hits(set, tag)) \in Hits(set, tag)
  BY <1>1, MinOf
<1>3. choose_victim(set) \in LineNos(c)
  BY VictimIs
<1> QED  BY <1>1, <1>2, <1>3 DEF LineFor

(* The order of the lines of a set stays typed, and only it changes, when one *)
(* of them is accessed.                                                      *)
LEMMA TouchedIs ==
    ASSUME NEW c \in Geometry, NEW set \in CacheSet(c), NEW n \in LineNos(c)
    PROVE  /\ Touched(c, set, n) \in CacheSet(c)
           /\ \A k \in LineNos(c) :
                /\ Touched(c, set, n)[k].valid = set[k].valid
                /\ Touched(c, set, n)[k].dirty = set[k].dirty
                /\ Touched(c, set, n)[k].tag = set[k].tag
                /\ Touched(c, set, n)[k].block = set[k].block
                /\ Touched(c, set, n)[k].last_time_accessed =
                     IF k = n THEN c.lines_per_set - 1
                     ELSE IF set[k].last_time_accessed > set[n].last_time_accessed
                     THEN set[k].last_time_accessed - 1
                     ELSE set[k].last_time_accessed
<1> DEFINE time(k) == IF k = n THEN c.lines_per_set - 1
                      ELSE IF set[k].last_time_accessed > set[n].last_time_accessed
                      THEN set[k].last_time_accessed - 1
                      ELSE set[k].last_time_accessed
<1>1. DOMAIN set = LineNos(c) /\ \A k \in LineNos(c) : set[k] \in Line(c)
  BY DEF CacheSet
<1>2. Touched(c, set, n) =
        [k \in LineNos(c) |-> [set[k] EXCEPT !.last_time_accessed = time(k)]]
  BY <1>1 DEF Touched
<1>3. \A k \in LineNos(c) : time(k) \in LineNos(c)
  <2> SUFFICES ASSUME NEW k \in LineNos(c) PROVE time(k) \in LineNos(c)
    OBVIOUS
  <2>1. /\ set[k].last_time_accessed \in 0..(c.lines_per_set - 1)
        /\ set[n].last_time_accessed \in 0..(c.lines_per_set - 1)
    BY <1>1 DEF Line, LineNos
  <2>2. c.lines_per_set \in Nat \ {0}
    BY GeometryFields
  <2> QED  BY <2>1, <2>2 DEF LineNos
<1> HIDE DEF time
<1>4. ASSUME NEW k \in LineNos(c)
      PROVE  /\ Touched(c, set, n)[k] \in Line(c)
             /\ Touched(c, set, n)[k].valid = set[k].valid
             /\ Touched(c, set, n)[k].dirty = set[k].dirty
             /\ Touched(c, set, n)[k].tag = set[k].tag
             /\ Touched(c, set, n)[k].block = set[k].block
             /\ Touched(c, set, n)[k].last_time_accessed = time(k)
  <2>1. set[k] \in Line(c) /\ time(k) \in LineNos(c)
    BY <1>1, <1>3
  <2>2. Touched(c, set, n)[k] = [set[k] EXCEPT !.last_time_accessed = time(k)]
    BY <1>2
  <2> QED  BY <2>1, <2>2 DEF Line
<1>5. Touched(c, set, n) \in CacheSet(c)
  BY <1>2, <1>4 DEF CacheSet
<1> QED  BY <1>4, <1>5 DEF time

-----------------------------------------------------------------------------
(****************************************************************************)
(* States of a cache.                                                       *)
(****************************************************************************)

(* The parts of a cache's state, and its lines. *)
LEMMA StateFields ==
    ASSUME NEW c, NEW next, NEW s \in CacheStates(c, next)
    PROVE  /\ s.next \in next.states
           /\ s.stats \in Counters
           /\ s.sets \in [SetNos(c) -> CacheSet(c)]
           /\ \A k \in SetNos(c) : s.sets[k] \in CacheSet(c)
           /\ \A k \in SetNos(c), n \in LineNos(c) : s.sets[k][n] \in Line(c)
BY DEF CacheStates, CacheSet

(* t has the lines of s, but for the line n of set k, which is l. *)
ButLine(c, s, t, k, n, l) ==
    \A j \in SetNos(c), i \in LineNos(c) :
        t.sets[j][i] = IF j = k /\ i = n THEN l ELSE s.sets[j][i]

(* s with u as the state of the next memory and l as line n of set k. *)
WithLine(s, u, k, n, l) == [s EXCEPT !.next = u, !.sets[k][n] = l]

(* A state with one line, and the next memory's state, exchanged. *)
LEMMA ChangeLine ==
    ASSUME NEW c, NEW next, NEW s \in CacheStates(c, next),
           NEW k \in SetNos(c), NEW n \in LineNos(c), NEW l \in Line(c),
           NEW u \in next.states, NEW t, t = WithLine(s, u, k, n, l)
    PROVE  /\ t \in CacheStates(c, next)
           /\ t.stats = s.stats /\ t.next = u
           /\ ButLine(c, s, t, k, n, l)
<1>1. /\ s.sets \in [SetNos(c) -> [LineNos(c) -> Line(c)]]
      /\ s.sets[k] \in [LineNos(c) -> Line(c)]
  BY StateFields DEF CacheSet
<1>2. /\ t.sets = [s.sets EXCEPT ![k] = [s.sets[k] EXCEPT ![n] = l]]
      /\ t.stats = s.stats /\ t.next = u
  BY DEF CacheStates, WithLine
<1>3. t.sets \in [SetNos(c) -> [LineNos(c) -> Line(c)]]
  BY <1>1, <1>2
<1>4. t \in CacheStates(c, next)
  BY <1>3 DEF CacheStates, WithLine
<1>5. ButLine(c, s, t, k, n, l)
  BY <1>1, <1>2 DEF ButLine
<1> QED  BY <1>2, <1>4, <1>5

(* Counting an event changes its counter and nothing else. *)
LEMMA CountedIs ==
    ASSUME NEW c, NEW next, NEW s \in CacheStates(c, next),
           NEW what \in {"reads", "writes", "hits", "misses"}
    PROVE  /\ Counted(s, what) \in CacheStates(c, next)
           /\ Counted(s, what).sets = s.sets
           /\ Counted(s, what).next = s.next
           /\ \A x \in {"reads", "writes", "hits", "misses"} :
                Counted(s, what).stats[x] =
                    IF x = what THEN s.stats[x] + 1 ELSE s.stats[x]
<1>1. s.stats \in Counters
  BY StateFields
<1>2. Counted(s, what) = [s EXCEPT !.stats = [s.stats EXCEPT ![what] = s.stats[what] + 1]]
  BY DEF Counted
<1> DEFINE n == [s.stats EXCEPT ![what] = s.stats[what] + 1]
<1>3. /\ n \in Counters
      /\ \A x \in {"reads", "writes", "hits", "misses"} :
            n[x] = IF x = what THEN s.stats[x] + 1 ELSE s.stats[x]
  BY <1>1 DEF Counters
<1> HIDE DEF n
<1> QED  BY <1>2, <1>3 DEF CacheStates, n

(* The line as evict_cache_line leaves it. *)
EmptyLine(l) == [l EXCEPT !.valid = FALSE, !.dirty = FALSE, !.tag = 0]

(* Emptying a line leaves a state with that line not valid. *)
LEMMA EmptiedIs ==
    ASSUME NEW c, NEW next, NEW s \in CacheStates(c, next),
           NEW k \in SetNos(c), NEW n \in LineNos(c)
    PROVE  /\ EmptyLine(s.sets[k][n]) \in Line(c) /\ ~EmptyLine(s.sets[k][n]).valid
           /\ EmptyLine(s.sets[k][n]).last_time_accessed
                = s.sets[k][n].last_time_accessed
           /\ Emptied(s, k, n) \in CacheStates(c, next)
           /\ Emptied(s, k, n).stats = s.stats
           /\ Emptied(s, k, n).next = s.next
           /\ ButLine(c, s, Emptied(s, k, n), k, n, EmptyLine(s.sets[k][n]))
<1> DEFINE l == s.sets[k][n]
<1>1. l \in Line(c) /\ s.next \in next.states
  BY StateFields
<1>2. /\ EmptyLine(l) \in Line(c) /\ ~EmptyLine(l).valid
      /\ EmptyLine(l).last_time_accessed = l.last_time_accessed
  BY <1>1 DEF Line, EmptyLine
<1>3. Emptied(s, k, n) = WithLine(s, s.next, k, n, EmptyLine(l))
  BY DEF Emptied, CacheStates, WithLine, EmptyLine
<1> HIDE DEF l
<1>4. /\ Emptied(s, k, n) \in CacheStates(c, next)
      /\ Emptied(s, k, n).stats = s.stats
      /\ Emptied(s, k, n).next = s.next
      /\ ButLine(c, s, Emptied(s, k, n), k, n, EmptyLine(l))
  BY <1>1, <1>2, <1>3, ChangeLine
<1> QED  BY <1>2, <1>4 DEF l

-----------------------------------------------------------------------------
(****************************************************************************)
(* What a cache needs of its next memory.  q.sound are the states that the  *)
(* memory's operations keep, q.fit the addresses that they reach without an *)
(* assert that fails, q.view[s] the bytes that a reader finds in state s.   *)
(****************************************************************************)

(* The functions b of a level work on its states. *)
TypedBase(b) ==
    /\ b.start \in b.states
    /\ \A s \in b.states : s.stats \in Counters
    /\ \A s \in b.states, a \in Address :
            LET r == b.read_byte[s][a]
            IN  r.ok \in BOOLEAN /\ r.s \in b.states /\ r.byte \in Byte
    /\ \A s \in b.states, a \in Address, v \in Byte :
            LET r == b.write_byte[s][a][v]
            IN  r.ok \in BOOLEAN /\ r.s \in b.states
    /\ \A s \in b.states : b.reset_stats[s] \in b.states

(* q speaks of the states of b and the addresses A. *)
Describes(A, b, q) ==
    /\ q.fit \in SUBSET A /\ q.sound \in SUBSET b.states
    /\ q.view \in [b.states -> [A -> Byte]]

StartsAs(A, b, q) ==
    /\ b.start \in q.sound
    /\ b.start.stats = NoStats
    /\ \A a \in A : q.view[b.start][a] = 0

(* A read fails out of reach, and else returns the byte shown. *)
ReadsAs(b, q) ==
    \A s \in q.sound, a \in Address :
        LET r == b.read_byte[s][a]
        IN  /\ r.ok <=> a \in q.fit
            /\ r.ok => /\ r.s \in q.sound /\ q.view[r.s] = q.view[s]
                       /\ r.byte = q.view[s][a]
                       /\ r.s.stats.reads = s.stats.reads + 1

(* A write fails out of reach, and else is shown. *)
WritesAs(b, q) ==
    \A s \in q.sound, a \in Address, v \in Byte :
        LET r == b.write_byte[s][a][v]
        IN  /\ r.ok <=> a \in q.fit
            /\ r.ok => /\ r.s \in q.sound
                       /\ q.view[r.s] = [q.view[s] EXCEPT ![a] = v]
                       /\ r.s.stats.reads = s.stats.reads

ResetsAs(b, q) ==
    \A s \in q.sound :
        LET t == b.reset_stats[s]
        IN  t \in q.sound /\ q.view[t] = q.view[s] /\ t.stats = NoStats

Serves(A, b, q) ==
    /\ Describes(A, b, q) /\ StartsAs(A, b, q)
    /\ ReadsAs(b, q) /\ WritesAs(b, q) /\ ResetsAs(b, q)

-----------------------------------------------------------------------------
(****************************************************************************)
(* Writing a block back: the next memory then has its bytes.                *)
(****************************************************************************)

SaveStates(c, b) == [offset : 0..c.block_size, ok : BOOLEAN, s : b.states]

SaveStops(c, x) == x.offset = c.block_size \/ ~x.ok

SaveRound(b, start, block, x) ==
    LET r == b.write_byte[x.s][start + x.offset][block[x.offset]]
    IN  [offset |-> x.offset + 1, ok |-> r.ok, s |-> r.s]

Saved(c, b, start, block, u) ==
    LET write[x \in SaveStates(c, b)] ==
            IF SaveStops(c, x) THEN x ELSE write[SaveRound(b, start, block, x)]
    IN  write[[offset |-> 0, ok |-> TRUE, s |-> u]]

(* write_back_cache_line is the loop of SaveRounds from its first byte on. *)
LEMMA WriteBackIsSaved ==
    ASSUME NEW c, NEW b, NEW s, NEW k, NEW n
    PROVE  LET l == s.sets[k][n]
               last == Saved(c, b, get_block_start_from_line_info(c, l.tag, k),
                             l.block, s.next)
           IN  write_back_cache_line(c, b, s, k, n) =
                    [ok |-> last.ok, s |-> [s EXCEPT !.next = last.s]]
BY DEF write_back_cache_line, Saved, SaveStates, SaveStops, SaveRound

(* A round has a byte left to write unless the loop stops. *)
LEMMA SaveFields ==
    ASSUME NEW c \in Geometry, NEW b, NEW x \in SaveStates(c, b)
    PROVE  /\ x.offset \in 0..c.block_size /\ x.ok \in BOOLEAN /\ x.s \in b.states
           /\ ~SaveStops(c, x) => x.ok /\ x.offset \in Offsets(c)
                                  /\ x.offset + 1 \in 0..c.block_size
BY GeometryFields DEF SaveStates, SaveStops, Offsets

(* A round goes on to the next byte, in a state of the next memory. *)
LEMMA SaveRoundTyped ==
    ASSUME NEW c \in Geometry, NEW b, TypedBase(b), NEW start \in Nat,
           NEW block \in [Offsets(c) -> Byte],
           NEW x \in SaveStates(c, b), ~SaveStops(c, x)
    PROVE  /\ SaveRound(b, start, block, x) \in SaveStates(c, b)
           /\ SaveRound(b, start, block, x).offset = x.offset + 1
<1>1. x.s \in b.states /\ x.offset \in Offsets(c) /\ x.offset + 1 \in 0..c.block_size
  BY SaveFields
<1>2. start + x.offset \in Address /\ block[x.offset] \in Byte
  BY <1>1 DEF Address, Offsets
<1> DEFINE r == b.write_byte[x.s][start + x.offset][block[x.offset]]
<1>3. r.ok \in BOOLEAN /\ r.s \in b.states
  BY <1>1, <1>2 DEF TypedBase
<1>4. SaveRound(b, start, block, x) = [offset |-> x.offset + 1, ok |-> r.ok, s |-> r.s]
  BY DEF SaveRound
<1> HIDE DEF r
<1> QED  BY <1>1, <1>3, <1>4 DEF SaveStates

(* What the rounds keep, the last state has. *)
LEMMA SavedRule ==
    ASSUME NEW c \in Geometry, NEW b, TypedBase(b), NEW start \in Nat,
           NEW block \in [Offsets(c) -> Byte], NEW u \in b.states,
           NEW inv \in SUBSET SaveStates(c, b),
           [offset |-> 0, ok |-> TRUE, s |-> u] \in inv,
           \A x \in inv : ~SaveStops(c, x) => SaveRound(b, start, block, x) \in inv
    PROVE  /\ Saved(c, b, start, block, u) \in inv
           /\ SaveStops(c, Saved(c, b, start, block, u))
<1> DEFINE S == SaveStates(c, b)
           stop == {x \in S : SaveStops(c, x)}
           res == [x \in S |-> x]
           next == [x \in S |-> SaveRound(b, start, block, x)]
           measure == [x \in S |-> c.block_size - x.offset]
           good == {x \in inv : SaveStops(c, x)}
           first == [offset |-> 0, ok |-> TRUE, s |-> u]
           Body(g) == [x \in S |-> IF SaveStops(c, x) THEN x
                                   ELSE g[SaveRound(b, start, block, x)]]
           write == CHOOSE g : g = Body(g)
<1>1. Falls(measure, S, stop, next)
  <2>1. ASSUME NEW x \in S PROVE c.block_size - x.offset \in Nat
    BY SaveFields, GeometryFields
  <2>2. ASSUME NEW x \in S \ stop
        PROVE  next[x] \in S /\ measure[next[x]] < measure[x]
    <3>1. ~SaveStops(c, x) /\ x \in S
      OBVIOUS
    <3>2. /\ SaveRound(b, start, block, x) \in S
          /\ SaveRound(b, start, block, x).offset = x.offset + 1
      BY <3>1, SaveRoundTyped
    <3>3. x.offset \in 0..c.block_size /\ c.block_size \in Nat
      BY <3>1, SaveFields, GeometryFields
    <3> QED  BY <3>1, <3>2, <3>3
  <2> QED  BY <2>1, <2>2 DEF Falls
<1>2. ASSUME NEW g PROVE IsLoop(g, S, stop, res, next) <=> g = Body(g)
  <2>1. [x \in S |-> IF x \in stop THEN res[x] ELSE g[next[x]]] = Body(g)
    OBVIOUS
  <2> QED  BY <2>1 DEF IsLoop
<1>3. write = Body(write)
  <2>1. \E g : IsLoop(g, S, stop, res, next)
    <3> HIDE DEF S, stop, res, next, measure
    <3> QED  BY <1>1, LoopDefined
  <2>2. \E g : g = Body(g)
    BY <2>1, <1>2
  <2> HIDE DEF Body
  <2> QED  BY <2>2
<1>4. IsLoop(write, S, stop, res, next)
  <2> HIDE DEF Body, write
  <2> QED  BY <1>2, <1>3
<1>5. Keeps(inv, good, S, stop, res, next)
  BY DEF Keeps
<1>6. \A x \in inv : write[x] \in good
  <2> HIDE DEF S, stop, res, next, measure, good, write
  <2> QED  BY <1>1, <1>4, <1>5, LoopRule
<1>7. Saved(c, b, start, block, u) = write[first]
  BY DEF Saved
<1> HIDE DEF write
<1> QED  BY <1>6, <1>7

(* The loop ends in a state of the next memory. *)
LEMMA SavedTyped ==
    ASSUME NEW c \in Geometry, NEW b, TypedBase(b), NEW start \in Nat,
           NEW block \in [Offsets(c) -> Byte], NEW u \in b.states
    PROVE  /\ Saved(c, b, start, block, u).ok \in BOOLEAN
           /\ Saved(c, b, start, block, u).s \in b.states
<1> DEFINE S == SaveStates(c, b)
<1>1. [offset |-> 0, ok |-> TRUE, s |-> u] \in S
  BY GeometryFields DEF SaveStates
<1>2. \A x \in S : ~SaveStops(c, x) => SaveRound(b, start, block, x) \in S
  BY SaveRoundTyped
<1>3. Saved(c, b, start, block, u) \in S
  <2> HIDE DEF S
  <2>1. S \in SUBSET SaveStates(c, b)
    BY DEF S
  <2> QED  BY <1>1, <1>2, <2>1, SavedRule
<1> QED  BY <1>3 DEF SaveStates
(* The bytes v, with those of a block instead, up to offset m. *)
Overwritten(c, v, tag, k, block, m) ==
    [a \in DOMAIN v |->
        LET d == decompose_address(c, a)
        IN  IF d.tag = tag /\ d.set = k /\ d.offset < m THEN block[d.offset]
            ELSE v[a]]

(* One more byte of the block, one more place overwritten. *)
LEMMA OverwriteNext ==
    ASSUME NEW c \in Geometry, NEW A \in SUBSET Nat, NEW v \in [A -> Byte],
           NEW tag \in Nat, NEW k \in SetNos(c), NEW o \in Offsets(c),
           NEW block \in [Offsets(c) -> Byte]
    PROVE  Overwritten(c, v, tag, k, block, o + 1) =
             [Overwritten(c, v, tag, k, block, o)
                EXCEPT ![Place(c, tag, k, o)] = block[o]]
<1> DEFINE w == Overwritten(c, v, tag, k, block, o)
           z == Overwritten(c, v, tag, k, block, o + 1)
           p == Place(c, tag, k, o)
<1>1. DOMAIN w = A /\ DOMAIN z = A /\ DOMAIN v = A
  BY DEF Overwritten
<1>2. ASSUME NEW a \in A PROVE z[a] = IF a = p THEN block[o] ELSE w[a]
  <2> DEFINE d == decompose_address(c, a)
  <2>1. /\ w[a] = IF d.tag = tag /\ d.set = k /\ d.offset < o THEN block[d.offset]
                  ELSE v[a]
        /\ z[a] = IF d.tag = tag /\ d.set = k /\ d.offset < o + 1
                  THEN block[d.offset] ELSE v[a]
    BY DEF Overwritten
  <2>2. d.offset \in Offsets(c) /\ Place(c, d.tag, d.set, d.offset) = a
    BY Decomposed DEF Address
  <2>3. d.offset \in Int /\ o \in Int
    BY <2>2 DEF Offsets
  <2>4. a = p => d.tag = tag /\ d.set = k /\ d.offset = o
    BY Composed
  <2>5. d.tag = tag /\ d.set = k /\ d.offset = o => a = p
    BY <2>2
  <2> HIDE DEF d, w, z, p
  <2> QED  BY <2>1, <2>3, <2>4, <2>5
<1>3. z = [a \in A |-> z[a]] /\ w = [a \in A |-> w[a]]
  BY <1>1 DEF Overwritten
<1>4. z = [w EXCEPT ![p] = block[o]]
  <2> HIDE DEF w, z, p
  <2>1. [w EXCEPT ![p] = block[o]] = [a \in A |-> IF a = p THEN block[o] ELSE w[a]]
    BY <1>1
  <2> QED  BY <1>2, <1>3, <2>1
<1> QED  BY <1>4

(* No byte, no place overwritten. *)
LEMMA OverwriteNone ==
    ASSUME NEW c \in Geometry, NEW A \in SUBSET Nat, NEW v \in [A -> Byte],
           NEW tag, NEW k, NEW block
    PROVE  Overwritten(c, v, tag, k, block, 0) = v
<1>1. \A a \in A : ~(decompose_address(c, a).offset < 0)
  BY Decomposed DEF Address, Offsets
<1> QED  BY <1>1 DEF Overwritten

(* The byte of a block, or another where the block does not reach. *)
ByteOf(d, tag, k, block, other) ==
    IF d.tag = tag /\ d.set = k THEN block[d.offset] ELSE other

(* All of the block, whatever the bound is beyond it. *)
LEMMA OverwriteAll ==
    ASSUME NEW c \in Geometry, NEW A \in SUBSET Nat, NEW v \in [A -> Byte],
           NEW tag, NEW k, NEW block, NEW a \in A,
           NEW d, d = decompose_address(c, a)
    PROVE  Overwritten(c, v, tag, k, block, c.block_size)[a] =
                ByteOf(d, tag, k, block, v[a])
<1>1. decompose_address(c, a).offset < c.block_size
  BY Decomposed, GeometryFields DEF Address, Offsets
<1> QED  BY <1>1 DEF Overwritten, ByteOf

(* A block saved from the state u makes the next memory show the bytes w. *)
Saves(q, last, u, w) ==
    /\ last.ok /\ last.s \in q.sound /\ q.view[last.s] = w
    /\ last.s.stats.reads = u.stats.reads

(* Writing a block back to a memory that serves leaves the memory with the  *)
(* bytes of the block in its place, and with no assert failed.              *)
LEMMA SavedIs ==
    ASSUME NEW c \in Geometry, NEW A \in SUBSET Nat, NEW b, TypedBase(b),
           NEW q, Serves(A, b, q),
           NEW tag \in Nat, NEW k \in SetNos(c),
           NEW start, start = get_block_start_from_line_info(c, tag, k),
           NEW block \in [Offsets(c) -> Byte], NEW u \in q.sound,
           \A o \in Offsets(c) : Place(c, tag, k, o) \in q.fit,
           NEW last, last = Saved(c, b, start, block, u)
    PROVE  Saves(q, last, u,
                 Overwritten(c, q.view[u], tag, k, block, c.block_size))
<1> DEFINE S == SaveStates(c, b)
           Good(x) == /\ x.ok /\ x.s \in q.sound
                      /\ q.view[x.s] = Overwritten(c, q.view[u], tag, k, block, x.offset)
                      /\ x.s.stats.reads = u.stats.reads
           inv == {x \in S : Good(x)}
           first == [offset |-> 0, ok |-> TRUE, s |-> u]
<1>1. u \in b.states /\ q.view[u] \in [A -> Byte]
  BY DEF Serves, Describes
<1>2. first \in inv
  <2>1. first \in S
    BY <1>1, GeometryFields DEF SaveStates
  <2>2. Good(first)
    BY <1>1, OverwriteNone
  <2> QED  BY <2>1, <2>2
<1>3. ASSUME NEW x \in inv, ~SaveStops(c, x)
      PROVE  SaveRound(b, start, block, x) \in inv
  <2>1. x \in S /\ Good(x)
    OBVIOUS
  <2>2. x.offset \in Offsets(c)
    BY <1>3, <2>1, SaveFields
  <2> DEFINE a == Place(c, tag, k, x.offset)
             v == block[x.offset]
             r == b.write_byte[x.s][a][v]
             y == SaveRound(b, start, block, x)
  <2>3. a \in q.fit /\ a \in Address /\ v \in Byte
    BY <2>2, Composed
  <2>4. y = [offset |-> x.offset + 1, ok |-> r.ok, s |-> r.s]
    BY DEF SaveRound, Place
  <2>5. x.s \in q.sound
    BY <2>1
  <2>6. /\ r.ok /\ r.s \in q.sound
        /\ q.view[r.s] = [q.view[x.s] EXCEPT ![a] = v]
        /\ r.s.stats.reads = x.s.stats.reads
    <3> HIDE DEF a, v
    <3> QED  BY <2>3, <2>5 DEF Serves, WritesAs
  <2>7. q.view[r.s] = Overwritten(c, q.view[u], tag, k, block, x.offset + 1)
    <3>1. q.view[x.s] = Overwritten(c, q.view[u], tag, k, block, x.offset)
      BY <2>1
    <3>2. Overwritten(c, q.view[u], tag, k, block, x.offset + 1) =
            [Overwritten(c, q.view[u], tag, k, block, x.offset) EXCEPT ![a] = v]
      BY <1>1, <2>2, OverwriteNext
    <3> HIDE DEF a, v, r
    <3> QED  BY <3>1, <3>2, <2>6
  <2>8. y \in S
    <3>1. start \in Nat
      <4>1. 0 \in Offsets(c)
        BY GeometryFields DEF Offsets
      <4>2. Place(c, tag, k, 0) \in Nat
        BY <4>1, Composed DEF Address
      <4>3. start \in Int
        BY GeometryFields DEF get_block_start_from_line_info, SetNos
      <4> QED  BY <4>2, <4>3 DEF Place
    <3> QED  BY <1>3, <2>1, <3>1, SaveRoundTyped
  <2> HIDE DEF r, y, S
  <2>9. Good(y)
    BY <2>1, <2>4, <2>6, <2>7
  <2> HIDE DEF Good
  <2>10. y \in inv
    BY <2>8, <2>9
  <2> QED  BY <2>10 DEF y
<1>4. start \in Nat
  <2>1. 0 \in Offsets(c)
    BY GeometryFields DEF Offsets
  <2>2. Place(c, tag, k, 0) \in Nat
    BY <2>1, Composed DEF Address
  <2>3. start \in Int
    BY GeometryFields DEF get_block_start_from_line_info, SetNos
  <2> QED  BY <2>2, <2>3 DEF Place
<1>5. last \in inv /\ SaveStops(c, last)
  <2> HIDE DEF inv
  <2>1. inv \in SUBSET SaveStates(c, b)
    BY DEF inv
  <2> QED  BY <1>1, <1>2, <1>3, <1>4, <2>1, SavedRule
<1>6. Good(last)
  BY <1>5
<1>7. last.offset = c.block_size
  BY <1>5, <1>6 DEF SaveStops
<1> QED  BY <1>6, <1>7 DEF Saves
-----------------------------------------------------------------------------
(****************************************************************************)
(* Loading a block: the line then has the next memory's bytes.              *)
(****************************************************************************)

LoadStates(c, b) == [offset : 0..c.block_size, ok : BOOLEAN, s : b.states,
                     block : [Offsets(c) -> Byte]]

LoadRound(b, start, x) ==
    LET r == b.read_byte[x.s][start + x.offset]
    IN  [offset |-> x.offset + 1, ok |-> r.ok, s |-> r.s,
         block |-> [x.block EXCEPT ![x.offset] = r.byte]]

Loaded(c, b, start, block, u) ==
    LET read[x \in LoadStates(c, b)] ==
            IF SaveStops(c, x) THEN x ELSE read[LoadRound(b, start, x)]
    IN  read[[offset |-> 0, ok |-> TRUE, s |-> u, block |-> block]]

(* load_cache_line is the loop of LoadRounds from its first byte on. *)
LEMMA LoadIsLoaded ==
    ASSUME NEW c, NEW b, NEW s, NEW k, NEW n, NEW a, NEW tag
    PROVE  LET l == s.sets[k][n]
               last == Loaded(c, b, get_block_start_from_address(c, a),
                              l.block, s.next)
           IN  load_cache_line(c, b, s, k, n, a, tag) =
                 [ok |-> last.ok,
                  s |-> [s EXCEPT !.next = last.s,
                          !.sets[k][n] = [@ EXCEPT !.valid = TRUE,
                              !.dirty = FALSE, !.tag = tag, !.block = last.block]]]
BY DEF load_cache_line, Loaded, LoadStates, SaveStops, LoadRound

(* A round has a byte left to read unless the loop stops. *)
LEMMA LoadFields ==
    ASSUME NEW c \in Geometry, NEW b, NEW x \in LoadStates(c, b)
    PROVE  /\ x.offset \in 0..c.block_size /\ x.ok \in BOOLEAN /\ x.s \in b.states
           /\ x.block \in [Offsets(c) -> Byte]
           /\ ~SaveStops(c, x) => x.ok /\ x.offset \in Offsets(c)
                                  /\ x.offset + 1 \in 0..c.block_size
BY GeometryFields DEF LoadStates, SaveStops, Offsets

(* A round goes on to the next byte, in a state of the next memory. *)
LEMMA LoadRoundTyped ==
    ASSUME NEW c \in Geometry, NEW b, TypedBase(b), NEW start \in Nat,
           NEW x \in LoadStates(c, b), ~SaveStops(c, x)
    PROVE  /\ LoadRound(b, start, x) \in LoadStates(c, b)
           /\ LoadRound(b, start, x).offset = x.offset + 1
<1>1. /\ x.s \in b.states /\ x.offset \in Offsets(c)
      /\ x.offset + 1 \in 0..c.block_size /\ x.block \in [Offsets(c) -> Byte]
  BY LoadFields
<1>2. start + x.offset \in Address
  BY <1>1 DEF Address, Offsets
<1> DEFINE r == b.read_byte[x.s][start + x.offset]
<1>3. r.ok \in BOOLEAN /\ r.s \in b.states /\ r.byte \in Byte
  BY <1>1, <1>2 DEF TypedBase
<1>4. LoadRound(b, start, x) =
        [offset |-> x.offset + 1, ok |-> r.ok, s |-> r.s,
         block |-> [x.block EXCEPT ![x.offset] = r.byte]]
  BY DEF LoadRound
<1> HIDE DEF r
<1>5. [x.block EXCEPT ![x.offset] = r.byte] \in [Offsets(c) -> Byte]
  BY <1>1, <1>3
<1> QED  BY <1>1, <1>3, <1>4, <1>5 DEF LoadStates

(* What the rounds keep, the last state has. *)
LEMMA LoadedRule ==
    ASSUME NEW c \in Geometry, NEW b, TypedBase(b), NEW start \in Nat,
           NEW block \in [Offsets(c) -> Byte], NEW u \in b.states,
           NEW inv \in SUBSET LoadStates(c, b),
           [offset |-> 0, ok |-> TRUE, s |-> u, block |-> block] \in inv,
           \A x \in inv : ~SaveStops(c, x) => LoadRound(b, start, x) \in inv
    PROVE  /\ Loaded(c, b, start, block, u) \in inv
           /\ SaveStops(c, Loaded(c, b, start, block, u))
<1> DEFINE S == LoadStates(c, b)
           stop == {x \in S : SaveStops(c, x)}
           res == [x \in S |-> x]
           next == [x \in S |-> LoadRound(b, start, x)]
           measure == [x \in S |-> c.block_size - x.offset]
           good == {x \in inv : SaveStops(c, x)}
           first == [offset |-> 0, ok |-> TRUE, s |-> u, block |-> block]
           Body(g) == [x \in S |-> IF SaveStops(c, x) THEN x
                                   ELSE g[LoadRound(b, start, x)]]
           read == CHOOSE g : g = Body(g)
<1>1. Falls(measure, S, stop, next)
  <2>1. ASSUME NEW x \in S PROVE c.block_size - x.offset \in Nat
    BY LoadFields, GeometryFields
  <2>2. ASSUME NEW x \in S \ stop
        PROVE  next[x] \in S /\ measure[next[x]] < measure[x]
    <3>1. ~SaveStops(c, x) /\ x \in S
      OBVIOUS
    <3>2. /\ LoadRound(b, start, x) \in S
          /\ LoadRound(b, start, x).offset = x.offset + 1
      BY <3>1, LoadRoundTyped
    <3>3. x.offset \in 0..c.block_size /\ c.block_size \in Nat
      BY <3>1, LoadFields, GeometryFields
    <3> QED  BY <3>1, <3>2, <3>3
  <2> QED  BY <2>1, <2>2 DEF Falls
<1>2. ASSUME NEW g PROVE IsLoop(g, S, stop, res, next) <=> g = Body(g)
  <2>1. [x \in S |-> IF x \in stop THEN res[x] ELSE g[next[x]]] = Body(g)
    OBVIOUS
  <2> QED  BY <2>1 DEF IsLoop
<1>3. read = Body(read)
  <2>1. \E g : IsLoop(g, S, stop, res, next)
    <3> HIDE DEF S, stop, res, next, measure
    <3> QED  BY <1>1, LoopDefined
  <2>2. \E g : g = Body(g)
    BY <2>1, <1>2
  <2> HIDE DEF Body
  <2> QED  BY <2>2
<1>4. IsLoop(read, S, stop, res, next)
  <2> HIDE DEF Body, read
  <2> QED  BY <1>2, <1>3
<1>5. Keeps(inv, good, S, stop, res, next)
  BY DEF Keeps
<1>6. \A x \in inv : read[x] \in good
  <2> HIDE DEF S, stop, res, next, measure, good, read
  <2> QED  BY <1>1, <1>4, <1>5, LoopRule
<1>7. Loaded(c, b, start, block, u) = read[first]
  BY DEF Loaded
<1> HIDE DEF read
<1> QED  BY <1>6, <1>7

(* The loop ends with a block of bytes and a state of the next memory. *)
LEMMA LoadedTyped ==
    ASSUME NEW c \in Geometry, NEW b, TypedBase(b), NEW start \in Nat,
           NEW block \in [Offsets(c) -> Byte], NEW u \in b.states
    PROVE  /\ Loaded(c, b, start, block, u).ok \in BOOLEAN
           /\ Loaded(c, b, start, block, u).s \in b.states
           /\ Loaded(c, b, start, block, u).block \in [Offsets(c) -> Byte]
<1> DEFINE S == LoadStates(c, b)
<1>1. [offset |-> 0, ok |-> TRUE, s |-> u, block |-> block] \in S
  BY GeometryFields DEF LoadStates
<1>2. \A x \in S : ~SaveStops(c, x) => LoadRound(b, start, x) \in S
  BY LoadRoundTyped
<1>3. Loaded(c, b, start, block, u) \in S
  <2> HIDE DEF S
  <2>1. S \in SUBSET LoadStates(c, b)
    BY DEF S
  <2> QED  BY <1>1, <1>2, <2>1, LoadedRule
<1> QED  BY <1>3 DEF LoadStates

(* A block loaded in the state u, from the address start on. *)
Loads(c, q, last, u, start) ==
    /\ last.ok <=> \A o \in Offsets(c) : start + o \in q.fit
    /\ last.ok =>
         /\ last.s \in q.sound /\ q.view[last.s] = q.view[u]
         /\ last.s.stats.reads = u.stats.reads + c.block_size
         /\ \A o \in Offsets(c) : last.block[o] = q.view[u][start + o]

(* Loading a block from a memory that serves reads its bytes, each counted, *)
(* and leaves what the memory shows.                                        *)
LEMMA LoadedIs ==
    ASSUME NEW c \in Geometry, NEW A \in SUBSET Nat, NEW b, TypedBase(b),
           NEW q, Serves(A, b, q), NEW start \in Nat,
           NEW block \in [Offsets(c) -> Byte], NEW u \in q.sound,
           NEW last, last = Loaded(c, b, start, block, u)
    PROVE  Loads(c, q, last, u, start)
<1> DEFINE S == LoadStates(c, b)
           Going(x) == /\ x.s \in q.sound /\ q.view[x.s] = q.view[u]
                       /\ x.s.stats.reads = u.stats.reads + x.offset
                       /\ \A o \in Offsets(c) : o < x.offset =>
                            start + o \in q.fit /\ x.block[o] = q.view[u][start + o]
           Good(x) == /\ x.ok => Going(x)
                      /\ ~x.ok => \E o \in Offsets(c) : start + o \notin q.fit
           inv == {x \in S : Good(x)}
           first == [offset |-> 0, ok |-> TRUE, s |-> u, block |-> block]
<1>1. u \in b.states /\ u.stats.reads \in Nat
  BY DEF Serves, Describes, TypedBase, Counters
<1>2. first \in inv
  <2>1. first \in S
    BY <1>1, GeometryFields DEF LoadStates
  <2>2. \A o \in Offsets(c) : ~(o < 0)
    BY DEF Offsets
  <2>3. Good(first)
    BY <1>1, <2>2
  <2> QED  BY <2>1, <2>3
<1>3. ASSUME NEW x \in inv, ~SaveStops(c, x)
      PROVE  LoadRound(b, start, x) \in inv
  <2>1. x \in S /\ Good(x)
    OBVIOUS
  <2>2. x.offset \in Offsets(c) /\ x.ok /\ x.block \in [Offsets(c) -> Byte]
    BY <1>3, <2>1, LoadFields
  <2> DEFINE a == start + x.offset
             r == b.read_byte[x.s][a]
             y == LoadRound(b, start, x)
  <2>3. a \in Address /\ x.s \in q.sound /\ Going(x)
    BY <2>1, <2>2 DEF Address, Offsets
  <2>4. y = [offset |-> x.offset + 1, ok |-> r.ok, s |-> r.s,
             block |-> [x.block EXCEPT ![x.offset] = r.byte]]
    BY DEF LoadRound
  <2>5. /\ r.ok <=> a \in q.fit
        /\ r.ok => /\ r.s \in q.sound /\ q.view[r.s] = q.view[x.s]
                   /\ r.byte = q.view[x.s][a]
                   /\ r.s.stats.reads = x.s.stats.reads + 1
    <3> HIDE DEF a
    <3> QED  BY <2>3 DEF Serves, ReadsAs
  <2>6. y \in S
    BY <1>3, <2>1, LoadRoundTyped
  <2>7. ASSUME r.ok PROVE Going(y)
    <3>1. ASSUME NEW o \in Offsets(c), o < x.offset + 1
          PROVE  start + o \in q.fit /\ y.block[o] = q.view[u][start + o]
      <4> HIDE DEF r, y
      <4>1. CASE o = x.offset
        BY <2>2, <2>3, <2>4, <2>5, <2>7, <4>1
      <4>2. CASE o # x.offset
        <5>1. o < x.offset
          BY <2>2, <3>1, <4>2 DEF Offsets
        <5> QED  BY <2>2, <2>3, <2>4, <4>2, <5>1
      <4> QED  BY <4>1, <4>2
    <3>2. x.offset \in Nat
      BY <2>2 DEF Offsets
    <3>3. r.s.stats.reads = u.stats.reads + (x.offset + 1)
      <4> HIDE DEF r
      <4> QED  BY <1>1, <2>3, <2>5, <2>7, <3>2
    <3>4. y.s = r.s /\ y.offset = x.offset + 1
      BY <2>4
    <3> HIDE DEF r, y
    <3> QED  BY <2>3, <2>5, <2>7, <3>1, <3>3, <3>4
  <2>8. ASSUME ~r.ok PROVE \E o \in Offsets(c) : start + o \notin q.fit
    BY <2>2, <2>5, <2>8
  <2>9. y.ok = r.ok
    BY <2>4
  <2>10. Good(y)
    <3> HIDE DEF y, r, Going
    <3> QED  BY <2>7, <2>8, <2>9
  <2> HIDE DEF Good, S
  <2>11. y \in inv
    <3> HIDE DEF y
    <3> QED  BY <2>6, <2>10
  <2> QED  BY <2>11
<1>4. last \in inv /\ SaveStops(c, last)
  <2> HIDE DEF inv
  <2>1. inv \in SUBSET LoadStates(c, b)
    BY DEF inv
  <2> QED  BY <1>1, <1>2, <1>3, <2>1, LoadedRule
<1>5. Good(last) /\ last.ok \in BOOLEAN
  BY <1>4 DEF LoadStates
<1>6. last.ok => last.offset = c.block_size
  BY <1>4 DEF SaveStops
<1>7. \A o \in Offsets(c) : o < c.block_size
  BY GeometryFields DEF Offsets
<1>8. last.ok => Going(last) /\ \A o \in Offsets(c) : o < last.offset
  BY <1>5, <1>6, <1>7
<1> QED  BY <1>5, <1>6, <1>8 DEF Loads
-----------------------------------------------------------------------------
(****************************************************************************)
(* What holds of a cache between two accesses, and the bytes it shows.      *)
(****************************************************************************)

(* The line holds the byte of address a, in set k. *)
Holds(c, l, k, a) ==
    /\ l.valid
    /\ decompose_address(c, a).tag = l.tag
    /\ decompose_address(c, a).set = k

(* No block is in two lines. *)
Unique(c, s) ==
    \A k \in SetNos(c), n, i \in LineNos(c) :
        /\ s.sets[k][n].valid /\ s.sets[k][i].valid
        /\ s.sets[k][n].tag = s.sets[k][i].tag
        => n = i

(* Every block in a line is within the reach of the next memory. *)
Fitting(c, q, s) ==
    \A k \in SetNos(c), n \in LineNos(c), o \in Offsets(c) :
        s.sets[k][n].valid => Place(c, s.sets[k][n].tag, k, o) \in q.fit

(* A line that is not dirty has the bytes of the next memory. *)
CleanIsSame(c, q, s) ==
    \A k \in SetNos(c), n \in LineNos(c), o \in Offsets(c) :
        s.sets[k][n].valid /\ ~s.sets[k][n].dirty =>
            q.view[s.next][Place(c, s.sets[k][n].tag, k, o)] = s.sets[k][n].block[o]

Coherent(c, q, s) ==
    /\ s.next \in q.sound
    /\ Unique(c, s) /\ Fitting(c, q, s) /\ CleanIsSame(c, q, s)

(* What a reader of the cache finds at address a. *)
Shown(c, q, s, a) == SeenThrough(c, s, q.view[s.next])[a]

(* A valid line holds the addresses of its block. *)
LEMMA HeldPlaces ==
    ASSUME NEW c \in Geometry, NEW k \in SetNos(c), NEW l \in Line(c), l.valid,
           NEW o \in Offsets(c)
    PROVE  /\ Holds(c, l, k, Place(c, l.tag, k, o))
           /\ decompose_address(c, Place(c, l.tag, k, o)).offset = o
           /\ Place(c, l.tag, k, o) \in Address
BY Composed DEF Holds, Line

(* An address that a line holds is a place of its block. *)
LEMMA HeldIsPlace ==
    ASSUME NEW c \in Geometry, NEW k, NEW l, NEW a \in Address, Holds(c, l, k, a)
    PROVE  /\ decompose_address(c, a).offset \in Offsets(c)
           /\ k \in SetNos(c)
           /\ Place(c, l.tag, k, decompose_address(c, a).offset) = a
BY Decomposed DEF Holds

(* What a reader finds at an address is the byte of the one line that holds *)
(* it, or, if none does, the next memory's.                                 *)
LEMMA ShownIs ==
    ASSUME NEW c \in Geometry, NEW A \in SUBSET Nat, NEW b, NEW q,
           Describes(A, b, q), NEW s \in CacheStates(c, b), Unique(c, s),
           NEW a \in A, NEW d, d = decompose_address(c, a)
    PROVE  /\ \A n \in LineNos(c) : Holds(c, s.sets[d.set][n], d.set, a)
                => Shown(c, q, s, a) = s.sets[d.set][n].block[d.offset]
           /\ (\A n \in LineNos(c) : ~Holds(c, s.sets[d.set][n], d.set, a))
                => Shown(c, q, s, a) = q.view[s.next][a]
           /\ Shown(c, q, s, a) \in Byte
<1> DEFINE set == s.sets[d.set]
           hits == Hits(set, d.tag)
<1>1. d.set \in SetNos(c) /\ d.offset \in Offsets(c)
  BY Decomposed DEF Address
<1>2. set \in CacheSet(c) /\ s.next \in b.states
  BY <1>1, StateFields
<1>3. q.view[s.next] \in [A -> Byte]
  BY <1>2 DEF Describes
<1>4. Shown(c, q, s, a) = IF hits # {} THEN set[Min(hits)].block[d.offset]
                          ELSE q.view[s.next][a]
  BY <1>3 DEF Shown, SeenThrough
<1>5. hits = {n \in LineNos(c) : Holds(c, set[n], d.set, a)}
  BY <1>2 DEF Hits, Holds, CacheSet
<1>6. hits # {} => Min(hits) \in hits
  <2>1. hits \in SUBSET Nat
    BY <1>5 DEF LineNos
  <2> HIDE DEF hits
  <2> QED  BY <2>1, MinOf
<1>7. \A n, i \in hits : n = i
  <2> SUFFICES ASSUME NEW n \in hits, NEW i \in hits PROVE n = i
    OBVIOUS
  <2>1. /\ n \in LineNos(c) /\ i \in LineNos(c)
        /\ set[n].valid /\ set[i].valid /\ set[n].tag = set[i].tag
    BY <1>5 DEF Holds
  <2> QED  BY <1>1, <2>1 DEF Unique
<1>8. \A n \in LineNos(c) : set[n].block[d.offset] \in Byte
  BY <1>1, <1>2 DEF CacheSet, Line
<1> HIDE DEF hits
<1>9. ASSUME NEW n \in LineNos(c), Holds(c, set[n], d.set, a)
      PROVE  Shown(c, q, s, a) = set[n].block[d.offset]
  <2>1. n \in hits
    BY <1>5, <1>9
  <2>2. Min(hits) = n
    BY <1>6, <1>7, <2>1
  <2> HIDE DEF set
  <2> QED  BY <1>4, <2>1, <2>2
<1>10. ASSUME \A n \in LineNos(c) : ~Holds(c, set[n], d.set, a)
       PROVE  Shown(c, q, s, a) = q.view[s.next][a]
  <2>1. hits = {}
    BY <1>5, <1>10
  <2> HIDE DEF set
  <2> QED  BY <1>4, <2>1
<1>11. Shown(c, q, s, a) \in Byte
  <2>1. hits \in SUBSET LineNos(c)
    BY <1>5
  <2>2. q.view[s.next][a] \in Byte
    BY <1>3
  <2> HIDE DEF set
  <2> QED  BY <1>4, <1>6, <1>8, <2>1, <2>2
<1> QED  BY <1>9, <1>10, <1>11

(* As ShownIs states it, for one address. *)
ShownAt(c, q, s, a, d) ==
    /\ \A n \in LineNos(c) : Holds(c, s.sets[d.set][n], d.set, a)
            => Shown(c, q, s, a) = s.sets[d.set][n].block[d.offset]
    /\ (\A n \in LineNos(c) : ~Holds(c, s.sets[d.set][n], d.set, a))
            => Shown(c, q, s, a) = q.view[s.next][a]

(* ShownIs, folded. *)
LEMMA ShownAtIs ==
    ASSUME NEW c \in Geometry, NEW A \in SUBSET Nat, NEW b, NEW q,
           Describes(A, b, q), NEW s \in CacheStates(c, b), Unique(c, s),
           NEW a \in A, NEW d, d = decompose_address(c, a)
    PROVE  ShownAt(c, q, s, a, d)
BY ShownIs DEF ShownAt

(* A line emptied, after the next memory got its bytes if they differ. *)
LEMMA LineEmptied ==
    ASSUME NEW c \in Geometry, NEW A \in SUBSET Nat, NEW b, NEW q,
           Describes(A, b, q),
           NEW s \in CacheStates(c, b), Coherent(c, q, s),
           NEW t \in CacheStates(c, b), t.next \in q.sound,
           NEW k \in SetNos(c), NEW n \in LineNos(c), NEW e, ~e.valid,
           ButLine(c, s, t, k, n, e),
           \A a \in A : q.view[t.next][a] =
                IF Holds(c, s.sets[k][n], k, a)
                THEN s.sets[k][n].block[decompose_address(c, a).offset]
                ELSE q.view[s.next][a]
    PROVE  Coherent(c, q, t) /\ \A a \in A : Shown(c, q, t, a) = Shown(c, q, s, a)
<1>1. /\ Unique(c, s) /\ Fitting(c, q, s) /\ CleanIsSame(c, q, s)
      /\ q.fit \in SUBSET A
  BY DEF Coherent, Describes
<1>2. ASSUME NEW j \in SetNos(c), NEW i \in LineNos(c), t.sets[j][i].valid
      PROVE  t.sets[j][i] = s.sets[j][i] /\ ~(j = k /\ i = n)
  BY <1>2 DEF ButLine
<1>3. Unique(c, t)
  BY <1>1, <1>2 DEF Unique
<1>4. Fitting(c, q, t)
  BY <1>1, <1>2 DEF Fitting
<1>5. CleanIsSame(c, q, t)
  <2> SUFFICES ASSUME NEW j \in SetNos(c), NEW i \in LineNos(c), NEW o \in Offsets(c),
                      t.sets[j][i].valid, ~t.sets[j][i].dirty
               PROVE  q.view[t.next][Place(c, t.sets[j][i].tag, j, o)] =
                        t.sets[j][i].block[o]
    BY DEF CleanIsSame
  <2> DEFINE l == s.sets[j][i]
             p == Place(c, l.tag, j, o)
  <2>1. t.sets[j][i] = l /\ l.valid /\ ~l.dirty /\ ~(j = k /\ i = n)
    BY <1>2
  <2>2. l \in Line(c)
    BY StateFields
  <2>3. Holds(c, l, j, p)
    BY <2>1, <2>2, HeldPlaces
  <2>4. p \in A
    BY <1>1, <2>1 DEF Fitting
  <2>5. ~Holds(c, s.sets[k][n], k, p)
    BY <1>1, <2>1, <2>3 DEF Holds, Unique
  <2>6. q.view[s.next][p] = l.block[o]
    BY <1>1, <2>1 DEF CleanIsSame
  <2> QED  BY <2>1, <2>4, <2>5, <2>6
<1>6. ASSUME NEW a \in A, NEW d, d = decompose_address(c, a)
      PROVE  Shown(c, q, t, a) = Shown(c, q, s, a)
  <2>1. d.set \in SetNos(c)
    BY <1>6, Decomposed DEF Address
  <2>2. ShownAt(c, q, t, a, d) /\ ShownAt(c, q, s, a, d)
    BY <1>1, <1>3, <1>6, ShownAtIs
  <2>3. CASE \E i \in LineNos(c) : Holds(c, t.sets[d.set][i], d.set, a)
    <3>1. PICK i \in LineNos(c) : Holds(c, t.sets[d.set][i], d.set, a)
      BY <2>3
    <3>2. t.sets[d.set][i] = s.sets[d.set][i]
      BY <1>2, <2>1, <3>1 DEF Holds
    <3> QED  BY <2>2, <3>1, <3>2 DEF ShownAt
  <2>4. CASE \A i \in LineNos(c) : ~Holds(c, t.sets[d.set][i], d.set, a)
    <3>1. Shown(c, q, t, a) = q.view[t.next][a]
      BY <2>2, <2>4 DEF ShownAt
    <3>2. CASE Holds(c, s.sets[k][n], k, a)
      <4>1. d.set = k
        BY <1>6, <3>2 DEF Holds
      <4>2. Shown(c, q, s, a) = s.sets[k][n].block[d.offset]
        BY <2>2, <3>2, <4>1 DEF ShownAt
      <4> QED  BY <1>6, <3>1, <3>2, <4>2
    <3>3. CASE ~Holds(c, s.sets[k][n], k, a)
      <4>1. ASSUME NEW i \in LineNos(c)
            PROVE  ~Holds(c, s.sets[d.set][i], d.set, a)
        <5>1. CASE d.set = k /\ i = n
          BY <3>3, <5>1
        <5>2. CASE ~(d.set = k /\ i = n)
          <6>1. t.sets[d.set][i] = s.sets[d.set][i]
            BY <2>1, <5>2 DEF ButLine
          <6> QED  BY <2>4, <6>1
        <5> QED  BY <5>1, <5>2
      <4>2. Shown(c, q, s, a) = q.view[s.next][a]
        BY <2>2, <4>1 DEF ShownAt
      <4> QED  BY <3>1, <3>3, <4>2
    <3> QED  BY <3>2, <3>3
  <2> QED  BY <2>3, <2>4
<1> QED  BY <1>3, <1>4, <1>5, <1>6 DEF Coherent

(* A line filled with a block that was in none. *)
LEMMA LineFilled ==
    ASSUME NEW c \in Geometry, NEW A \in SUBSET Nat, NEW b, NEW q,
           Describes(A, b, q),
           NEW s \in CacheStates(c, b), Coherent(c, q, s),
           NEW t \in CacheStates(c, b), t.next \in q.sound,
           q.view[t.next] = q.view[s.next],
           NEW k \in SetNos(c), NEW n \in LineNos(c), NEW l \in Line(c),
           ButLine(c, s, t, k, n, l), l.valid, ~s.sets[k][n].valid,
           \A i \in LineNos(c) : ~(s.sets[k][i].valid /\ s.sets[k][i].tag = l.tag),
           \A o \in Offsets(c) :
                /\ Place(c, l.tag, k, o) \in q.fit
                /\ l.block[o] = q.view[s.next][Place(c, l.tag, k, o)]
    PROVE  Coherent(c, q, t) /\ \A a \in A : Shown(c, q, t, a) = Shown(c, q, s, a)
<1>1. /\ Unique(c, s) /\ Fitting(c, q, s) /\ CleanIsSame(c, q, s)
      /\ q.fit \in SUBSET A
  BY DEF Coherent, Describes
<1>2. ASSUME NEW j \in SetNos(c), NEW i \in LineNos(c)
      PROVE  \/ j = k /\ i = n /\ t.sets[j][i] = l
             \/ ~(j = k /\ i = n) /\ t.sets[j][i] = s.sets[j][i]
  BY DEF ButLine
<1>3. Unique(c, t)
  <2> SUFFICES ASSUME NEW j \in SetNos(c), NEW i \in LineNos(c), NEW h \in LineNos(c),
                      t.sets[j][i].valid, t.sets[j][h].valid,
                      t.sets[j][i].tag = t.sets[j][h].tag
               PROVE  i = h
    BY DEF Unique
  <2>1. CASE j # k
    BY <1>1, <1>2, <2>1 DEF Unique
  <2>2. CASE j = k /\ i = n
    BY <1>2, <2>2
  <2>3. CASE j = k /\ h = n
    BY <1>2, <2>3
  <2>4. CASE j = k /\ i # n /\ h # n
    BY <1>1, <1>2, <2>4 DEF Unique
  <2> QED  BY <2>1, <2>2, <2>3, <2>4
<1>4. Fitting(c, q, t)
  BY <1>1, <1>2 DEF Fitting
<1>5. CleanIsSame(c, q, t)
  BY <1>1, <1>2 DEF CleanIsSame
<1>6. ASSUME NEW a \in A, NEW d, d = decompose_address(c, a)
      PROVE  Shown(c, q, t, a) = Shown(c, q, s, a)
  <2>1. /\ d.set \in SetNos(c) /\ d.offset \in Offsets(c)
        /\ Place(c, d.tag, d.set, d.offset) = a
    BY <1>6, Decomposed DEF Address
  <2>2. ShownAt(c, q, t, a, d) /\ ShownAt(c, q, s, a, d)
    BY <1>1, <1>3, <1>6, ShownAtIs
  <2>3. CASE Holds(c, l, k, a)
    <3>1. d.set = k /\ t.sets[k][n] = l /\ d.tag = l.tag
      BY <1>2, <1>6, <2>3 DEF Holds
    <3>2. Shown(c, q, t, a) = l.block[d.offset]
      BY <2>2, <2>3, <3>1 DEF ShownAt
    <3>3. \A i \in LineNos(c) : ~Holds(c, s.sets[k][i], k, a)
      BY <1>6, <3>1 DEF Holds
    <3>4. Shown(c, q, s, a) = q.view[s.next][a]
      BY <2>2, <3>1, <3>3 DEF ShownAt
    <3>5. l.block[d.offset] = q.view[s.next][Place(c, l.tag, k, d.offset)]
      BY <2>1
    <3> QED  BY <2>1, <3>1, <3>2, <3>4, <3>5
  <2>4. CASE ~Holds(c, l, k, a)
    <3>1. CASE \E i \in LineNos(c) : Holds(c, s.sets[d.set][i], d.set, a)
      <4>1. PICK i \in LineNos(c) : Holds(c, s.sets[d.set][i], d.set, a)
        BY <3>1
      <4>2. t.sets[d.set][i] = s.sets[d.set][i]
        BY <1>2, <2>1, <4>1 DEF Holds
      <4> QED  BY <2>2, <4>1, <4>2 DEF ShownAt
    <3>2. CASE \A i \in LineNos(c) : ~Holds(c, s.sets[d.set][i], d.set, a)
      <4>1. \A i \in LineNos(c) : ~Holds(c, t.sets[d.set][i], d.set, a)
        BY <1>2, <2>1, <2>4, <3>2
      <4> QED  BY <2>2, <3>2, <4>1 DEF ShownAt
    <3> QED  BY <3>1, <3>2
  <2> QED  BY <2>3, <2>4
<1> QED  BY <1>3, <1>4, <1>5, <1>6 DEF Coherent

(* What of a line a reader can tell. *)
Alike(l, m) ==
    /\ l.valid = m.valid /\ l.dirty = m.dirty /\ l.tag = m.tag
    /\ l.block = m.block

LinesLike(c, t, s) ==
    \A k \in SetNos(c), n \in LineNos(c) : Alike(t.sets[k][n], s.sets[k][n])

(* When lines change in what a reader cannot tell, the cache shows the      *)
(* same.                                                                    *)
LEMMA LinesAlike ==
    ASSUME NEW c \in Geometry, NEW A \in SUBSET Nat, NEW b, NEW q,
           Describes(A, b, q),
           NEW s \in CacheStates(c, b), Coherent(c, q, s),
           NEW t \in CacheStates(c, b), t.next \in q.sound,
           q.view[t.next] = q.view[s.next],
           LinesLike(c, t, s)
    PROVE  Coherent(c, q, t) /\ \A a \in A : Shown(c, q, t, a) = Shown(c, q, s, a)
<1>1. Unique(c, s) /\ Fitting(c, q, s) /\ CleanIsSame(c, q, s)
  BY DEF Coherent
<1>2. Unique(c, t)
  BY <1>1 DEF Unique, LinesLike, Alike
<1>3. Fitting(c, q, t)
  BY <1>1 DEF Fitting, LinesLike, Alike
<1>4. CleanIsSame(c, q, t)
  BY <1>1 DEF CleanIsSame, LinesLike, Alike
<1>5. ASSUME NEW a \in A, NEW d, d = decompose_address(c, a)
      PROVE  Shown(c, q, t, a) = Shown(c, q, s, a)
  <2>1. d.set \in SetNos(c)
    BY <1>5, Decomposed DEF Address
  <2>2. ShownAt(c, q, t, a, d) /\ ShownAt(c, q, s, a, d)
    BY <1>1, <1>2, <1>5, ShownAtIs
  <2>3. ASSUME NEW n \in LineNos(c)
        PROVE  /\ Holds(c, t.sets[d.set][n], d.set, a)
                    <=> Holds(c, s.sets[d.set][n], d.set, a)
               /\ t.sets[d.set][n].block = s.sets[d.set][n].block
    BY <2>1 DEF Holds, LinesLike, Alike
  <2>4. CASE \E n \in LineNos(c) : Holds(c, t.sets[d.set][n], d.set, a)
    BY <2>2, <2>3, <2>4 DEF ShownAt
  <2>5. CASE \A n \in LineNos(c) : ~Holds(c, t.sets[d.set][n], d.set, a)
    BY <2>2, <2>3, <2>5 DEF ShownAt
  <2> QED  BY <2>4, <2>5
<1> QED  BY <1>2, <1>3, <1>4, <1>5 DEF Coherent

(* l is the line m with the byte v written at offset o. *)
Writes(l, m, o, v) ==
    /\ l.valid /\ l.dirty /\ l.tag = m.tag
    /\ l.block = [m.block EXCEPT ![o] = v]

(* The byte v is shown at address a, and the others as before. *)
ByteShown(c, A, q, s, t, a, v) ==
    \A x \in A : Shown(c, q, t, x) = IF x = a THEN v ELSE Shown(c, q, s, x)

(* A byte written into the line that holds its address is what the cache    *)
(* shows there, and it stays coherent: the line is dirty.                   *)
LEMMA LineWritten ==
    ASSUME NEW c \in Geometry, NEW A \in SUBSET Nat, NEW b, NEW q,
           Describes(A, b, q),
           NEW s \in CacheStates(c, b), Coherent(c, q, s),
           NEW t \in CacheStates(c, b), t.next = s.next,
           NEW a \in A, NEW v \in Byte, NEW d, d = decompose_address(c, a),
           NEW n \in LineNos(c), Holds(c, s.sets[d.set][n], d.set, a),
           Writes(t.sets[d.set][n], s.sets[d.set][n], d.offset, v),
           \A k \in SetNos(c), i \in LineNos(c) :
                k # d.set \/ i # n => Alike(t.sets[k][i], s.sets[k][i])
    PROVE  /\ Coherent(c, q, t)
           /\ ByteShown(c, A, q, s, t, a, v)
<1>0. /\ t.sets[d.set][n].valid /\ t.sets[d.set][n].dirty
      /\ t.sets[d.set][n].tag = s.sets[d.set][n].tag
      /\ t.sets[d.set][n].block = [s.sets[d.set][n].block EXCEPT ![d.offset] = v]
  BY DEF Writes
<1>1. Unique(c, s) /\ Fitting(c, q, s) /\ CleanIsSame(c, q, s)
  BY DEF Coherent
<1>2. ASSUME NEW k \in SetNos(c), NEW i \in LineNos(c)
      PROVE  /\ t.sets[k][i].valid = s.sets[k][i].valid
             /\ t.sets[k][i].tag = s.sets[k][i].tag
             /\ ~t.sets[k][i].dirty => Alike(t.sets[k][i], s.sets[k][i])
  <2>1. s.sets[d.set][n].valid
    BY DEF Holds
  <2>2. s.sets[k][i].valid \in BOOLEAN /\ t.sets[k][i].valid \in BOOLEAN
    BY StateFields DEF Line
  <2>3. CASE k = d.set /\ i = n
    BY <1>0, <2>1, <2>2, <2>3
  <2>4. CASE k # d.set \/ i # n
    BY <2>4 DEF Alike
  <2> QED  BY <2>3, <2>4
<1>3. Unique(c, t)
  BY <1>1, <1>2 DEF Unique
<1>4. Fitting(c, q, t)
  BY <1>1, <1>2 DEF Fitting
<1>5. CleanIsSame(c, q, t)
  BY <1>1, <1>2 DEF CleanIsSame, Alike
<1>6. ASSUME NEW x \in A, NEW e, e = decompose_address(c, x)
      PROVE  Shown(c, q, t, x) = IF x = a THEN v ELSE Shown(c, q, s, x)
  <2>1. /\ e.set \in SetNos(c) /\ e.offset \in Offsets(c)
        /\ Place(c, e.tag, e.set, e.offset) = x
    BY <1>6, Decomposed DEF Address
  <2>2. /\ d.set \in SetNos(c) /\ d.offset \in Offsets(c)
        /\ Place(c, d.tag, d.set, d.offset) = a
    BY Decomposed DEF Address
  <2>3. ShownAt(c, q, t, x, e) /\ ShownAt(c, q, s, x, e)
    BY <1>1, <1>3, <1>6, ShownAtIs
  <2>4. ASSUME NEW i \in LineNos(c)
        PROVE  Holds(c, t.sets[e.set][i], e.set, x)
                 <=> Holds(c, s.sets[e.set][i], e.set, x)
    BY <1>2, <2>1 DEF Holds
  <2>5. CASE \E i \in LineNos(c) : Holds(c, t.sets[e.set][i], e.set, x)
    <3>1. PICK i \in LineNos(c) : Holds(c, t.sets[e.set][i], e.set, x)
      BY <2>5
    <3>2. /\ Shown(c, q, t, x) = t.sets[e.set][i].block[e.offset]
          /\ Shown(c, q, s, x) = s.sets[e.set][i].block[e.offset]
      BY <2>3, <2>4, <3>1 DEF ShownAt
    <3>3. CASE e.set = d.set /\ i = n
      <4>1. e.tag = d.tag
        <5>1. /\ t.sets[e.set][i].tag = e.tag
              /\ s.sets[d.set][n].tag = d.tag
          BY <1>6, <3>1 DEF Holds
        <5> QED  BY <1>0, <3>3, <5>1
      <4>2. s.sets[d.set][n].block \in [Offsets(c) -> Byte]
        BY <2>2, StateFields DEF Line
      <4>3. x = a <=> e.offset = d.offset
        BY <1>6, <2>1, <2>2, <3>3, <4>1
      <4>4. t.sets[d.set][n].block[e.offset] =
              IF e.offset = d.offset THEN v ELSE s.sets[d.set][n].block[e.offset]
        BY <1>0, <2>1, <4>2
      <4>5. /\ Shown(c, q, t, x) = t.sets[d.set][n].block[e.offset]
            /\ Shown(c, q, s, x) = s.sets[d.set][n].block[e.offset]
        BY <3>2, <3>3
      <4>6. Shown(c, q, t, x) = IF e.offset = d.offset THEN v ELSE Shown(c, q, s, x)
        BY <4>4, <4>5, Zenon
      <4> QED  BY <4>3, <4>6, Zenon
    <3>4. CASE e.set # d.set \/ i # n
      <4>1. t.sets[e.set][i].block = s.sets[e.set][i].block
        BY <2>1, <3>4 DEF Alike
      <4>2. x # a
        <5>1. CASE x = a
          <6>1. e = d
            BY <1>6, <5>1
          <6>2. s.sets[d.set][i].valid /\ s.sets[d.set][i].tag = d.tag
            BY <2>4, <3>1, <5>1, <6>1 DEF Holds
          <6>3. s.sets[d.set][n].valid /\ s.sets[d.set][n].tag = d.tag
            BY DEF Holds
          <6>4. i = n
            BY <1>1, <2>2, <6>2, <6>3 DEF Unique
          <6> QED  BY <3>4, <6>1, <6>4
        <5> QED  BY <5>1
      <4> QED  BY <3>2, <4>1, <4>2
    <3> QED  BY <3>3, <3>4
  <2>6. CASE \A i \in LineNos(c) : ~Holds(c, t.sets[e.set][i], e.set, x)
    <3>1. x # a
      BY <1>6, <2>4, <2>6
    <3> QED  BY <2>3, <2>4, <2>6, <3>1 DEF ShownAt
  <2> QED  BY <2>5, <2>6
<1> QED  BY <1>3, <1>4, <1>5, <1>6 DEF Coherent, ByteShown
-----------------------------------------------------------------------------
(****************************************************************************)
(* The steps of an access, whatever the next memory promises of its bytes.  *)
(****************************************************************************)

(* A block begins at an address. *)
LEMMA StartIsNat ==
    ASSUME NEW c \in Geometry, NEW tag \in Nat, NEW k \in SetNos(c)
    PROVE  get_block_start_from_line_info(c, tag, k) \in Nat
<1>1. 0 \in Offsets(c)
  BY GeometryFields DEF Offsets
<1>2. Place(c, tag, k, 0) \in Nat
  BY <1>1, Composed DEF Address
<1>3. get_block_start_from_line_info(c, tag, k) \in Int
  BY GeometryFields DEF get_block_start_from_line_info, SetNos
<1> QED  BY <1>2, <1>3 DEF Place

(* A state with the next memory's state exchanged. *)
LEMMA NextIs ==
    ASSUME NEW c, NEW b, NEW s \in CacheStates(c, b), NEW u \in b.states,
           NEW t, t = [s EXCEPT !.next = u]
    PROVE  /\ t \in CacheStates(c, b)
           /\ t.next = u /\ t.sets = s.sets /\ t.stats = s.stats
BY DEF CacheStates

(* Writing a line back changes only the next memory. *)
LEMMA WriteBackTyped ==
    ASSUME NEW c \in Geometry, NEW b, TypedBase(b), NEW s \in CacheStates(c, b),
           NEW k \in SetNos(c), NEW n \in LineNos(c),
           NEW r, r = write_back_cache_line(c, b, s, k, n)
    PROVE  /\ r.ok \in BOOLEAN /\ r.s \in CacheStates(c, b)
           /\ r.s.sets = s.sets /\ r.s.stats = s.stats
<1> DEFINE l == s.sets[k][n]
           last == Saved(c, b, get_block_start_from_line_info(c, l.tag, k),
                         l.block, s.next)
<1>1. l.tag \in Nat /\ l.block \in [Offsets(c) -> Byte] /\ s.next \in b.states
  BY StateFields DEF Line
<1>2. get_block_start_from_line_info(c, l.tag, k) \in Nat
  BY <1>1, StartIsNat
<1>3. last.ok \in BOOLEAN /\ last.s \in b.states
  BY <1>1, <1>2, SavedTyped
<1>4. r = [ok |-> last.ok, s |-> [s EXCEPT !.next = last.s]]
  BY WriteBackIsSaved
<1> HIDE DEF last
<1>5. r.ok = last.ok /\ r.s = [s EXCEPT !.next = last.s]
  BY <1>4
<1> QED  BY <1>3, <1>5, NextIs

(* Eviction empties the line, and changes no other. *)
LEMMA EvictTyped ==
    ASSUME NEW c \in Geometry, NEW b, TypedBase(b), NEW s \in CacheStates(c, b),
           NEW k \in SetNos(c), NEW n \in LineNos(c),
           NEW r, r = evict_cache_line(c, b, s, k, n)
    PROVE  /\ r.ok \in BOOLEAN /\ r.s \in CacheStates(c, b)
           /\ r.s.stats = s.stats
           /\ EmptyLine(s.sets[k][n]) \in Line(c) /\ ~EmptyLine(s.sets[k][n]).valid
           /\ ButLine(c, s, r.s, k, n, EmptyLine(s.sets[k][n]))
<1> DEFINE l == s.sets[k][n]
           saved == IF l.valid /\ l.dirty
                    THEN write_back_cache_line(c, b, s, k, n)
                    ELSE Done(s)
<1>1. r = [ok |-> saved.ok, s |-> Emptied(saved.s, k, n)]
  BY DEF evict_cache_line
<1>2. /\ saved.ok \in BOOLEAN /\ saved.s \in CacheStates(c, b)
      /\ saved.s.sets = s.sets /\ saved.s.stats = s.stats
  <2>1. CASE l.valid /\ l.dirty
    <3>1. saved = write_back_cache_line(c, b, s, k, n)
      BY <2>1
    <3> HIDE DEF saved, l
    <3> QED  BY <3>1, WriteBackTyped
  <2>2. CASE ~(l.valid /\ l.dirty)
    BY <2>2 DEF Done
  <2> QED  BY <2>1, <2>2
<1> HIDE DEF saved
<1>3. /\ EmptyLine(saved.s.sets[k][n]) \in Line(c)
      /\ ~EmptyLine(saved.s.sets[k][n]).valid
      /\ Emptied(saved.s, k, n) \in CacheStates(c, b)
      /\ Emptied(saved.s, k, n).stats = saved.s.stats
      /\ ButLine(c, saved.s, Emptied(saved.s, k, n), k, n,
                 EmptyLine(saved.s.sets[k][n]))
  BY <1>2, EmptiedIs
<1>4. r.ok = saved.ok /\ r.s = Emptied(saved.s, k, n)
  BY <1>1
<1> QED  BY <1>2, <1>3, <1>4 DEF ButLine

(* The line as load_cache_line leaves it. *)
FullLine(l, tag, block) ==
    [l EXCEPT !.valid = TRUE, !.dirty = FALSE, !.tag = tag, !.block = block]

(* The loaded line, part by part. *)
LEMMA FullLineIs ==
    ASSUME NEW c, NEW l \in Line(c), NEW tag \in Nat,
           NEW block \in [Offsets(c) -> Byte]
    PROVE  /\ FullLine(l, tag, block) \in Line(c)
           /\ FullLine(l, tag, block).valid /\ ~FullLine(l, tag, block).dirty
           /\ FullLine(l, tag, block).tag = tag
           /\ FullLine(l, tag, block).block = block
           /\ FullLine(l, tag, block).last_time_accessed = l.last_time_accessed
BY DEF FullLine, Line

(* Loading fills the line with the block read, and changes no other. *)
LEMMA LoadTyped ==
    ASSUME NEW c \in Geometry, NEW b, TypedBase(b), NEW s \in CacheStates(c, b),
           NEW k \in SetNos(c), NEW n \in LineNos(c), NEW a \in Address,
           NEW tag \in Nat,
           NEW last, last = Loaded(c, b, get_block_start_from_address(c, a),
                                   s.sets[k][n].block, s.next),
           NEW r, r = load_cache_line(c, b, s, k, n, a, tag)
    PROVE  /\ r.ok = last.ok /\ r.ok \in BOOLEAN /\ r.s \in CacheStates(c, b)
           /\ r.s.stats = s.stats /\ r.s.next = last.s
           /\ last.block \in [Offsets(c) -> Byte]
           /\ ButLine(c, s, r.s, k, n, FullLine(s.sets[k][n], tag, last.block))
<1> DEFINE l == s.sets[k][n]
<1>1. l \in Line(c) /\ s.next \in b.states
  BY StateFields
<1>2. get_block_start_from_address(c, a) \in Nat
  BY Decomposed, StartIsNat
<1>3. /\ last.ok \in BOOLEAN /\ last.s \in b.states
      /\ last.block \in [Offsets(c) -> Byte]
  <2>1. l.block \in [Offsets(c) -> Byte]
    BY <1>1 DEF Line
  <2> QED  BY <1>1, <1>2, <2>1, LoadedTyped
<1>4. r = [ok |-> last.ok,
           s |-> [s EXCEPT !.next = last.s,
                           !.sets[k][n] = [@ EXCEPT !.valid = TRUE,
                              !.dirty = FALSE, !.tag = tag, !.block = last.block]]]
  BY LoadIsLoaded
<1>5. /\ r.ok = last.ok
      /\ r.s = WithLine(s, last.s, k, n, FullLine(l, tag, last.block))
  <2>1. s.sets[k] \in [LineNos(c) -> Line(c)] /\ s.sets \in [SetNos(c) -> CacheSet(c)]
    BY StateFields DEF CacheSet
  <2> QED  BY <1>4, <2>1 DEF WithLine, FullLine, CacheStates
<1>6. FullLine(l, tag, last.block) \in Line(c)
  BY <1>1, <1>3, FullLineIs
<1> HIDE DEF l
<1>7. /\ r.s \in CacheStates(c, b) /\ r.s.stats = s.stats /\ r.s.next = last.s
      /\ ButLine(c, s, r.s, k, n, FullLine(l, tag, last.block))
  BY <1>3, <1>5, <1>6, ChangeLine
<1> QED  BY <1>3, <1>5, <1>7 DEF l
-----------------------------------------------------------------------------
(****************************************************************************)
(* The steps of an access, over a next memory that serves.                  *)
(****************************************************************************)

(* A cache c over the next memory b, in a state that an access may find. *)
Served(c, A, b, q, s) ==
    /\ c \in Geometry /\ A \in SUBSET Nat /\ TypedBase(b) /\ Serves(A, b, q)
    /\ s \in CacheStates(c, b) /\ Coherent(c, q, s)

(* Writing back a line of a coherent cache succeeds, and gives the next     *)
(* memory the line's bytes and no others.                                   *)
LEMMA WriteBackIs ==
    ASSUME NEW c, NEW A, NEW b, NEW q, NEW s, Served(c, A, b, q, s),
           NEW k \in SetNos(c), NEW n \in LineNos(c), s.sets[k][n].valid,
           NEW r, r = write_back_cache_line(c, b, s, k, n)
    PROVE  /\ r.ok /\ r.s \in CacheStates(c, b) /\ r.s.next \in q.sound
           /\ r.s.sets = s.sets /\ r.s.stats = s.stats
           /\ r.s.next.stats.reads = s.next.stats.reads
           /\ \A a \in A : q.view[r.s.next][a] =
                IF Holds(c, s.sets[k][n], k, a)
                THEN s.sets[k][n].block[decompose_address(c, a).offset]
                ELSE q.view[s.next][a]
<1> DEFINE l == s.sets[k][n]
           start == get_block_start_from_line_info(c, l.tag, k)
           last == Saved(c, b, start, l.block, s.next)
<1>1. /\ c \in Geometry /\ A \in SUBSET Nat /\ TypedBase(b) /\ Serves(A, b, q)
      /\ s \in CacheStates(c, b) /\ s.next \in q.sound /\ Fitting(c, q, s)
  BY DEF Served, Coherent
<1>2. l.tag \in Nat /\ l.block \in [Offsets(c) -> Byte]
  BY <1>1, StateFields DEF Line
<1>3. \A o \in Offsets(c) : Place(c, l.tag, k, o) \in q.fit
  BY <1>1 DEF Fitting
<1>4. /\ last.ok /\ last.s \in q.sound
      /\ q.view[last.s] =
            Overwritten(c, q.view[s.next], l.tag, k, l.block, c.block_size)
      /\ last.s.stats.reads = s.next.stats.reads
  <2>1. Saves(q, last, s.next,
              Overwritten(c, q.view[s.next], l.tag, k, l.block, c.block_size))
    <3> HIDE DEF l
    <3> QED  BY <1>1, <1>2, <1>3, SavedIs
  <2> QED  BY <2>1 DEF Saves
<1>5. r.s = [s EXCEPT !.next = last.s] /\ r.ok = last.ok
  BY WriteBackIsSaved
<1>6. q.view[s.next] \in [A -> Byte] /\ last.s \in b.states
  BY <1>1, <1>4 DEF Serves, Describes
<1> HIDE DEF last
<1>7. r.s \in CacheStates(c, b) /\ r.s.next = last.s /\ r.s.sets = s.sets
      /\ r.s.stats = s.stats
  BY <1>1, <1>5, <1>6, NextIs
<1>8. ASSUME NEW a \in A
      PROVE  q.view[r.s.next][a] =
                IF Holds(c, l, k, a) THEN l.block[decompose_address(c, a).offset]
                ELSE q.view[s.next][a]
  <2> DEFINE d == decompose_address(c, a)
  <2>1. q.view[last.s][a] =
          IF d.tag = l.tag /\ d.set = k THEN l.block[d.offset] ELSE q.view[s.next][a]
    <3> DEFINE w == q.view[s.next]
               tag == l.tag
               block == l.block
    <3>1. c \in Geometry /\ A \in SUBSET Nat /\ w \in [A -> Byte]
      BY <1>1, <1>6
    <3>2. q.view[last.s] = Overwritten(c, w, tag, k, block, c.block_size)
      BY <1>4
    <3>3. d = decompose_address(c, a)
      OBVIOUS
    <3>4. q.view[last.s][a] = ByteOf(d, tag, k, block, w[a])
      <4> HIDE DEF w, tag, block, d
      <4> QED  BY <3>1, <3>2, <3>3, OverwriteAll
    <3> QED  BY <3>4 DEF ByteOf
  <2>2. Holds(c, l, k, a) <=> d.tag = l.tag /\ d.set = k
    BY DEF Holds
  <2> HIDE DEF l, d
  <2>3. q.view[r.s.next][a] =
          IF Holds(c, l, k, a) THEN l.block[d.offset] ELSE q.view[s.next][a]
    BY <1>7, <2>1, <2>2
  <2> QED  BY <2>3 DEF d
<1> QED  BY <1>4, <1>5, <1>7, <1>8

(* Eviction keeps the cache coherent and all that it shows: a dirty block   *)
(* is written back before the line is given up.                             *)
LEMMA EvictIs ==
    ASSUME NEW c, NEW A, NEW b, NEW q, NEW s, Served(c, A, b, q, s),
           NEW k \in SetNos(c), NEW n \in LineNos(c),
           NEW r, r = evict_cache_line(c, b, s, k, n)
    PROVE  /\ r.ok /\ Served(c, A, b, q, r.s)
           /\ \A a \in A : Shown(c, q, r.s, a) = Shown(c, q, s, a)
           /\ r.s.next.stats.reads = s.next.stats.reads
           /\ ~r.s.sets[k][n].valid
<1> DEFINE l == s.sets[k][n]
           saved == IF l.valid /\ l.dirty
                    THEN write_back_cache_line(c, b, s, k, n)
                    ELSE Done(s)
<1>1. /\ c \in Geometry /\ A \in SUBSET Nat /\ TypedBase(b) /\ Serves(A, b, q)
      /\ Describes(A, b, q)
      /\ s \in CacheStates(c, b) /\ s.next \in q.sound /\ CleanIsSame(c, q, s)
      /\ Coherent(c, q, s)
  BY DEF Served, Coherent, Serves
<1>2. /\ saved.ok /\ saved.s \in CacheStates(c, b) /\ saved.s.next \in q.sound
      /\ saved.s.next.stats.reads = s.next.stats.reads
      /\ \A a \in A : q.view[saved.s.next][a] =
            IF Holds(c, l, k, a) THEN l.block[decompose_address(c, a).offset]
            ELSE q.view[s.next][a]
  <2>1. CASE l.valid /\ l.dirty
    <3>1. saved = write_back_cache_line(c, b, s, k, n)
      BY <2>1
    <3> HIDE DEF saved
    <3> QED  BY <2>1, <3>1, WriteBackIs
  <2>2. CASE ~(l.valid /\ l.dirty)
    <3>1. saved = Done(s)
      BY <2>2
    <3>2. ASSUME NEW a \in A, Holds(c, l, k, a), NEW o,
                 o = decompose_address(c, a).offset
          PROVE  q.view[s.next][a] = l.block[o]
      <4>1. a \in Address
        BY <1>1 DEF Address
      <4>2. o \in Offsets(c) /\ Place(c, l.tag, k, o) = a
        <5> HIDE DEF l
        <5> QED  BY <1>1, <3>2, <4>1, HeldIsPlace
      <4>3. l.valid /\ ~l.dirty
        BY <2>2, <3>2 DEF Holds
      <4> QED  BY <1>1, <4>2, <4>3 DEF CleanIsSame
    <3> HIDE DEF l
    <3> QED  BY <1>1, <3>1, <3>2 DEF Done
  <2> QED  BY <2>1, <2>2
<1>3. r = [ok |-> saved.ok, s |-> Emptied(saved.s, k, n)]
  BY DEF evict_cache_line
<1> HIDE DEF saved
<1>4. /\ r.s \in CacheStates(c, b)
      /\ ~EmptyLine(l).valid
      /\ ButLine(c, s, r.s, k, n, EmptyLine(l))
  BY <1>1, EvictTyped
<1>5. r.ok = saved.ok /\ r.s.next = saved.s.next
  BY <1>2, <1>3, EmptiedIs
<1>6. r.s.next \in q.sound
  BY <1>2, <1>5
<1>7. \A a \in A : q.view[r.s.next][a] =
            IF Holds(c, s.sets[k][n], k, a)
            THEN s.sets[k][n].block[decompose_address(c, a).offset]
            ELSE q.view[s.next][a]
  BY <1>2, <1>5
<1>8. Coherent(c, q, r.s) /\ \A a \in A : Shown(c, q, r.s, a) = Shown(c, q, s, a)
  <2>1. \A t \in CacheStates(c, b) : \A e :
            /\ t.next \in q.sound /\ ~e.valid /\ ButLine(c, s, t, k, n, e)
            /\ \A a \in A : q.view[t.next][a] =
                  IF Holds(c, s.sets[k][n], k, a)
                  THEN s.sets[k][n].block[decompose_address(c, a).offset]
                  ELSE q.view[s.next][a]
            => Coherent(c, q, t) /\ \A a \in A : Shown(c, q, t, a) = Shown(c, q, s, a)
    BY <1>1, LineEmptied
  <2> HIDE DEF l
  <2> QED  BY <1>4, <1>6, <1>7, <2>1
<1>9. ~r.s.sets[k][n].valid
  BY <1>4 DEF ButLine
<1> QED  BY <1>1, <1>2, <1>4, <1>5, <1>8, <1>9 DEF Served

(* With the same lines over the same bytes the cache shows the same. *)
LEMMA SetsSame ==
    ASSUME NEW c, NEW A, NEW b, NEW q, NEW s, Served(c, A, b, q, s),
           NEW t \in CacheStates(c, b), t.sets = s.sets, t.next \in q.sound,
           q.view[t.next] = q.view[s.next]
    PROVE  /\ Served(c, A, b, q, t)
           /\ \A a \in A : Shown(c, q, t, a) = Shown(c, q, s, a)
<1>1. /\ c \in Geometry /\ A \in SUBSET Nat /\ Describes(A, b, q)
      /\ s \in CacheStates(c, b) /\ Coherent(c, q, s)
  BY DEF Served, Serves
<1>2. LinesLike(c, t, s)
  BY DEF LinesLike, Alike
<1>3. Coherent(c, q, t) /\ \A a \in A : Shown(c, q, t, a) = Shown(c, q, s, a)
  BY <1>1, <1>2, LinesAlike
<1> QED  BY <1>3 DEF Served

(* Counting an event changes nothing that the cache shows. *)
LEMMA CountedServed ==
    ASSUME NEW c, NEW A, NEW b, NEW q, NEW s, Served(c, A, b, q, s),
           NEW what \in {"reads", "writes", "hits", "misses"}
    PROVE  /\ Served(c, A, b, q, Counted(s, what))
           /\ \A a \in A : Shown(c, q, Counted(s, what), a) = Shown(c, q, s, a)
<1>1. s \in CacheStates(c, b) /\ s.next \in q.sound
  BY DEF Served, Coherent
<1>2. /\ Counted(s, what) \in CacheStates(c, b)
      /\ Counted(s, what).sets = s.sets /\ Counted(s, what).next = s.next
  BY <1>1, CountedIs
<1> QED  BY <1>1, <1>2, SetsSame

(* The addresses that a cache reaches: those whose block the next memory does. *)
Fit(c, q) == {a \in Nat : \A o \in Offsets(c) :
                            get_block_start_from_address(c, a) + o \in q.fit}

(* What the cache reaches, its next memory has. *)
LEMMA FitIs ==
    ASSUME NEW c \in Geometry, NEW A \in SUBSET Nat, NEW b, NEW q, Describes(A, b, q)
    PROVE  Fit(c, q) \in SUBSET A
<1> SUFFICES ASSUME NEW a \in Fit(c, q) PROVE a \in A
  OBVIOUS
<1> DEFINE d == decompose_address(c, a)
<1>1. a \in Address
  BY DEF Fit, Address
<1>2. /\ d.offset \in Offsets(c)
      /\ get_block_start_from_line_info(c, d.tag, d.set)
            = get_block_start_from_address(c, a)
      /\ Place(c, d.tag, d.set, d.offset) = a
  BY <1>1, Decomposed
<1> HIDE DEF d
<1>3. get_block_start_from_address(c, a) + d.offset \in q.fit
  BY <1>2 DEF Fit
<1>4. get_block_start_from_address(c, a) + d.offset = a
  BY <1>2 DEF Place
<1> QED  BY <1>3, <1>4 DEF Describes

(* A line loaded with a block that no line has. *)
LoadsLine(c, A, b, q, s, k, n, a, tag, r) ==
    /\ r.ok <=> a \in Fit(c, q)
    /\ r.ok => /\ Served(c, A, b, q, r.s)
               /\ \A x \in A : Shown(c, q, r.s, x) = Shown(c, q, s, x)
               /\ r.s.next.stats.reads = s.next.stats.reads + c.block_size
               /\ r.s.stats = s.stats
               /\ r.s.sets[k][n].valid /\ r.s.sets[k][n].tag = tag
               /\ r.s.sets[k][n].last_time_accessed
                    = s.sets[k][n].last_time_accessed
               /\ \A j \in SetNos(c), i \in LineNos(c) :
                    j # k \/ i # n => r.s.sets[j][i] = s.sets[j][i]

(* Loading a block that no line has keeps the cache coherent and all that   *)
(* it shows, at block_size reads of the next memory.                        *)
LEMMA LoadIs ==
    ASSUME NEW c, NEW A, NEW b, NEW q, NEW s, Served(c, A, b, q, s),
           NEW a \in Address, NEW d, d = decompose_address(c, a),
           NEW n \in LineNos(c), ~s.sets[d.set][n].valid,
           \A i \in LineNos(c) : ~(s.sets[d.set][i].valid /\ s.sets[d.set][i].tag = d.tag),
           NEW r, r = load_cache_line(c, b, s, d.set, n, a, d.tag)
    PROVE  LoadsLine(c, A, b, q, s, d.set, n, a, d.tag, r)
<1> DEFINE start == get_block_start_from_address(c, a)
           l == s.sets[d.set][n]
           last == Loaded(c, b, start, l.block, s.next)
           f == FullLine(l, d.tag, last.block)
<1>1. /\ c \in Geometry /\ A \in SUBSET Nat /\ TypedBase(b) /\ Serves(A, b, q)
      /\ Describes(A, b, q)
      /\ s \in CacheStates(c, b) /\ s.next \in q.sound /\ Coherent(c, q, s)
  BY DEF Served, Coherent, Serves
<1>2. /\ d.set \in SetNos(c) /\ d.tag \in Nat
      /\ start = get_block_start_from_line_info(c, d.tag, d.set)
      /\ start \in Nat
  <2>1. /\ d.set \in SetNos(c) /\ d.tag \in Nat
        /\ start = get_block_start_from_line_info(c, d.tag, d.set)
    BY <1>1, Decomposed
  <2> QED  BY <1>1, <2>1, StartIsNat
<1>3. l \in Line(c) /\ l.block \in [Offsets(c) -> Byte]
  BY <1>1, <1>2, StateFields DEF Line
<1>4. Loads(c, q, last, s.next, start)
  <2> HIDE DEF l, start
  <2> QED  BY <1>1, <1>2, <1>3, LoadedIs
<1>5. /\ r.ok = last.ok /\ r.s \in CacheStates(c, b)
      /\ r.s.stats = s.stats /\ r.s.next = last.s
      /\ last.block \in [Offsets(c) -> Byte]
      /\ ButLine(c, s, r.s, d.set, n, f)
  BY <1>1, <1>2, LoadTyped
<1>6. r.ok <=> a \in Fit(c, q)
  <2> HIDE DEF start, last
  <2>1. last.ok <=> \A o \in Offsets(c) : start + o \in q.fit
    BY <1>4 DEF Loads
  <2>2. a \in Fit(c, q) <=> \A o \in Offsets(c) : start + o \in q.fit
    BY DEF Fit, start, Address
  <2> QED  BY <1>5, <2>1, <2>2
<1> HIDE DEF start, last, l
<1>7. /\ f \in Line(c) /\ f.valid /\ f.tag = d.tag /\ f.block = last.block
      /\ f.last_time_accessed = l.last_time_accessed
  BY <1>2, <1>3, <1>5, FullLineIs
<1> HIDE DEF f
<1>8. ASSUME r.ok
      PROVE  /\ Served(c, A, b, q, r.s)
             /\ \A x \in A : Shown(c, q, r.s, x) = Shown(c, q, s, x)
             /\ r.s.next.stats.reads = s.next.stats.reads + c.block_size
  <2>1. /\ last.s \in q.sound /\ q.view[last.s] = q.view[s.next]
        /\ last.s.stats.reads = s.next.stats.reads + c.block_size
        /\ \A o \in Offsets(c) : last.block[o] = q.view[s.next][start + o]
        /\ \A o \in Offsets(c) : start + o \in q.fit
    BY <1>4, <1>5, <1>8 DEF Loads
  <2>2. \A o \in Offsets(c) :
            /\ Place(c, f.tag, d.set, o) \in q.fit
            /\ f.block[o] = q.view[s.next][Place(c, f.tag, d.set, o)]
    BY <1>2, <1>7, <2>1 DEF Place
  <2>3. r.s.next \in q.sound /\ q.view[r.s.next] = q.view[s.next]
    BY <1>5, <2>1
  <2>4. /\ Coherent(c, q, r.s)
        /\ \A x \in A : Shown(c, q, r.s, x) = Shown(c, q, s, x)
    <3>1. \A t \in CacheStates(c, b), m \in Line(c) :
            /\ t.next \in q.sound /\ q.view[t.next] = q.view[s.next]
            /\ ButLine(c, s, t, d.set, n, m) /\ m.valid
            /\ m.tag = d.tag
            /\ \A o \in Offsets(c) :
                /\ Place(c, m.tag, d.set, o) \in q.fit
                /\ m.block[o] = q.view[s.next][Place(c, m.tag, d.set, o)]
            => Coherent(c, q, t) /\ \A x \in A : Shown(c, q, t, x) = Shown(c, q, s, x)
      BY <1>1, <1>2, LineFilled
    <3> QED  BY <1>5, <1>7, <2>2, <2>3, <3>1
  <2>5. r.s.next.stats.reads = s.next.stats.reads + c.block_size
    BY <1>5, <2>1
  <2> QED  BY <1>1, <1>5, <2>4, <2>5 DEF Served
<1>9. /\ r.s.sets[d.set][n] = f
      /\ \A j \in SetNos(c), i \in LineNos(c) :
            j # d.set \/ i # n => r.s.sets[j][i] = s.sets[j][i]
  BY <1>2, <1>5 DEF ButLine
<1> QED  BY <1>5, <1>6, <1>7, <1>8, <1>9 DEF LoadsLine, l

-----------------------------------------------------------------------------
(****************************************************************************)
(* An access.                                                               *)
(****************************************************************************)

(* resolve_cache_access returns a state of the cache. *)
LEMMA ResolveTyped ==
    ASSUME NEW c \in Geometry, NEW b, TypedBase(b), NEW s \in CacheStates(c, b),
           NEW a \in Address, NEW r, r = resolve_cache_access(c, b, s, a)
    PROVE  r.ok \in BOOLEAN /\ r.s \in CacheStates(c, b)
<1> DEFINE d == decompose_address(c, a)
           set == s.sets[d.set]
           victim == choose_victim(set)
           emptied == evict_cache_line(c, b, Counted(s, "misses"), d.set, victim)
           full == load_cache_line(c, b, emptied.s, d.set, victim, a, d.tag)
<1>1. d.set \in SetNos(c) /\ d.tag \in Nat
  BY Decomposed
<1>2. set \in CacheSet(c)
  BY <1>1, StateFields
<1>3. victim \in LineNos(c)
  BY <1>2, VictimIs
<1>4. r = IF Hits(set, d.tag) # {} THEN Done(Counted(s, "hits"))
          ELSE IF ~emptied.ok THEN Failed(s) ELSE full
  BY DEF resolve_cache_access
<1>5. /\ Counted(s, "hits") \in CacheStates(c, b)
      /\ Counted(s, "misses") \in CacheStates(c, b)
  BY CountedIs
<1> HIDE DEF victim, set
<1>6. emptied.ok \in BOOLEAN /\ emptied.s \in CacheStates(c, b)
  <2> HIDE DEF d
  <2> QED  BY <1>1, <1>3, <1>5, EvictTyped
<1> HIDE DEF emptied
<1>7. full.ok \in BOOLEAN /\ full.s \in CacheStates(c, b)
  <2> HIDE DEF d
  <2> QED  BY <1>1, <1>3, <1>6, LoadTyped
<1> HIDE DEF full, d
<1>8. r \in {Done(Counted(s, "hits")), Failed(s), full}
  BY <1>4
<1>9. CASE r = Done(Counted(s, "hits"))
  BY <1>5, <1>9 DEF Done
<1>10. CASE r = Failed(s)
  BY <1>10 DEF Failed
<1> QED  BY <1>7, <1>8, <1>9, <1>10

(* What resolve_cache_access does, if no assert fails. *)
Resolves(c, A, b, q, s, a, d, n, r) ==
    /\ r.ok <=> a \in Fit(c, q)
    /\ r.ok => /\ Served(c, A, b, q, r.s)
               /\ \A x \in A : Shown(c, q, r.s, x) = Shown(c, q, s, x)
               /\ r.s.stats.reads = s.stats.reads
               /\ r.s.stats.writes = s.stats.writes
               /\ \/ /\ r.s.stats.hits = s.stats.hits + 1
                     /\ r.s.stats.misses = s.stats.misses
                     /\ r.s.next.stats.reads = s.next.stats.reads
                  \/ /\ r.s.stats.hits = s.stats.hits
                     /\ r.s.stats.misses = s.stats.misses + 1
                     /\ r.s.next.stats.reads = s.next.stats.reads + c.block_size
               /\ r.s.sets[d.set][n].valid /\ r.s.sets[d.set][n].tag = d.tag
               /\ r.s.sets[d.set][n].last_time_accessed
                    = s.sets[d.set][n].last_time_accessed
               /\ \A j \in SetNos(c), i \in LineNos(c) :
                    j # d.set \/ i # n => r.s.sets[j][i] = s.sets[j][i]

(* A hit: the line is found, and only the hit is counted. *)
LEMMA ResolveHits ==
    ASSUME NEW c, NEW A, NEW b, NEW q, NEW s, Served(c, A, b, q, s),
           NEW a \in Address, NEW d, d = decompose_address(c, a),
           NEW n, n = LineFor(s.sets[d.set], d.tag),
           Hits(s.sets[d.set], d.tag) # {},
           NEW r, r = Done(Counted(s, "hits"))
    PROVE  Resolves(c, A, b, q, s, a, d, n, r)
<1>1. /\ c \in Geometry /\ s \in CacheStates(c, b) /\ Fitting(c, q, s)
  BY DEF Served, Coherent
<1>2. d.set \in SetNos(c) /\ d.tag \in Nat
      /\ get_block_start_from_line_info(c, d.tag, d.set)
            = get_block_start_from_address(c, a)
  BY <1>1, Decomposed
<1>3. n \in LineNos(c) /\ n \in Hits(s.sets[d.set], d.tag)
  BY <1>1, <1>2, StateFields, LineForIs
<1>4. s.sets[d.set][n].valid /\ s.sets[d.set][n].tag = d.tag
  BY <1>3 DEF Hits
<1>5. a \in Fit(c, q)
  <2>1. ASSUME NEW o \in Offsets(c)
        PROVE  get_block_start_from_address(c, a) + o \in q.fit
    <3>1. Place(c, s.sets[d.set][n].tag, d.set, o) \in q.fit
      BY <1>1, <1>2, <1>3, <1>4 DEF Fitting
    <3> QED  BY <1>2, <1>4, <3>1 DEF Place
  <2> QED  BY <2>1 DEF Fit, Address
<1>6. r.ok = TRUE /\ r.s = Counted(s, "hits")
  BY DEF Done
<1>7. /\ Served(c, A, b, q, r.s)
      /\ \A x \in A : Shown(c, q, r.s, x) = Shown(c, q, s, x)
  BY <1>6, CountedServed
<1>8. /\ r.s.sets = s.sets /\ r.s.next = s.next
      /\ \A x \in {"reads", "writes", "hits", "misses"} :
            r.s.stats[x] = IF x = "hits" THEN s.stats[x] + 1 ELSE s.stats[x]
  BY <1>1, <1>6, CountedIs
<1>9. /\ r.s.stats.reads = s.stats.reads /\ r.s.stats.writes = s.stats.writes
      /\ r.s.stats.hits = s.stats.hits + 1 /\ r.s.stats.misses = s.stats.misses
  BY <1>8
<1> QED  BY <1>4, <1>5, <1>6, <1>7, <1>8, <1>9 DEF Resolves

(* A miss: the victim is evicted and the block loaded into it. *)
LEMMA ResolveMisses ==
    ASSUME NEW c, NEW A, NEW b, NEW q, NEW s, Served(c, A, b, q, s),
           NEW a \in Address, NEW d, d = decompose_address(c, a),
           NEW n, n = choose_victim(s.sets[d.set]),
           Hits(s.sets[d.set], d.tag) = {},
           NEW emptied,
           emptied = evict_cache_line(c, b, Counted(s, "misses"), d.set, n),
           NEW r, r = load_cache_line(c, b, emptied.s, d.set, n, a, d.tag)
    PROVE  emptied.ok /\ Resolves(c, A, b, q, s, a, d, n, r)
<1> DEFINE m == Counted(s, "misses")
           e == emptied.s
<1>1. c \in Geometry /\ s \in CacheStates(c, b) /\ TypedBase(b)
  BY DEF Served
<1>2. d.set \in SetNos(c) /\ d.tag \in Nat
  BY <1>1, Decomposed
<1>3. n \in LineNos(c) /\ s.sets[d.set] \in CacheSet(c)
  BY <1>1, <1>2, StateFields, VictimIs
<1>4. /\ m \in CacheStates(c, b) /\ m.sets = s.sets /\ m.next = s.next
      /\ m.stats.reads = s.stats.reads /\ m.stats.writes = s.stats.writes
      /\ m.stats.hits = s.stats.hits /\ m.stats.misses = s.stats.misses + 1
  <2>1. /\ m \in CacheStates(c, b) /\ m.sets = s.sets /\ m.next = s.next
        /\ \A x \in {"reads", "writes", "hits", "misses"} :
            m.stats[x] = IF x = "misses" THEN s.stats[x] + 1 ELSE s.stats[x]
    BY <1>1, CountedIs
  <2> HIDE DEF m
  <2> QED  BY <2>1
<1>5. /\ Served(c, A, b, q, m)
      /\ \A x \in A : Shown(c, q, m, x) = Shown(c, q, s, x)
  BY CountedServed
<1> HIDE DEF m
<1>6. emptied = evict_cache_line(c, b, m, d.set, n)
  BY DEF m
<1>7. /\ emptied.ok /\ Served(c, A, b, q, e)
      /\ \A x \in A : Shown(c, q, e, x) = Shown(c, q, m, x)
      /\ e.next.stats.reads = m.next.stats.reads
      /\ ~e.sets[d.set][n].valid
  BY <1>2, <1>3, <1>5, <1>6, EvictIs
<1>8. /\ e.stats = m.stats
      /\ ButLine(c, m, e, d.set, n, EmptyLine(m.sets[d.set][n]))
  BY <1>1, <1>2, <1>3, <1>4, <1>6, EvictTyped
<1>9. e.sets[d.set][n].last_time_accessed = s.sets[d.set][n].last_time_accessed
  <2>1. EmptyLine(m.sets[d.set][n]).last_time_accessed
            = m.sets[d.set][n].last_time_accessed
    BY <1>2, <1>3, <1>4, EmptiedIs
  <2> QED  BY <1>2, <1>3, <1>4, <1>8, <2>1 DEF ButLine
<1>10. \A j \in SetNos(c), i \in LineNos(c) :
            j # d.set \/ i # n => e.sets[j][i] = s.sets[j][i]
  BY <1>4, <1>8 DEF ButLine
<1> HIDE DEF e
<1>11. \A i \in LineNos(c) : ~(e.sets[d.set][i].valid /\ e.sets[d.set][i].tag = d.tag)
  <2> SUFFICES ASSUME NEW i \in LineNos(c)
               PROVE  ~(e.sets[d.set][i].valid /\ e.sets[d.set][i].tag = d.tag)
    OBVIOUS
  <2>1. CASE i = n
    BY <1>7, <2>1 DEF e
  <2>2. CASE i # n
    <3>1. e.sets[d.set][i] = s.sets[d.set][i]
      BY <1>2, <1>10, <2>2
    <3>2. i \notin Hits(s.sets[d.set], d.tag)
      OBVIOUS
    <3> QED  BY <1>3, <3>1, <3>2 DEF Hits, CacheSet
  <2> QED  BY <2>1, <2>2
<1>12. LoadsLine(c, A, b, q, e, d.set, n, a, d.tag, r)
  <2>1. r = load_cache_line(c, b, e, d.set, n, a, d.tag)
    BY DEF e
  <2>2. Served(c, A, b, q, e) /\ ~e.sets[d.set][n].valid
    BY <1>7 DEF e
  <2> QED  BY <1>3, <1>11, <2>1, <2>2, LoadIs
<1>13. ASSUME r.ok
       PROVE  /\ Served(c, A, b, q, r.s)
              /\ \A x \in A : Shown(c, q, r.s, x) = Shown(c, q, s, x)
              /\ r.s.next.stats.reads = s.next.stats.reads + c.block_size
              /\ r.s.stats = m.stats
  <2>1. /\ Served(c, A, b, q, r.s)
        /\ \A x \in A : Shown(c, q, r.s, x) = Shown(c, q, e, x)
        /\ r.s.next.stats.reads = e.next.stats.reads + c.block_size
        /\ r.s.stats = e.stats
    BY <1>12, <1>13 DEF LoadsLine
  <2> QED  BY <1>4, <1>5, <1>7, <1>8, <2>1 DEF e
<1>14. ASSUME r.ok
       PROVE  /\ r.s.sets[d.set][n].valid /\ r.s.sets[d.set][n].tag = d.tag
              /\ r.s.sets[d.set][n].last_time_accessed
                    = s.sets[d.set][n].last_time_accessed
              /\ \A j \in SetNos(c), i \in LineNos(c) :
                    j # d.set \/ i # n => r.s.sets[j][i] = s.sets[j][i]
  <2>1. /\ r.s.sets[d.set][n].valid /\ r.s.sets[d.set][n].tag = d.tag
        /\ r.s.sets[d.set][n].last_time_accessed
              = e.sets[d.set][n].last_time_accessed
        /\ \A j \in SetNos(c), i \in LineNos(c) :
              j # d.set \/ i # n => r.s.sets[j][i] = e.sets[j][i]
    BY <1>12, <1>14 DEF LoadsLine
  <2>2. \A j \in SetNos(c), i \in LineNos(c) :
            j # d.set \/ i # n => r.s.sets[j][i] = s.sets[j][i]
    <3> SUFFICES ASSUME NEW j \in SetNos(c), NEW i \in LineNos(c),
                        j # d.set \/ i # n
                 PROVE  r.s.sets[j][i] = s.sets[j][i]
      OBVIOUS
    <3>1. r.s.sets[j][i] = e.sets[j][i]
      BY <2>1
    <3>2. e.sets[j][i] = s.sets[j][i]
      BY <1>10
    <3> QED  BY <3>1, <3>2
  <2>3. r.s.sets[d.set][n].last_time_accessed
            = s.sets[d.set][n].last_time_accessed
    BY <1>9, <2>1 DEF e
  <2> QED  BY <2>1, <2>2, <2>3
<1>15. r.ok <=> a \in Fit(c, q)
  BY <1>12 DEF LoadsLine
<1>16. ASSUME r.ok
       PROVE  /\ r.s.stats.reads = s.stats.reads /\ r.s.stats.writes = s.stats.writes
              /\ r.s.stats.hits = s.stats.hits
              /\ r.s.stats.misses = s.stats.misses + 1
  <2>1. r.s.stats = m.stats
    BY <1>13, <1>16
  <2> QED  BY <1>4, <2>1
<1>17. Resolves(c, A, b, q, s, a, d, n, r)
  <2>1. CASE r.ok
    BY <1>13, <1>14, <1>15, <1>16, <2>1 DEF Resolves
  <2>2. CASE ~r.ok
    BY <1>15, <2>2 DEF Resolves
  <2> QED  BY <2>1, <2>2
<1> QED  BY <1>7, <1>17

(* An access finds or loads the block, and changes nothing shown. *)
LEMMA ResolveIs ==
    ASSUME NEW c, NEW A, NEW b, NEW q, NEW s, Served(c, A, b, q, s),
           NEW a \in Address, NEW d, d = decompose_address(c, a),
           NEW n, n = LineFor(s.sets[d.set], d.tag),
           NEW r, r = resolve_cache_access(c, b, s, a)
    PROVE  Resolves(c, A, b, q, s, a, d, n, r)
<1> DEFINE set == s.sets[d.set]
           victim == choose_victim(set)
           emptied == evict_cache_line(c, b, Counted(s, "misses"), d.set, victim)
           full == load_cache_line(c, b, emptied.s, d.set, victim, a, d.tag)
<1>1. r = IF Hits(set, d.tag) # {} THEN Done(Counted(s, "hits"))
          ELSE IF ~emptied.ok THEN Failed(s) ELSE full
  BY DEF resolve_cache_access
<1>2. CASE Hits(set, d.tag) # {}
  <2>1. r = Done(Counted(s, "hits"))
    BY <1>1, <1>2
  <2> QED  BY <1>2, <2>1, ResolveHits
<1>3. CASE Hits(set, d.tag) = {}
  <2>1. n = victim
    BY <1>3 DEF LineFor
  <2>2. emptied.ok /\ Resolves(c, A, b, q, s, a, d, n, full)
    BY <1>3, <2>1, ResolveMisses
  <2>3. r = full
    BY <1>1, <1>3, <2>2
  <2> QED  BY <2>2, <2>3
<1> QED  BY <1>2, <1>3

WithSet(s, k, set) == [s EXCEPT !.sets[k] = set]

(* A state with one set exchanged. *)
LEMMA WithSetIs ==
    ASSUME NEW c, NEW b, NEW s \in CacheStates(c, b), NEW k \in SetNos(c),
           NEW set \in CacheSet(c), NEW t, t = WithSet(s, k, set)
    PROVE  /\ t \in CacheStates(c, b) /\ t.next = s.next /\ t.stats = s.stats
           /\ t.sets[k] = set
           /\ \A j \in SetNos(c) : j # k => t.sets[j] = s.sets[j]
<1>1. s.sets \in [SetNos(c) -> CacheSet(c)]
  BY StateFields
<1>2. /\ t.sets = [s.sets EXCEPT ![k] = set]
      /\ t.next = s.next /\ t.stats = s.stats
      /\ t = [sets |-> t.sets, stats |-> s.stats, next |-> s.next]
  BY DEF CacheStates, WithSet
<1>3. t.sets \in [SetNos(c) -> CacheSet(c)]
  BY <1>1, <1>2
<1>4. t \in CacheStates(c, b)
  BY <1>2, <1>3 DEF CacheStates, CacheSet
<1> QED  BY <1>1, <1>2, <1>4

(* The set after a write of byte v at offset o into its line n. *)
WrittenSet(set, n, o, v) == [set EXCEPT ![n].block[o] = v, ![n].dirty = TRUE]

(* A set with a byte written into a line. *)
LEMMA WrittenSetIs ==
    ASSUME NEW c, NEW set \in CacheSet(c), NEW n \in LineNos(c),
           NEW o \in Offsets(c), NEW v \in Byte
    PROVE  /\ WrittenSet(set, n, o, v) \in CacheSet(c)
           /\ \A i \in LineNos(c) : i # n => WrittenSet(set, n, o, v)[i] = set[i]
           /\ WrittenSet(set, n, o, v)[n].valid = set[n].valid
           /\ WrittenSet(set, n, o, v)[n].dirty
           /\ WrittenSet(set, n, o, v)[n].tag = set[n].tag
           /\ WrittenSet(set, n, o, v)[n].block = [set[n].block EXCEPT ![o] = v]
           /\ WrittenSet(set, n, o, v)[n].last_time_accessed
                = set[n].last_time_accessed
<1> DEFINE l == [set[n] EXCEPT !.block = [set[n].block EXCEPT ![o] = v],
                               !.dirty = TRUE]
<1>1. set[n] \in Line(c) /\ set \in [LineNos(c) -> Line(c)]
  BY DEF CacheSet
<1>2. [set[n].block EXCEPT ![o] = v] \in [Offsets(c) -> Byte]
  BY <1>1 DEF Line
<1>3. /\ l \in Line(c) /\ l.valid = set[n].valid /\ l.dirty /\ l.tag = set[n].tag
      /\ l.block = [set[n].block EXCEPT ![o] = v]
      /\ l.last_time_accessed = set[n].last_time_accessed
  BY <1>1, <1>2 DEF Line
<1>4. WrittenSet(set, n, o, v) = [set EXCEPT ![n] = l]
  BY <1>1 DEF WrittenSet, Line
<1> HIDE DEF l
<1>5. WrittenSet(set, n, o, v) \in [LineNos(c) -> Line(c)]
  BY <1>1, <1>3, <1>4
<1>6. WrittenSet(set, n, o, v)[n] = l
  BY <1>1, <1>4
<1>7. \A i \in LineNos(c) : i # n => WrittenSet(set, n, o, v)[i] = set[i]
  BY <1>1, <1>4
<1> QED  BY <1>3, <1>5, <1>6, <1>7 DEF CacheSet

(* Every access is a hit or a miss, and every miss read a block. *)
Balanced(c, s) ==
    /\ s.stats.reads + s.stats.writes = s.stats.hits + s.stats.misses
    /\ s.next.stats.reads = c.block_size * s.stats.misses

(* What a cache is to the level above it. *)
CacheOf(c, b, q) ==
    [fit   |-> Fit(c, q),
     sound |-> {s \in CacheStates(c, b) : Coherent(c, q, s) /\ Balanced(c, s)},
     view  |-> [s \in CacheStates(c, b) |-> SeenThrough(c, s, q.view[s.next])]]

(* The view of the cache in state s has what is shown, byte for byte. *)
Views(c, A, b, q, s) ==
    /\ CacheOf(c, b, q).view[s] \in [A -> Byte]
    /\ \A a \in A : CacheOf(c, b, q).view[s][a] = Shown(c, q, s, a)

(* The view of a cache is what it shows, address for address. *)
LEMMA ViewIs ==
    ASSUME NEW c \in Geometry, NEW A \in SUBSET Nat, NEW b, NEW q,
           Describes(A, b, q), NEW s \in CacheStates(c, b)
    PROVE  Views(c, A, b, q, s)
<1>1. s.next \in b.states
  BY StateFields
<1>2. q.view[s.next] \in [A -> Byte]
  BY <1>1 DEF Describes
<1>3. CacheOf(c, b, q).view[s] = SeenThrough(c, s, q.view[s.next])
  BY DEF CacheOf
<1>4. ASSUME NEW a \in A, NEW d, d = decompose_address(c, a),
             NEW hits, hits = Hits(s.sets[d.set], d.tag),
             NEW shown, shown = IF hits # {} THEN s.sets[d.set][Min(hits)].block[d.offset]
                                ELSE q.view[s.next][a]
      PROVE  shown \in Byte
  <2>1. d.set \in SetNos(c) /\ d.offset \in Offsets(c)
    BY <1>4, Decomposed DEF Address
  <2>2. s.sets[d.set] \in CacheSet(c)
    BY <2>1, StateFields
  <2>3. hits \in SUBSET LineNos(c) /\ hits \in SUBSET Nat
    <3>1. DOMAIN s.sets[d.set] = LineNos(c)
      BY <2>2 DEF CacheSet
    <3>2. hits \in SUBSET LineNos(c)
      BY <1>4, <3>1 DEF Hits
    <3> QED  BY <3>2 DEF LineNos
  <2>4. CASE hits # {}
    <3>1. Min(hits) \in LineNos(c)
      BY <2>3, <2>4, MinOf
    <3>2. s.sets[d.set][Min(hits)] \in Line(c)
      BY <2>2, <3>1 DEF CacheSet
    <3> QED  BY <1>4, <2>1, <2>4, <3>2 DEF Line
  <2>5. CASE hits = {}
    BY <1>2, <1>4, <2>5
  <2> QED  BY <2>4, <2>5
<1>5. ASSUME NEW a \in A PROVE CacheOf(c, b, q).view[s][a] \in Byte
  <2> DEFINE d == decompose_address(c, a)
             hits == Hits(s.sets[d.set], d.tag)
             shown == IF hits # {} THEN s.sets[d.set][Min(hits)].block[d.offset]
                      ELSE q.view[s.next][a]
  <2>1. CacheOf(c, b, q).view[s][a] = shown
    BY <1>2, <1>3 DEF SeenThrough
  <2> HIDE DEF shown
  <2>2. shown = IF hits # {} THEN s.sets[d.set][Min(hits)].block[d.offset]
                ELSE q.view[s.next][a]
    BY DEF shown
  <2> HIDE DEF hits
  <2>3. hits = Hits(s.sets[d.set], d.tag)
    BY DEF hits
  <2> HIDE DEF d
  <2>4. d = decompose_address(c, a)
    BY DEF d
  <2> QED  BY <1>4, <2>1, <2>2, <2>3, <2>4
<1>6. CacheOf(c, b, q).view[s] \in [A -> Byte]
  BY <1>2, <1>3, <1>5 DEF SeenThrough
<1> QED  BY <1>3, <1>6 DEF Shown, Views

(* What an access with d does to the sets: line n has the block, and is now   *)
(* the latest of its set.                                                    *)
Accessed(c, s, t, d, n) ==
    /\ t.sets[d.set][n].valid /\ t.sets[d.set][n].tag = d.tag
    /\ \A i \in LineNos(c) : i # n =>
          /\ t.sets[d.set][i].valid = s.sets[d.set][i].valid
          /\ t.sets[d.set][i].tag = s.sets[d.set][i].tag
    /\ \A i \in LineNos(c) : t.sets[d.set][i].last_time_accessed =
          IF i = n THEN c.lines_per_set - 1
          ELSE IF s.sets[d.set][i].last_time_accessed
                    > s.sets[d.set][n].last_time_accessed
          THEN s.sets[d.set][i].last_time_accessed - 1
          ELSE s.sets[d.set][i].last_time_accessed
    /\ \A j \in SetNos(c) : j # d.set => t.sets[j] = s.sets[j]

(* An access and the time it stamps on the line keep the cache coherent,    *)
(* all that it shows and its statistics in balance.                         *)
LEMMA AccessIs ==
    ASSUME NEW c, NEW A, NEW b, NEW q, NEW s, Served(c, A, b, q, s), Balanced(c, s),
           NEW a \in Address, NEW d, d = decompose_address(c, a),
           NEW n \in LineNos(c), NEW r, r.ok, Resolves(c, A, b, q, s, a, d, n, r),
           NEW what \in {"reads", "writes"},
           NEW touched, touched = Touched(c, r.s.sets[d.set], n),
           NEW t, t = WithSet(Counted(r.s, what), d.set, touched)
    PROVE  /\ touched \in CacheSet(c) /\ Served(c, A, b, q, t) /\ Balanced(c, t)
           /\ \A x \in A : Shown(c, q, t, x) = Shown(c, q, s, x)
           /\ t.stats.reads = IF what = "reads" THEN s.stats.reads + 1
                              ELSE s.stats.reads
           /\ t.sets[d.set] = touched /\ t.next = r.s.next
           /\ Accessed(c, s, t, d, n)
<1> DEFINE u == r.s
           w == Counted(u, what)
<1>1. /\ c \in Geometry /\ A \in SUBSET Nat /\ Describes(A, b, q) /\ TypedBase(b)
      /\ s \in CacheStates(c, b)
  BY DEF Served, Serves
<1>2. d.set \in SetNos(c) /\ d.tag \in Nat
  BY <1>1, Decomposed
<1>3. /\ Served(c, A, b, q, u)
      /\ \A x \in A : Shown(c, q, u, x) = Shown(c, q, s, x)
      /\ u.stats.reads = s.stats.reads
      /\ u.stats.writes = s.stats.writes
      /\ \/ /\ u.stats.hits = s.stats.hits + 1
            /\ u.stats.misses = s.stats.misses
            /\ u.next.stats.reads = s.next.stats.reads
         \/ /\ u.stats.hits = s.stats.hits
            /\ u.stats.misses = s.stats.misses + 1
            /\ u.next.stats.reads = s.next.stats.reads + c.block_size
      /\ u.sets[d.set][n].valid /\ u.sets[d.set][n].tag = d.tag
      /\ u.sets[d.set][n].last_time_accessed = s.sets[d.set][n].last_time_accessed
      /\ \A j \in SetNos(c), i \in LineNos(c) :
           j # d.set \/ i # n => u.sets[j][i] = s.sets[j][i]
  BY DEF Resolves
<1> HIDE DEF u
<1>4. u \in CacheStates(c, b)
  BY <1>3 DEF Served
<1>5. /\ w \in CacheStates(c, b) /\ w.sets = u.sets /\ w.next = u.next
      /\ w.stats.hits = u.stats.hits /\ w.stats.misses = u.stats.misses
      /\ w.stats.reads = IF what = "reads" THEN u.stats.reads + 1 ELSE u.stats.reads
      /\ w.stats.writes = IF what = "writes" THEN u.stats.writes + 1
                          ELSE u.stats.writes
  <2>1. /\ w \in CacheStates(c, b) /\ w.sets = u.sets /\ w.next = u.next
        /\ \A x \in {"reads", "writes", "hits", "misses"} :
            w.stats[x] = IF x = what THEN u.stats[x] + 1 ELSE u.stats[x]
    BY <1>4, CountedIs
  <2> HIDE DEF w
  <2> QED  BY <2>1
<1>6. /\ Served(c, A, b, q, w)
      /\ \A x \in A : Shown(c, q, w, x) = Shown(c, q, u, x)
  BY <1>3, CountedServed
<1> HIDE DEF w
<1>7. u.sets[d.set] \in CacheSet(c) /\ s.sets[d.set] \in CacheSet(c)
  BY <1>1, <1>2, <1>4, StateFields
<1>8. touched = Touched(c, u.sets[d.set], n)
  BY DEF u
<1>9. touched \in CacheSet(c) /\ \A i \in LineNos(c) :
        /\ Alike(touched[i], u.sets[d.set][i])
        /\ touched[i].last_time_accessed =
             IF i = n THEN c.lines_per_set - 1
             ELSE IF u.sets[d.set][i].last_time_accessed
                        > u.sets[d.set][n].last_time_accessed
             THEN u.sets[d.set][i].last_time_accessed - 1
             ELSE u.sets[d.set][i].last_time_accessed
  <2>1. \A set \in CacheSet(c) : Touched(c, set, n) \in CacheSet(c) /\
          \A i \in LineNos(c) :
            /\ Alike(Touched(c, set, n)[i], set[i])
            /\ Touched(c, set, n)[i].last_time_accessed =
                 IF i = n THEN c.lines_per_set - 1
                 ELSE IF set[i].last_time_accessed > set[n].last_time_accessed
                 THEN set[i].last_time_accessed - 1
                 ELSE set[i].last_time_accessed
    BY <1>1, TouchedIs DEF Alike
  <2> QED  BY <1>7, <1>8, <2>1
<1>10. /\ t \in CacheStates(c, b) /\ t.next = u.next /\ t.stats = w.stats
       /\ t.sets[d.set] = touched
       /\ \A j \in SetNos(c) : j # d.set => t.sets[j] = u.sets[j]
  <2>1. t = WithSet(w, d.set, touched)
    BY DEF w, u
  <2>2. w \in CacheStates(c, b) /\ d.set \in SetNos(c) /\ touched \in CacheSet(c)
    BY <1>2, <1>5, <1>9
  <2>3. /\ t \in CacheStates(c, b) /\ t.next = w.next /\ t.stats = w.stats
        /\ t.sets[d.set] = touched
        /\ \A j \in SetNos(c) : j # d.set => t.sets[j] = w.sets[j]
    BY <2>1, <2>2, WithSetIs
  <2> QED  BY <1>5, <2>3
<1>11. Served(c, A, b, q, t) /\ \A x \in A : Shown(c, q, t, x) = Shown(c, q, s, x)
  <2>1. /\ Coherent(c, q, u) /\ u.next \in q.sound /\ t.next \in q.sound
        /\ q.view[t.next] = q.view[u.next]
    BY <1>3, <1>10 DEF Served, Coherent
  <2>2. LinesLike(c, t, u)
    <3> SUFFICES ASSUME NEW j \in SetNos(c), NEW i \in LineNos(c)
                 PROVE  Alike(t.sets[j][i], u.sets[j][i])
      BY DEF LinesLike
    <3>1. CASE j = d.set
      BY <1>9, <1>10, <3>1
    <3>2. CASE j # d.set
      BY <1>10, <3>2 DEF Alike
    <3> QED  BY <3>1, <3>2
  <2>3. Coherent(c, q, t) /\ \A x \in A : Shown(c, q, t, x) = Shown(c, q, u, x)
    <3>1. /\ c \in Geometry /\ A \in SUBSET Nat /\ Describes(A, b, q)
          /\ u \in CacheStates(c, b) /\ t \in CacheStates(c, b)
      BY <1>1, <1>4, <1>10
    <3>2. /\ Coherent(c, q, u) /\ t.next \in q.sound
          /\ q.view[t.next] = q.view[u.next]
      BY <2>1
    <3> QED  BY <2>2, <3>1, <3>2, LinesAlike
  <2> QED  BY <1>1, <1>3, <1>10, <2>3 DEF Served
<1>12. Balanced(c, t)
  <2>1. /\ t.stats.hits = u.stats.hits /\ t.stats.misses = u.stats.misses
        /\ t.stats.reads + t.stats.writes = s.stats.reads + s.stats.writes + 1
        /\ t.next.stats.reads = u.next.stats.reads
    <3>1. s.stats.reads \in Nat /\ s.stats.writes \in Nat
      BY <1>1, StateFields DEF Counters
    <3>2. /\ t.stats = w.stats /\ t.next = u.next
          /\ u.stats.reads = s.stats.reads /\ u.stats.writes = s.stats.writes
      BY <1>3, <1>10
    <3> QED  BY <1>5, <3>1, <3>2
  <2>2. /\ s.stats.hits \in Nat /\ s.stats.misses \in Nat /\ c.block_size \in Nat
        /\ s.stats.reads \in Nat /\ s.stats.writes \in Nat
    BY <1>1, StateFields, GeometryFields DEF Counters
  <2>3. /\ s.stats.reads + s.stats.writes = s.stats.hits + s.stats.misses
        /\ s.next.stats.reads = c.block_size * s.stats.misses
    BY DEF Balanced
  <2>4. t.stats.reads + t.stats.writes = t.stats.hits + t.stats.misses
    <3>1. u.stats.hits + u.stats.misses = s.stats.hits + s.stats.misses + 1
      BY <1>3, <2>2
    <3>2. s.stats.reads + s.stats.writes + 1 = s.stats.hits + s.stats.misses + 1
      BY <2>3
    <3> QED  BY <2>1, <3>1, <3>2
  <2>5. t.next.stats.reads = c.block_size * t.stats.misses
    <3>1. \A x, y \in Nat : x * (y + 1) = x * y + x
      OBVIOUS
    <3>2. c.block_size * (s.stats.misses + 1)
            = c.block_size * s.stats.misses + c.block_size
      BY <2>2, <3>1
    <3> QED  BY <1>3, <2>1, <2>3, <3>2
  <2> QED  BY <2>4, <2>5 DEF Balanced
<1>13. Accessed(c, s, t, d, n)
  <2>1. t.sets[d.set][n].valid /\ t.sets[d.set][n].tag = d.tag
    BY <1>3, <1>9, <1>10 DEF Alike
  <2>2. ASSUME NEW i \in LineNos(c), i # n
        PROVE  /\ t.sets[d.set][i].valid = s.sets[d.set][i].valid
               /\ t.sets[d.set][i].tag = s.sets[d.set][i].tag
    <3>1. Alike(t.sets[d.set][i], u.sets[d.set][i])
      BY <1>9, <1>10
    <3>2. u.sets[d.set][i] = s.sets[d.set][i]
      BY <1>2, <1>3, <2>2
    <3> QED  BY <3>1, <3>2 DEF Alike
  <2>3. ASSUME NEW i \in LineNos(c)
        PROVE  u.sets[d.set][i].last_time_accessed
                    = s.sets[d.set][i].last_time_accessed
    BY <1>2, <1>3
  <2>4. ASSUME NEW i \in LineNos(c)
        PROVE  t.sets[d.set][i].last_time_accessed =
                 IF i = n THEN c.lines_per_set - 1
                 ELSE IF s.sets[d.set][i].last_time_accessed
                            > s.sets[d.set][n].last_time_accessed
                 THEN s.sets[d.set][i].last_time_accessed - 1
                 ELSE s.sets[d.set][i].last_time_accessed
    <3>1. t.sets[d.set][i] = touched[i]
      BY <1>10
    <3>2. touched[i].last_time_accessed =
            IF i = n THEN c.lines_per_set - 1
            ELSE IF u.sets[d.set][i].last_time_accessed
                       > u.sets[d.set][n].last_time_accessed
            THEN u.sets[d.set][i].last_time_accessed - 1
            ELSE u.sets[d.set][i].last_time_accessed
      BY <1>9
    <3> QED  BY <2>3, <3>1, <3>2
  <2>5. ASSUME NEW j \in SetNos(c), j # d.set PROVE t.sets[j] = s.sets[j]
    <3>1. t.sets[j] = u.sets[j]
      BY <1>10, <2>5
    <3>2. u.sets[j] \in [LineNos(c) -> Line(c)] /\ s.sets[j] \in [LineNos(c) -> Line(c)]
      BY <1>1, <1>4, StateFields DEF CacheSet
    <3>3. \A i \in LineNos(c) : u.sets[j][i] = s.sets[j][i]
      BY <1>3, <2>5
    <3> QED  BY <3>1, <3>2, <3>3
  <2> QED  BY <2>1, <2>2, <2>4, <2>5 DEF Accessed
<1>14. t.stats.reads = IF what = "reads" THEN s.stats.reads + 1 ELSE s.stats.reads
  <2>1. t.stats = w.stats /\ u.stats.reads = s.stats.reads
    BY <1>3, <1>10
  <2> QED  BY <1>5, <2>1
<1> QED  BY <1>9, <1>10, <1>11, <1>12, <1>13, <1>14 DEF u

(* The sound states of a cache are the coherent and balanced ones. *)
LEMMA SoundIs ==
    ASSUME NEW c, NEW A, NEW b, NEW q, NEW s,
           c \in Geometry, A \in SUBSET Nat, TypedBase(b), Serves(A, b, q)
    PROVE  s \in CacheOf(c, b, q).sound
             <=> Served(c, A, b, q, s) /\ Balanced(c, s)
BY DEF Served, CacheOf

(* Two states that show the same have one view. *)
LEMMA ViewSame ==
    ASSUME NEW c, NEW A, NEW b, NEW q, NEW s, NEW t,
           Served(c, A, b, q, s), Served(c, A, b, q, t),
           \A a \in A : Shown(c, q, t, a) = Shown(c, q, s, a)
    PROVE  CacheOf(c, b, q).view[t] = CacheOf(c, b, q).view[s]
<1>1. Views(c, A, b, q, s) /\ Views(c, A, b, q, t)
  BY ViewIs DEF Served, Serves
<1> DEFINE v == CacheOf(c, b, q).view[s]
           w == CacheOf(c, b, q).view[t]
<1>2. /\ v \in [A -> Byte] /\ w \in [A -> Byte]
      /\ \A a \in A : w[a] = Shown(c, q, t, a) /\ v[a] = Shown(c, q, s, a)
  BY <1>1 DEF Views
<1> HIDE DEF v, w
<1>3. \A a \in A : w[a] = v[a]
  BY <1>2
<1>4. v = w
  BY <1>2, <1>3
<1> QED  BY <1>4 DEF v, w

(* A read of the cache: what its next memory promised, it promises. *)
ReadsOnce(c, A, b, q, s, a, r) ==
    /\ r.ok <=> a \in Fit(c, q)
    /\ r.ok => /\ Served(c, A, b, q, r.s) /\ Balanced(c, r.s)
               /\ CacheOf(c, b, q).view[r.s] = CacheOf(c, b, q).view[s]
               /\ r.byte = CacheOf(c, b, q).view[s][a]
               /\ r.s.stats.reads = s.stats.reads + 1

(* A read returns the byte that the cache shows (cache_read_byte). *)
LEMMA ReadIs ==
    ASSUME NEW c, NEW A, NEW b, NEW q, NEW s, Served(c, A, b, q, s), Balanced(c, s),
           NEW a \in Address, NEW d, d = decompose_address(c, a),
           NEW n, n = LineFor(s.sets[d.set], d.tag),
           NEW r, r = cache_read_byte(c, b, s, a)
    PROVE  /\ ReadsOnce(c, A, b, q, s, a, r)
           /\ r.ok => Accessed(c, s, r.s, d, n)
<1> DEFINE u == resolve_cache_access(c, b, s, a)
           touched == Touched(c, u.s.sets[d.set], n)
           t == WithSet(Counted(u.s, "reads"), d.set, touched)
           byte == u.s.sets[d.set][n].block[d.offset]
<1>1. /\ c \in Geometry /\ A \in SUBSET Nat /\ Describes(A, b, q) /\ TypedBase(b)
      /\ s \in CacheStates(c, b)
  BY DEF Served, Serves
<1>2. d.set \in SetNos(c)
  BY <1>1, Decomposed
<1>3. n \in LineNos(c)
  BY <1>1, <1>2, StateFields, LineForIs
<1>4. Resolves(c, A, b, q, s, a, d, n, u)
  BY ResolveIs
<1>5. u.s \in CacheStates(c, b)
  BY <1>1, ResolveTyped
<1>6. r = IF ~u.ok THEN [ok |-> FALSE, s |-> s, byte |-> 0]
          ELSE [ok   |-> TRUE,
                s    |-> [Counted(u.s, "reads") EXCEPT
                             !.sets[d.set] = Touched(c, @, n)],
                byte |-> byte]
  BY DEF cache_read_byte
<1> HIDE DEF u, byte
<1>7. [Counted(u.s, "reads") EXCEPT !.sets[d.set] = Touched(c, @, n)] = t
  <2>1. Counted(u.s, "reads").sets = u.s.sets
    BY <1>5, CountedIs
  <2> QED  BY <2>1 DEF WithSet
<1> HIDE DEF t
<1>8. r = IF ~u.ok THEN [ok |-> FALSE, s |-> s, byte |-> 0]
          ELSE [ok |-> TRUE, s |-> t, byte |-> byte]
  BY <1>6, <1>7
<1>9. CASE ~u.ok
  <2>1. r.ok = FALSE
    BY <1>8, <1>9
  <2> QED  BY <1>4, <1>9, <2>1 DEF Resolves, ReadsOnce
<1>10. CASE u.ok
  <2>1. r.ok = TRUE /\ r.s = t /\ r.byte = byte
    BY <1>8, <1>10
  <2>2. a \in Fit(c, q)
    BY <1>4, <1>10 DEF Resolves
  <2>3. /\ Served(c, A, b, q, t) /\ Balanced(c, t)
        /\ \A x \in A : Shown(c, q, t, x) = Shown(c, q, s, x)
        /\ t.stats.reads = s.stats.reads + 1
        /\ Accessed(c, s, t, d, n)
    <3>1. t = WithSet(Counted(u.s, "reads"), d.set, touched)
      BY DEF t
    <3> HIDE DEF touched
    <3>2. touched = Touched(c, u.s.sets[d.set], n)
      BY DEF touched
    <3> QED  BY <1>3, <1>4, <1>10, <3>1, <3>2, AccessIs
  <2>4. CacheOf(c, b, q).view[t] = CacheOf(c, b, q).view[s]
    BY <2>3, ViewSame
  <2>5. byte = CacheOf(c, b, q).view[s][a]
    <3>1. a \in A
      BY <1>1, <2>2, FitIs
    <3>2. CacheOf(c, b, q).view[s][a] = Shown(c, q, s, a)
      <4>1. Views(c, A, b, q, s)
        BY <1>1, ViewIs
      <4> QED  BY <3>1, <4>1 DEF Views
    <3>3. /\ Served(c, A, b, q, u.s) /\ Shown(c, q, u.s, a) = Shown(c, q, s, a)
          /\ u.s.sets[d.set][n].valid /\ u.s.sets[d.set][n].tag = d.tag
      BY <1>4, <1>10, <3>1 DEF Resolves
    <3>4. Holds(c, u.s.sets[d.set][n], d.set, a)
      BY <3>3 DEF Holds
    <3>5. ShownAt(c, q, u.s, a, d)
      <4>1. Unique(c, u.s)
        BY <3>3 DEF Served, Coherent
      <4> QED  BY <1>1, <1>5, <3>1, <4>1, ShownAtIs
    <3>6. Shown(c, q, u.s, a) = byte
      BY <1>3, <3>4, <3>5 DEF ShownAt, byte
    <3> QED  BY <3>2, <3>3, <3>6
  <2> QED  BY <2>1, <2>2, <2>3, <2>4, <2>5 DEF ReadsOnce
<1> QED  BY <1>9, <1>10

(* A write of the cache. *)
WritesOnce(c, A, b, q, s, a, v, r) ==
    /\ r.ok <=> a \in Fit(c, q)
    /\ r.ok => /\ Served(c, A, b, q, r.s) /\ Balanced(c, r.s)
               /\ CacheOf(c, b, q).view[r.s]
                    = [CacheOf(c, b, q).view[s] EXCEPT ![a] = v]
               /\ r.s.stats.reads = s.stats.reads

(* cache_write_byte, with the written set named. *)
LEMMA WriteForm ==
    ASSUME NEW c, NEW b, NEW s, NEW a, NEW v
    PROVE  LET d == decompose_address(c, a)
               n == LineFor(s.sets[d.set], d.tag)
               u == resolve_cache_access(c, b, s, a)
               touched == Touched(c, u.s.sets[d.set], n)
           IN  cache_write_byte(c, b, s, a, v) =
                 IF ~u.ok THEN Failed(s)
                 ELSE Done(WithSet(Counted(u.s, "writes"), d.set,
                                   WrittenSet(touched, n, d.offset, v)))
BY DEF cache_write_byte, WithSet, WrittenSet

(* After a write the cache shows the byte written, and every other as       *)
(* before (cache_write_byte).                                               *)
LEMMA WriteIs ==
    ASSUME NEW c, NEW A, NEW b, NEW q, NEW s, Served(c, A, b, q, s), Balanced(c, s),
           NEW a \in Address, NEW d, d = decompose_address(c, a),
           NEW n, n = LineFor(s.sets[d.set], d.tag), NEW v \in Byte,
           NEW r, r = cache_write_byte(c, b, s, a, v)
    PROVE  /\ WritesOnce(c, A, b, q, s, a, v, r)
           /\ r.ok => Accessed(c, s, r.s, d, n)
<1> DEFINE u == resolve_cache_access(c, b, s, a)
           w == Counted(u.s, "writes")
           touched == Touched(c, u.s.sets[d.set], n)
           written == WrittenSet(touched, n, d.offset, v)
           p == WithSet(w, d.set, touched)
           t == WithSet(w, d.set, written)
<1>1. /\ c \in Geometry /\ A \in SUBSET Nat /\ Describes(A, b, q) /\ TypedBase(b)
      /\ s \in CacheStates(c, b)
  BY DEF Served, Serves
<1>2. d.set \in SetNos(c) /\ d.offset \in Offsets(c)
  BY <1>1, Decomposed
<1>3. n \in LineNos(c)
  BY <1>1, <1>2, StateFields, LineForIs
<1>4. Resolves(c, A, b, q, s, a, d, n, u)
  BY ResolveIs
<1>5. u.s \in CacheStates(c, b)
  BY <1>1, ResolveTyped
<1>6. r = IF ~u.ok THEN Failed(s) ELSE Done(t)
  BY WriteForm
<1> HIDE DEF u, w, touched, written, p, t
<1>7. CASE ~u.ok
  <2>1. r.ok = FALSE
    BY <1>6, <1>7 DEF Failed
  <2> QED  BY <1>4, <1>7, <2>1 DEF Resolves, WritesOnce
<1>8. CASE u.ok
  <2>1. r.ok = TRUE /\ r.s = t
    BY <1>6, <1>8 DEF Done
  <2>2. a \in Fit(c, q)
    BY <1>4, <1>8 DEF Resolves
  <2>3. /\ touched \in CacheSet(c)
        /\ Served(c, A, b, q, p) /\ Balanced(c, p)
        /\ \A x \in A : Shown(c, q, p, x) = Shown(c, q, s, x)
        /\ p.stats.reads = s.stats.reads /\ p.sets[d.set] = touched
        /\ Accessed(c, s, p, d, n)
    <3>1. /\ touched = Touched(c, u.s.sets[d.set], n)
          /\ p = WithSet(Counted(u.s, "writes"), d.set, touched)
      BY DEF touched, p, w
    <3> QED  BY <1>3, <1>4, <1>8, <3>1, AccessIs
  <2>4. /\ written \in CacheSet(c)
        /\ \A i \in LineNos(c) : i # n => written[i] = touched[i]
        /\ written[n].valid = touched[n].valid /\ written[n].dirty
        /\ written[n].tag = touched[n].tag
        /\ written[n].block = [touched[n].block EXCEPT ![d.offset] = v]
        /\ written[n].last_time_accessed = touched[n].last_time_accessed
    BY <1>2, <1>3, <2>3, WrittenSetIs DEF written
  <2>5. w \in CacheStates(c, b)
    BY <1>5, CountedIs DEF w
  <2>6. /\ t \in CacheStates(c, b) /\ t.next = w.next /\ t.stats = w.stats
        /\ t.sets[d.set] = written
        /\ \A j \in SetNos(c) : j # d.set => t.sets[j] = w.sets[j]
    BY <1>2, <2>4, <2>5, WithSetIs DEF t
  <2>7. /\ p \in CacheStates(c, b) /\ p.next = w.next /\ p.stats = w.stats
        /\ \A j \in SetNos(c) : j # d.set => p.sets[j] = w.sets[j]
    BY <1>2, <2>3, <2>5, WithSetIs DEF p
  <2>8. touched[n].valid /\ touched[n].tag = d.tag
    BY <2>3 DEF Accessed
  <2>9. a \in A
    BY <1>1, <2>2, FitIs
  <2>10. /\ Coherent(c, q, t)
         /\ ByteShown(c, A, q, p, t, a, v)
    <3>1. Coherent(c, q, p)
      BY <2>3 DEF Served
    <3>2. Holds(c, p.sets[d.set][n], d.set, a)
      BY <2>3, <2>8 DEF Holds
    <3>3. \A j \in SetNos(c), i \in LineNos(c) :
            j # d.set \/ i # n => Alike(t.sets[j][i], p.sets[j][i])
      <4> SUFFICES ASSUME NEW j \in SetNos(c), NEW i \in LineNos(c),
                          j # d.set \/ i # n
                   PROVE  t.sets[j][i] = p.sets[j][i]
        BY DEF Alike
      <4>1. CASE j = d.set
        BY <2>3, <2>4, <2>6, <4>1
      <4>2. CASE j # d.set
        BY <2>6, <2>7, <4>2
      <4> QED  BY <4>1, <4>2
    <3>4. Writes(t.sets[d.set][n], p.sets[d.set][n], d.offset, v)
      BY <2>3, <2>4, <2>6, <2>8 DEF Writes
    <3>5. t.next = p.next
      BY <2>6, <2>7
    <3> QED  BY <1>1, <1>3, <2>6, <2>7, <2>9, <3>1, <3>2, <3>3, <3>4, <3>5,
                LineWritten
  <2>11. Served(c, A, b, q, t)
    BY <2>3, <2>6, <2>10 DEF Served
  <2>12. Balanced(c, t) /\ t.stats.reads = s.stats.reads
    BY <2>3, <2>6, <2>7 DEF Balanced
  <2>13. CacheOf(c, b, q).view[t] = [CacheOf(c, b, q).view[s] EXCEPT ![a] = v]
    <3> DEFINE f == CacheOf(c, b, q).view[s]
               g == CacheOf(c, b, q).view[t]
    <3>. Views(c, A, b, q, s) /\ Views(c, A, b, q, t)
      BY <1>1, <2>6, ViewIs
    <3>1. f \in [A -> Byte] /\ \A x \in A : f[x] = Shown(c, q, s, x)
      BY DEF Views
    <3>2. g \in [A -> Byte] /\ \A x \in A : g[x] = Shown(c, q, t, x)
      BY DEF Views
    <3> HIDE DEF f, g
    <3>3. \A x \in A : g[x] = IF x = a THEN v ELSE f[x]
      BY <2>3, <2>10, <3>1, <3>2 DEF ByteShown
    <3>4. g = [f EXCEPT ![a] = v]
      BY <3>1, <3>2, <3>3
    <3> QED  BY <3>4 DEF f, g
  <2>14. Accessed(c, s, t, d, n)
    <3>1. /\ t.sets[d.set][n].valid /\ t.sets[d.set][n].tag = d.tag
      BY <2>4, <2>6, <2>8
    <3>2. ASSUME NEW i \in LineNos(c)
          PROVE  /\ i # n => t.sets[d.set][i] = p.sets[d.set][i]
                 /\ t.sets[d.set][i].last_time_accessed
                        = p.sets[d.set][i].last_time_accessed
      BY <2>3, <2>4, <2>6
    <3>3. \A j \in SetNos(c) : j # d.set => t.sets[j] = s.sets[j]
      BY <2>3, <2>6, <2>7 DEF Accessed
    <3>4. ASSUME NEW i \in LineNos(c), i # n
          PROVE  /\ t.sets[d.set][i].valid = s.sets[d.set][i].valid
                 /\ t.sets[d.set][i].tag = s.sets[d.set][i].tag
      BY <2>3, <3>2, <3>4 DEF Accessed
    <3>5. ASSUME NEW i \in LineNos(c)
          PROVE  t.sets[d.set][i].last_time_accessed =
                   IF i = n THEN c.lines_per_set - 1
                   ELSE IF s.sets[d.set][i].last_time_accessed
                             > s.sets[d.set][n].last_time_accessed
                   THEN s.sets[d.set][i].last_time_accessed - 1
                   ELSE s.sets[d.set][i].last_time_accessed
      BY <2>3, <3>2 DEF Accessed
    <3> QED  BY <3>1, <3>3, <3>4, <3>5 DEF Accessed
  <2> QED  BY <2>1, <2>2, <2>11, <2>12, <2>13, <2>14 DEF WritesOnce
<1> QED  BY <1>7, <1>8

-----------------------------------------------------------------------------
(****************************************************************************)
(* A cache is to the level above what its next memory is to it.             *)
(****************************************************************************)

(* A read returns a byte and a state of the cache. *)
LEMMA ReadTyped ==
    ASSUME NEW c \in Geometry, NEW b, TypedBase(b), NEW s \in CacheStates(c, b),
           NEW a \in Address, NEW r, r = cache_read_byte(c, b, s, a)
    PROVE  r.ok \in BOOLEAN /\ r.s \in CacheStates(c, b) /\ r.byte \in Byte
<1> DEFINE d == decompose_address(c, a)
           n == LineFor(s.sets[d.set], d.tag)
           u == resolve_cache_access(c, b, s, a)
           t == [Counted(u.s, "reads") EXCEPT !.sets[d.set] = Touched(c, @, n)]
           byte == u.s.sets[d.set][n].block[d.offset]
<1>1. d.set \in SetNos(c) /\ d.offset \in Offsets(c)
  BY Decomposed
<1>2. n \in LineNos(c)
  BY <1>1, StateFields, LineForIs
<1>3. u.ok \in BOOLEAN /\ u.s \in CacheStates(c, b)
  BY ResolveTyped
<1>4. r = IF ~u.ok THEN [ok |-> FALSE, s |-> s, byte |-> 0]
          ELSE [ok |-> TRUE, s |-> t, byte |-> byte]
  BY DEF cache_read_byte
<1> HIDE DEF u
<1>5. byte \in Byte
  <2>1. u.s.sets[d.set][n] \in Line(c)
    BY <1>1, <1>2, <1>3, StateFields
  <2> QED  BY <1>1, <2>1 DEF Line
<1> HIDE DEF byte
<1>6. t \in CacheStates(c, b)
  <2>1. Counted(u.s, "reads") \in CacheStates(c, b)
    BY <1>3, CountedIs
  <2> DEFINE w == Counted(u.s, "reads")
             touched == Touched(c, w.sets[d.set], n)
  <2> HIDE DEF n
  <2>2. touched \in CacheSet(c)
    <3>1. w.sets[d.set] \in CacheSet(c)
      BY <1>1, <2>1, StateFields
    <3> HIDE DEF d, w
    <3> QED  BY <1>2, <3>1, TouchedIs
  <2>3. t = WithSet(w, d.set, touched)
    BY DEF WithSet
  <2> HIDE DEF t, touched, w, d
  <2>4. w \in CacheStates(c, b)
    BY <2>1 DEF w
  <2> QED  BY <1>1, <2>2, <2>3, <2>4, WithSetIs
<1> HIDE DEF t
<1>7. CASE u.ok
  BY <1>4, <1>5, <1>6, <1>7
<1>8. CASE ~u.ok
  BY <1>4, <1>8, CacheAssumption
<1> QED  BY <1>7, <1>8

(* A write returns a state of the cache. *)
LEMMA WriteTyped ==
    ASSUME NEW c \in Geometry, NEW b, TypedBase(b), NEW s \in CacheStates(c, b),
           NEW a \in Address, NEW v \in Byte,
           NEW r, r = cache_write_byte(c, b, s, a, v)
    PROVE  r.ok \in BOOLEAN /\ r.s \in CacheStates(c, b)
<1> DEFINE d == decompose_address(c, a)
           n == LineFor(s.sets[d.set], d.tag)
           u == resolve_cache_access(c, b, s, a)
           w == Counted(u.s, "writes")
           touched == Touched(c, u.s.sets[d.set], n)
           written == WrittenSet(touched, n, d.offset, v)
           t == WithSet(w, d.set, written)
<1>1. d.set \in SetNos(c) /\ d.offset \in Offsets(c)
  BY Decomposed
<1>2. n \in LineNos(c)
  BY <1>1, StateFields, LineForIs
<1>3. u.ok \in BOOLEAN /\ u.s \in CacheStates(c, b)
  BY ResolveTyped
<1>4. r = IF ~u.ok THEN Failed(s) ELSE Done(t)
  BY WriteForm
<1> HIDE DEF u
<1>5. w \in CacheStates(c, b)
  BY <1>3, CountedIs
<1> HIDE DEF n, d, w
<1>6. touched \in CacheSet(c)
  <2>1. u.s.sets[d.set] \in CacheSet(c)
    BY <1>1, <1>3, StateFields
  <2> QED  BY <1>2, <2>1, TouchedIs
<1> HIDE DEF touched
<1>7. written \in CacheSet(c)
  BY <1>1, <1>2, <1>6, WrittenSetIs
<1> HIDE DEF written
<1>8. t \in CacheStates(c, b)
  BY <1>1, <1>5, <1>7, WithSetIs
<1> HIDE DEF t
<1>9. CASE u.ok
  BY <1>4, <1>8, <1>9 DEF Done
<1>10. CASE ~u.ok
  BY <1>4, <1>10 DEF Failed
<1> QED  BY <1>9, <1>10

(* A reset clears the counters here, and passes the call on. *)
LEMMA ResetTyped ==
    ASSUME NEW c, NEW b, TypedBase(b), NEW s \in CacheStates(c, b),
           NEW t, t = cache_reset_stats(b, s)
    PROVE  /\ t \in CacheStates(c, b) /\ t.sets = s.sets /\ t.stats = NoStats
           /\ t.next = b.reset_stats[s.next]
<1>1. b.reset_stats[s.next] \in b.states
  BY StateFields DEF TypedBase
<1>2. NoStats \in Counters
  BY DEF NoStats, Counters
<1> HIDE DEF NoStats
<1> QED  BY <1>1, <1>2 DEF cache_reset_stats, CacheStates

(* An initialised cache has no valid line, and its lines' places in the     *)
(* order are their numbers (init_cache).                                    *)
LEMMA StartTyped ==
    ASSUME NEW c \in Geometry, NEW b, TypedBase(b), NEW s, s = cache_base(c, b).start
    PROVE  /\ s \in CacheStates(c, b) /\ s.stats = NoStats /\ s.next = b.start
           /\ \A k \in SetNos(c), n \in LineNos(c) :
                /\ ~s.sets[k][n].valid
                /\ s.sets[k][n].last_time_accessed = n
<1>1. /\ s.sets = [k \in SetNos(c) |-> EmptySet(c)] /\ s.stats = NoStats
      /\ s.next = b.start /\ s = [sets |-> s.sets, stats |-> s.stats, next |-> s.next]
  BY DEF cache_base
<1>2. NoStats \in Counters
  BY DEF NoStats, Counters
<1>3. EmptySet(c) \in [LineNos(c) -> Line(c)]
  BY CacheAssumption DEF EmptySet, Line
<1>4. b.start \in b.states
  BY DEF TypedBase
<1>5. s \in CacheStates(c, b)
  <2> HIDE DEF NoStats
  <2> QED  BY <1>1, <1>2, <1>3, <1>4 DEF CacheStates
<1>6. \A n \in LineNos(c) : /\ ~EmptySet(c)[n].valid
                            /\ EmptySet(c)[n].last_time_accessed = n
  BY DEF EmptySet
<1> QED  BY <1>1, <1>5, <1>6

(* A cache's functions work on its states if its next memory's do. *)
LEMMA CacheTyped ==
    ASSUME NEW c \in Geometry, NEW b, TypedBase(b)
    PROVE  TypedBase(cache_base(c, b))
<1> DEFINE C == cache_base(c, b)
<1>1. /\ C.states = CacheStates(c, b)
      /\ \A s \in CacheStates(c, b), a \in Address :
            C.read_byte[s][a] = cache_read_byte(c, b, s, a)
      /\ \A s \in CacheStates(c, b), a \in Address, v \in Byte :
            C.write_byte[s][a][v] = cache_write_byte(c, b, s, a, v)
      /\ \A s \in CacheStates(c, b) : C.reset_stats[s] = cache_reset_stats(b, s)
  BY DEF cache_base
<1>2. C.start \in CacheStates(c, b)
  BY StartTyped
<1> HIDE DEF C
<1>3. \A s \in C.states : s.stats \in Counters
  BY <1>1, StateFields
<1>4. \A s \in C.states, a \in Address :
        LET r == C.read_byte[s][a]
        IN  r.ok \in BOOLEAN /\ r.s \in C.states /\ r.byte \in Byte
  BY <1>1, ReadTyped
<1>5. \A s \in C.states, a \in Address, v \in Byte :
        LET r == C.write_byte[s][a][v]
        IN  r.ok \in BOOLEAN /\ r.s \in C.states
  BY <1>1, WriteTyped
<1>6. \A s \in C.states : C.reset_stats[s] \in C.states
  BY <1>1, ResetTyped
<1>7. TypedBase(C)
  BY <1>1, <1>2, <1>3, <1>4, <1>5, <1>6 DEF TypedBase
<1> QED  BY <1>7 DEF C

Zero(A, view) == \A a \in A : view[a] = 0

(* An initialised cache shows zero everywhere, as its memory does. *)
LEMMA StartServed ==
    ASSUME NEW c, NEW A, NEW b, NEW q,
           c \in Geometry, A \in SUBSET Nat, TypedBase(b), Serves(A, b, q),
           NEW s, s = cache_base(c, b).start
    PROVE  /\ Served(c, A, b, q, s) /\ Balanced(c, s)
           /\ Zero(A, CacheOf(c, b, q).view[s])
<1>1. /\ s \in CacheStates(c, b) /\ s.stats = NoStats /\ s.next = b.start
      /\ \A k \in SetNos(c), n \in LineNos(c) : ~s.sets[k][n].valid
  BY StartTyped
<1>2. /\ Describes(A, b, q) /\ b.start \in q.sound /\ b.start.stats = NoStats
      /\ \A a \in A : q.view[b.start][a] = 0
  BY DEF Serves, StartsAs
<1>3. Coherent(c, q, s)
  BY <1>1, <1>2 DEF Coherent, Unique, Fitting, CleanIsSame
<1>4. Balanced(c, s)
  <2>1. c.block_size \in Nat
    BY GeometryFields
  <2> QED  BY <1>1, <1>2, <2>1 DEF Balanced, NoStats
<1>5. ASSUME NEW a \in A, NEW d, d = decompose_address(c, a)
      PROVE  CacheOf(c, b, q).view[s][a] = 0
  <2>1. d.set \in SetNos(c)
    BY <1>5, Decomposed DEF Address
  <2>2. ShownAt(c, q, s, a, d)
    BY <1>1, <1>2, <1>3, <1>5, ShownAtIs DEF Coherent
  <2>3. Shown(c, q, s, a) = q.view[s.next][a]
    BY <1>1, <2>1, <2>2 DEF ShownAt, Holds
  <2>4. Views(c, A, b, q, s)
    BY <1>1, <1>2, ViewIs
  <2> QED  BY <1>1, <1>2, <2>3, <2>4 DEF Views
<1> QED  BY <1>1, <1>3, <1>4, <1>5 DEF Served, Zero

(* A reset of the statistics changes nothing shown, and leaves them in      *)
(* balance.                                                                 *)
LEMMA ResetServed ==
    ASSUME NEW c, NEW A, NEW b, NEW q, NEW s, Served(c, A, b, q, s),
           NEW t, t = cache_reset_stats(b, s)
    PROVE  /\ Served(c, A, b, q, t) /\ Balanced(c, t) /\ t.stats = NoStats
           /\ t.sets = s.sets /\ t.next = b.reset_stats[s.next]
           /\ CacheOf(c, b, q).view[t] = CacheOf(c, b, q).view[s]
<1>1. /\ c \in Geometry /\ TypedBase(b) /\ Serves(A, b, q)
      /\ s \in CacheStates(c, b) /\ s.next \in q.sound
  BY DEF Served, Coherent
<1>2. /\ t \in CacheStates(c, b) /\ t.sets = s.sets /\ t.stats = NoStats
      /\ t.next = b.reset_stats[s.next]
  BY <1>1, ResetTyped
<1>3. /\ t.next \in q.sound /\ q.view[t.next] = q.view[s.next]
      /\ t.next.stats = NoStats
  BY <1>1, <1>2 DEF Serves, ResetsAs
<1>4. /\ Served(c, A, b, q, t)
      /\ \A a \in A : Shown(c, q, t, a) = Shown(c, q, s, a)
  BY <1>2, <1>3, SetsSame
<1>5. Balanced(c, t)
  <2>1. c.block_size \in Nat
    BY <1>1, GeometryFields
  <2> QED  BY <1>2, <1>3, <2>1 DEF Balanced, NoStats
<1>6. CacheOf(c, b, q).view[t] = CacheOf(c, b, q).view[s]
  BY <1>4, ViewSame
<1> QED  BY <1>2, <1>4, <1>5, <1>6

(* A cache over a memory that serves is itself one that serves: this        *)
(* carries all that is promised up the chain.                               *)
LEMMA CacheServes ==
    ASSUME NEW c, NEW A, NEW b, NEW q,
           c \in Geometry, A \in SUBSET Nat, TypedBase(b), Serves(A, b, q)
    PROVE  Serves(A, cache_base(c, b), CacheOf(c, b, q))
<1> DEFINE C == cache_base(c, b)
           Q == CacheOf(c, b, q)
<1>1. /\ C.states = CacheStates(c, b)
      /\ \A s \in CacheStates(c, b), a \in Address :
            C.read_byte[s][a] = cache_read_byte(c, b, s, a)
      /\ \A s \in CacheStates(c, b), a \in Address, v \in Byte :
            C.write_byte[s][a][v] = cache_write_byte(c, b, s, a, v)
      /\ \A s \in CacheStates(c, b) : C.reset_stats[s] = cache_reset_stats(b, s)
  BY DEF cache_base
<1>2. Q.fit = Fit(c, q) /\ Q.sound \in SUBSET CacheStates(c, b)
  BY DEF CacheOf
<1>3. \A s : s \in Q.sound <=> Served(c, A, b, q, s) /\ Balanced(c, s)
  BY SoundIs
<1>4. Describes(A, b, q)
  BY DEF Serves
<1>5. Describes(A, C, Q)
  <2>1. Q.fit \in SUBSET A
    BY <1>2, <1>4, FitIs
  <2>2. \A s \in CacheStates(c, b) : Q.view[s] \in [A -> Byte]
    <3>1. \A s \in CacheStates(c, b) : Views(c, A, b, q, s)
      BY <1>4, ViewIs
    <3> QED  BY <3>1 DEF Views
  <2>3. Q.view \in [CacheStates(c, b) -> [A -> Byte]]
    <3>1. Q.view = [s \in CacheStates(c, b) |-> SeenThrough(c, s, q.view[s.next])]
      BY DEF CacheOf
    <3> HIDE DEF Q
    <3> QED  BY <2>2, <3>1
  <2> HIDE DEF C, Q
  <2> QED  BY <1>1, <1>2, <2>1, <2>3 DEF Describes
<1>6. StartsAs(A, C, Q)
  <2>1. /\ Served(c, A, b, q, C.start) /\ Balanced(c, C.start)
        /\ Zero(A, Q.view[C.start])
    BY StartServed
  <2>2. C.start.stats = NoStats
    BY DEF cache_base
  <2> HIDE DEF C, Q
  <2> QED  BY <1>3, <2>1, <2>2 DEF StartsAs, Zero
<1>7. ReadsAs(C, Q)
  <2> SUFFICES ASSUME NEW s \in Q.sound, NEW a \in Address, NEW r,
                      r = C.read_byte[s][a]
               PROVE  /\ r.ok <=> a \in Q.fit
                      /\ r.ok => /\ r.s \in Q.sound /\ Q.view[r.s] = Q.view[s]
                                 /\ r.byte = Q.view[s][a]
                                 /\ r.s.stats.reads = s.stats.reads + 1
    BY DEF ReadsAs
  <2>1. Served(c, A, b, q, s) /\ Balanced(c, s) /\ s \in CacheStates(c, b)
    BY <1>2, <1>3
  <2>2. r = cache_read_byte(c, b, s, a)
    BY <1>1, <2>1
  <2>3. ReadsOnce(c, A, b, q, s, a, r)
    BY <2>1, <2>2, ReadIs
  <2> HIDE DEF C, Q
  <2>4. ReadsOnce(c, A, b, q, s, a, r) =>
            /\ r.ok <=> a \in Fit(c, q)
            /\ r.ok => /\ Served(c, A, b, q, r.s) /\ Balanced(c, r.s)
                       /\ Q.view[r.s] = Q.view[s] /\ r.byte = Q.view[s][a]
                       /\ r.s.stats.reads = s.stats.reads + 1
    BY DEF ReadsOnce, Q
  <2> QED  BY <1>2, <1>3, <2>3, <2>4
<1>8. WritesAs(C, Q)
  <2> SUFFICES ASSUME NEW s \in Q.sound, NEW a \in Address, NEW v \in Byte, NEW r,
                      r = C.write_byte[s][a][v]
               PROVE  /\ r.ok <=> a \in Q.fit
                      /\ r.ok => /\ r.s \in Q.sound
                                 /\ Q.view[r.s] = [Q.view[s] EXCEPT ![a] = v]
                                 /\ r.s.stats.reads = s.stats.reads
    BY DEF WritesAs
  <2>1. Served(c, A, b, q, s) /\ Balanced(c, s) /\ s \in CacheStates(c, b)
    BY <1>2, <1>3
  <2>2. r = cache_write_byte(c, b, s, a, v)
    BY <1>1, <2>1
  <2>3. WritesOnce(c, A, b, q, s, a, v, r)
    BY <2>1, <2>2, WriteIs
  <2> HIDE DEF C, Q
  <2>4. WritesOnce(c, A, b, q, s, a, v, r) =>
            /\ r.ok <=> a \in Fit(c, q)
            /\ r.ok => /\ Served(c, A, b, q, r.s) /\ Balanced(c, r.s)
                       /\ Q.view[r.s] = [Q.view[s] EXCEPT ![a] = v]
                       /\ r.s.stats.reads = s.stats.reads
    BY DEF WritesOnce, Q
  <2> QED  BY <1>2, <1>3, <2>3, <2>4
<1>9. ResetsAs(C, Q)
  <2> SUFFICES ASSUME NEW s \in Q.sound, NEW t, t = C.reset_stats[s]
               PROVE  t \in Q.sound /\ Q.view[t] = Q.view[s] /\ t.stats = NoStats
    BY DEF ResetsAs
  <2>1. Served(c, A, b, q, s) /\ s \in CacheStates(c, b)
    BY <1>2, <1>3
  <2>2. t = cache_reset_stats(b, s)
    BY <1>1, <2>1
  <2>3. /\ Served(c, A, b, q, t) /\ Balanced(c, t) /\ t.stats = NoStats
        /\ Q.view[t] = Q.view[s]
    BY <2>1, <2>2, ResetServed
  <2> HIDE DEF C, Q
  <2> QED  BY <1>3, <2>3
<1> QED  BY <1>5, <1>6, <1>7, <1>8, <1>9 DEF Serves

-----------------------------------------------------------------------------
(****************************************************************************)
(* The memory.                                                              *)
(****************************************************************************)

Cells(m) == 0..(m.mem_size - 1)

(* What the memory is to the level above it. *)
MemoryOf(m) ==
    [fit |-> Cells(m), sound |-> MemoryStates(m),
     view |-> [s \in MemoryStates(m) |-> s.mem]]

(* The parts of a memory's state. *)
LEMMA MemoryFields ==
    ASSUME NEW m, NEW s \in MemoryStates(m)
    PROVE  s.mem \in [Cells(m) -> Byte] /\ s.stats \in Counters
BY DEF MemoryStates, Cells

(* Counting an access of the memory changes nothing else. *)
LEMMA MemoryCounted ==
    ASSUME NEW m, NEW s \in MemoryStates(m), NEW what \in {"reads", "writes"},
           NEW t, t = Counted(s, what)
    PROVE  /\ t \in MemoryStates(m) /\ t.mem = s.mem
           /\ t.stats.reads = IF what = "reads" THEN s.stats.reads + 1
                              ELSE s.stats.reads
<1> DEFINE n == [s.stats EXCEPT ![what] = s.stats[what] + 1]
<1>1. t = [s EXCEPT !.stats = n]
  BY DEF Counted
<1>2. /\ n \in Counters
      /\ n.reads = IF what = "reads" THEN s.stats.reads + 1 ELSE s.stats.reads
  BY MemoryFields DEF Counters
<1> HIDE DEF n
<1> QED  BY <1>1, <1>2 DEF MemoryStates

MemoryRead(m, s, a, r) ==
    /\ r.ok \in BOOLEAN /\ r.s \in MemoryStates(m) /\ r.byte \in Byte
    /\ r.ok <=> a \in Cells(m)
    /\ r.ok => /\ r.s.mem = s.mem /\ r.byte = s.mem[a]
               /\ r.s.stats.reads = s.stats.reads + 1

(* A read within the memory returns its byte; another fails. *)
LEMMA MemoryReads ==
    ASSUME NEW m, NEW s \in MemoryStates(m), NEW a \in Address,
           NEW r, r = memory_read_byte(s, a)
    PROVE  MemoryRead(m, s, a, r)
<1>1. s.mem \in [Cells(m) -> Byte] /\ DOMAIN s.mem = Cells(m)
  BY MemoryFields
<1>2. r = IF a \in Cells(m)
          THEN [ok |-> TRUE, s |-> Counted(s, "reads"), byte |-> s.mem[a]]
          ELSE [ok |-> FALSE, s |-> s, byte |-> 0]
  BY <1>1 DEF memory_read_byte
<1>3. CASE a \in Cells(m)
  <2>1. /\ Counted(s, "reads") \in MemoryStates(m)
        /\ Counted(s, "reads").mem = s.mem
        /\ Counted(s, "reads").stats.reads = s.stats.reads + 1
    BY MemoryCounted
  <2>2. r.ok = TRUE /\ r.s = Counted(s, "reads") /\ r.byte = s.mem[a]
    BY <1>2, <1>3
  <2> QED  BY <1>1, <1>3, <2>1, <2>2 DEF MemoryRead
<1>4. CASE a \notin Cells(m)
  <2>1. r.ok = FALSE /\ r.s = s /\ r.byte = 0
    BY <1>2, <1>4
  <2> QED  BY <1>4, <2>1, CacheAssumption DEF MemoryRead
<1> QED  BY <1>3, <1>4

MemoryWritten(m, s, a, v, r) ==
    /\ r.ok \in BOOLEAN /\ r.s \in MemoryStates(m)
    /\ r.ok <=> a \in Cells(m)
    /\ r.ok => /\ r.s.mem = [s.mem EXCEPT ![a] = v]
               /\ r.s.stats.reads = s.stats.reads

(* A write within the memory stores its byte; another fails. *)
LEMMA MemoryWrites ==
    ASSUME NEW m, NEW s \in MemoryStates(m), NEW a \in Address, NEW v \in Byte,
           NEW r, r = memory_write_byte(s, a, v)
    PROVE  MemoryWritten(m, s, a, v, r)
<1>1. s.mem \in [Cells(m) -> Byte] /\ DOMAIN s.mem = Cells(m)
  BY MemoryFields
<1> DEFINE w == Counted(s, "writes")
           t == [w EXCEPT !.mem = [w.mem EXCEPT ![a] = v]]
<1>2. r = IF a \in Cells(m) THEN Done(t) ELSE Failed(s)
  BY <1>1 DEF memory_write_byte
<1>3. w \in MemoryStates(m) /\ w.mem = s.mem /\ w.stats.reads = s.stats.reads
  BY MemoryCounted
<1> HIDE DEF w
<1>4. CASE a \in Cells(m)
  <2>1. /\ t \in MemoryStates(m) /\ t.mem = [s.mem EXCEPT ![a] = v]
        /\ t.stats = w.stats
    <3>1. [w.mem EXCEPT ![a] = v] \in [Cells(m) -> Byte]
      BY <1>1, <1>3
    <3> QED  BY <1>3, <3>1 DEF MemoryStates, Cells
  <2> HIDE DEF t
  <2>2. r.ok = TRUE /\ r.s = t
    BY <1>2, <1>4 DEF Done
  <2> QED  BY <1>3, <1>4, <2>1, <2>2 DEF MemoryWritten
<1>5. CASE a \notin Cells(m)
  <2>1. r.ok = FALSE /\ r.s = s
    BY <1>2, <1>5 DEF Failed
  <2> QED  BY <1>5, <2>1 DEF MemoryWritten
<1> QED  BY <1>4, <1>5

(* A reset of the memory's statistics leaves its bytes. *)
LEMMA MemoryResets ==
    ASSUME NEW m, NEW s \in MemoryStates(m), NEW t, t = memory_reset_stats(s)
    PROVE  t \in MemoryStates(m) /\ t.mem = s.mem /\ t.stats = NoStats
<1>1. NoStats \in Counters
  BY DEF NoStats, Counters
<1> HIDE DEF NoStats
<1> QED  BY <1>1 DEF MemoryStates, memory_reset_stats

(* The memory serves the bytes that it has. *)
LEMMA MemoryServes ==
    ASSUME NEW m, m.mem_size \in Nat \ {0}
    PROVE  TypedBase(memory_base(m)) /\ Serves(Cells(m), memory_base(m), MemoryOf(m))
<1> DEFINE M == memory_base(m)
           Q == MemoryOf(m)
<1>1. /\ M.states = MemoryStates(m)
      /\ \A s \in MemoryStates(m), a \in Address :
            M.read_byte[s][a] = memory_read_byte(s, a)
      /\ \A s \in MemoryStates(m), a \in Address, v \in Byte :
            M.write_byte[s][a][v] = memory_write_byte(s, a, v)
      /\ \A s \in MemoryStates(m) : M.reset_stats[s] = memory_reset_stats(s)
  BY DEF memory_base
<1>2. /\ M.start \in MemoryStates(m) /\ M.start.stats = NoStats
      /\ \A a \in Cells(m) : M.start.mem[a] = 0
  <2>1. /\ M.start.mem = [a \in Cells(m) |-> 0] /\ M.start.stats = NoStats
        /\ M.start = [mem |-> M.start.mem, stats |-> M.start.stats]
    BY DEF memory_base, Cells
  <2>2. NoStats \in Counters
    BY DEF NoStats, Counters
  <2>3. [a \in Cells(m) |-> 0] \in [Cells(m) -> Byte]
    BY CacheAssumption
  <2> HIDE DEF M, NoStats
  <2> QED  BY <2>1, <2>2, <2>3 DEF MemoryStates, Cells
<1>3. /\ Q.fit = Cells(m) /\ Q.sound = MemoryStates(m)
      /\ Q.view = [s \in MemoryStates(m) |-> s.mem]
  BY DEF MemoryOf
<1> HIDE DEF M, Q
<1>. /\ \A s \in MemoryStates(m), a \in Address :
            MemoryRead(m, s, a, memory_read_byte(s, a))
     /\ \A s \in MemoryStates(m), a \in Address, v \in Byte :
            MemoryWritten(m, s, a, v, memory_write_byte(s, a, v))
  BY MemoryReads, MemoryWrites
<1>4. TypedBase(M)
  <2>1. \A s \in M.states, a \in Address :
            LET r == M.read_byte[s][a]
            IN  r.ok \in BOOLEAN /\ r.s \in M.states /\ r.byte \in Byte
    <3>1. ASSUME NEW s \in MemoryStates(m), NEW a \in Address, NEW r,
                 r = memory_read_byte(s, a)
          PROVE  r.ok \in BOOLEAN /\ r.s \in MemoryStates(m) /\ r.byte \in Byte
      BY <3>1 DEF MemoryRead
    <3> QED  BY <1>1, <3>1
  <2>2. \A s \in M.states, a \in Address, v \in Byte :
            LET r == M.write_byte[s][a][v]
            IN  r.ok \in BOOLEAN /\ r.s \in M.states
    <3>1. ASSUME NEW s \in MemoryStates(m), NEW a \in Address, NEW v \in Byte,
                 NEW r, r = memory_write_byte(s, a, v)
          PROVE  r.ok \in BOOLEAN /\ r.s \in MemoryStates(m)
      BY <3>1 DEF MemoryWritten
    <3> QED  BY <1>1, <3>1
  <2>3. \A s \in M.states : s.stats \in Counters /\ M.reset_stats[s] \in M.states
    BY <1>1, MemoryFields, MemoryResets
  <2> QED  BY <1>1, <1>2, <2>1, <2>2, <2>3 DEF TypedBase
<1>5. Describes(Cells(m), M, Q)
  <2>1. \A s \in MemoryStates(m) : s.mem \in [Cells(m) -> Byte]
    BY MemoryFields
  <2> QED  BY <1>1, <1>3, <2>1 DEF Describes
<1>6. StartsAs(Cells(m), M, Q)
  BY <1>2, <1>3 DEF StartsAs
<1>7. ReadsAs(M, Q)
  <2> SUFFICES ASSUME NEW s \in MemoryStates(m), NEW a \in Address, NEW r,
                      r = memory_read_byte(s, a)
               PROVE  /\ r.ok <=> a \in Q.fit
                      /\ r.ok => /\ r.s \in Q.sound /\ Q.view[r.s] = Q.view[s]
                                 /\ r.byte = Q.view[s][a]
                                 /\ r.s.stats.reads = s.stats.reads + 1
    BY <1>1, <1>3 DEF ReadsAs
  <2> QED  BY <1>3 DEF MemoryRead
<1>8. WritesAs(M, Q)
  <2> SUFFICES ASSUME NEW s \in MemoryStates(m), NEW a \in Address, NEW v \in Byte,
                      NEW r, r = memory_write_byte(s, a, v)
               PROVE  /\ r.ok <=> a \in Q.fit
                      /\ r.ok => /\ r.s \in Q.sound
                                 /\ Q.view[r.s] = [Q.view[s] EXCEPT ![a] = v]
                                 /\ r.s.stats.reads = s.stats.reads
    BY <1>1, <1>3 DEF WritesAs
  <2> QED  BY <1>3 DEF MemoryWritten
<1>9. ResetsAs(M, Q)
  BY <1>1, <1>3, MemoryResets DEF ResetsAs
<1> QED  BY <1>4, <1>5, <1>6, <1>7, <1>8, <1>9 DEF Serves, M, Q

-----------------------------------------------------------------------------
(****************************************************************************)
(* Flushing a cache.                                                        *)
(****************************************************************************)

(* The next memory has the bytes of line i of set j, if it has a block. *)
InNext(c, q, s, j, i) ==
    s.sets[j][i].valid =>
        \A o \in Offsets(c) : q.view[s.next][Place(c, s.sets[j][i].tag, j, o)]
                                = s.sets[j][i].block[o]

(* What writing back line n of set k does for the whole cache. *)
WrittenBack(c, A, b, q, s, k, n, r) ==
    /\ r.ok /\ Served(c, A, b, q, r.s)
    /\ r.s.sets = s.sets /\ r.s.stats = s.stats
    /\ r.s.next.stats.reads = s.next.stats.reads
    /\ \A a \in A : Shown(c, q, r.s, a) = Shown(c, q, s, a)
    /\ InNext(c, q, r.s, k, n)
    /\ \A j \in SetNos(c), i \in LineNos(c) :
            InNext(c, q, s, j, i) => InNext(c, q, r.s, j, i)

(* Writing a line back keeps the cache coherent and what it shows, though   *)
(* the line stays dirty, and the next memory then has its bytes.            *)
LEMMA WriteBackServed ==
    ASSUME NEW c, NEW A, NEW b, NEW q, NEW s, Served(c, A, b, q, s),
           NEW k \in SetNos(c), NEW n \in LineNos(c), s.sets[k][n].valid,
           NEW r, r = write_back_cache_line(c, b, s, k, n)
    PROVE  WrittenBack(c, A, b, q, s, k, n, r)
<1> DEFINE l == s.sets[k][n]
           t == r.s
<1>1. /\ c \in Geometry /\ A \in SUBSET Nat /\ Describes(A, b, q) /\ TypedBase(b)
      /\ Serves(A, b, q) /\ s \in CacheStates(c, b) /\ s.next \in q.sound
      /\ Unique(c, s) /\ Fitting(c, q, s) /\ CleanIsSame(c, q, s)
      /\ q.fit \in SUBSET A
  BY DEF Served, Coherent, Serves, Describes
<1>2. /\ r.ok /\ t \in CacheStates(c, b) /\ t.next \in q.sound
      /\ t.sets = s.sets /\ t.stats = s.stats
      /\ t.next.stats.reads = s.next.stats.reads
      /\ \A a \in A : q.view[t.next][a] =
           IF Holds(c, l, k, a) THEN l.block[decompose_address(c, a).offset]
           ELSE q.view[s.next][a]
  BY WriteBackIs
<1> HIDE DEF t
<1>3. ASSUME NEW j \in SetNos(c), NEW i \in LineNos(c), s.sets[j][i].valid,
             NEW o \in Offsets(c), NEW p, p = Place(c, s.sets[j][i].tag, j, o)
      PROVE  /\ p \in A
             /\ j = k /\ i = n => q.view[t.next][p] = l.block[o]
             /\ ~(j = k /\ i = n) => q.view[t.next][p] = q.view[s.next][p]
  <2>1. p \in A
    BY <1>1, <1>3 DEF Fitting
  <2>2. s.sets[j][i] \in Line(c)
    BY <1>1, StateFields
  <2>3. Holds(c, s.sets[j][i], j, p) /\ decompose_address(c, p).offset = o
    BY <1>1, <1>3, <2>2, HeldPlaces
  <2>4. ~(j = k /\ i = n) => ~Holds(c, l, k, p)
    BY <1>1, <1>3, <2>3 DEF Holds, Unique
  <2> HIDE DEF l
  <2>5. j = k /\ i = n => Holds(c, l, k, p)
    BY <2>3 DEF l
  <2> QED  BY <1>2, <2>1, <2>3, <2>4, <2>5
<1>4. InNext(c, q, t, k, n)
  BY <1>2, <1>3 DEF InNext
<1>5. ASSUME NEW j \in SetNos(c), NEW i \in LineNos(c), InNext(c, q, s, j, i)
      PROVE  InNext(c, q, t, j, i)
  <2>1. CASE j = k /\ i = n
    BY <1>4, <2>1
  <2>2. CASE ~(j = k /\ i = n)
    BY <1>2, <1>3, <1>5, <2>2 DEF InNext
  <2> QED  BY <2>1, <2>2
<1>6. Unique(c, t) /\ Fitting(c, q, t)
  BY <1>1, <1>2 DEF Unique, Fitting
<1>7. CleanIsSame(c, q, t)
  <2> SUFFICES ASSUME NEW j \in SetNos(c), NEW i \in LineNos(c), NEW o \in Offsets(c),
                      t.sets[j][i].valid, ~t.sets[j][i].dirty
               PROVE  q.view[t.next][Place(c, t.sets[j][i].tag, j, o)] =
                        t.sets[j][i].block[o]
    BY DEF CleanIsSame
  <2>1. InNext(c, q, s, j, i)
    BY <1>1, <1>2 DEF CleanIsSame, InNext
  <2>2. InNext(c, q, t, j, i)
    BY <1>5, <2>1
  <2> QED  BY <2>2 DEF InNext
<1>8. Served(c, A, b, q, t)
  BY <1>1, <1>2, <1>6, <1>7 DEF Served, Coherent
<1>9. ASSUME NEW a \in A, NEW d, d = decompose_address(c, a)
      PROVE  Shown(c, q, t, a) = Shown(c, q, s, a)
  <2>1. ShownAt(c, q, t, a, d) /\ ShownAt(c, q, s, a, d)
    BY <1>1, <1>2, <1>6, <1>9, ShownAtIs
  <2>2. CASE \E i \in LineNos(c) : Holds(c, s.sets[d.set][i], d.set, a)
    BY <1>2, <2>1, <2>2 DEF ShownAt
  <2>3. CASE \A i \in LineNos(c) : ~Holds(c, s.sets[d.set][i], d.set, a)
    <3>1. Shown(c, q, t, a) = q.view[t.next][a] /\ Shown(c, q, s, a) = q.view[s.next][a]
      BY <1>2, <2>1, <2>3 DEF ShownAt
    <3>2. ~Holds(c, l, k, a)
      BY <1>9, <2>3 DEF Holds
    <3> QED  BY <1>2, <3>1, <3>2
  <2> QED  BY <2>2, <2>3
<1> QED  BY <1>2, <1>4, <1>5, <1>8, <1>9 DEF WrittenBack, t

(* The rounds of flush_cache. *)
FlushStates(c, b) == [set_no : 0..c.num_sets, line_no : 0..c.lines_per_set,
                      ok : BOOLEAN, s : CacheStates(c, b)]

FlushStops(c, x) == x.set_no = c.num_sets \/ ~x.ok

NextSet(x) == [x EXCEPT !.set_no = @ + 1, !.line_no = 0]

FlushedLine(c, b, x) ==
    LET line == x.s.sets[x.set_no][x.line_no]
    IN  IF line.valid /\ line.dirty
        THEN write_back_cache_line(c, b, x.s, x.set_no, x.line_no)
        ELSE Done(x.s)

NextLine(c, b, x) ==
    [x EXCEPT !.line_no = @ + 1, !.ok = FlushedLine(c, b, x).ok,
              !.s = FlushedLine(c, b, x).s]

Flushed(c, b, s) ==
    LET flush[x \in FlushStates(c, b)] ==
            IF FlushStops(c, x) THEN x
            ELSE IF x.line_no = c.lines_per_set THEN flush[NextSet(x)]
            ELSE flush[NextLine(c, b, x)]
    IN  flush[[set_no |-> 0, line_no |-> 0, ok |-> TRUE, s |-> s]]

(* flush_cache is the loop over sets and lines from the first on. *)
LEMMA FlushIsFlushed ==
    ASSUME NEW c, NEW b, NEW s
    PROVE  flush_cache(c, b, s) = Flushed(c, b, s)
BY DEF flush_cache, Flushed, FlushStates, FlushStops, NextSet, NextLine, FlushedLine

(* A round has a set and a line left unless the loop stops. *)
LEMMA FlushFields ==
    ASSUME NEW c \in Geometry, NEW b, NEW x \in FlushStates(c, b)
    PROVE  /\ x.set_no \in 0..c.num_sets /\ x.line_no \in 0..c.lines_per_set
           /\ x.ok \in BOOLEAN /\ x.s \in CacheStates(c, b)
           /\ ~FlushStops(c, x) => x.ok /\ x.set_no \in SetNos(c)
                                   /\ x.set_no + 1 \in 0..c.num_sets
           /\ x.line_no # c.lines_per_set => x.line_no \in LineNos(c)
                                   /\ x.line_no + 1 \in 0..c.lines_per_set
BY GeometryFields DEF FlushStates, FlushStops, SetNos, LineNos

(* The round at the end of a set goes on to the next. *)
LEMMA NextSetIs ==
    ASSUME NEW c \in Geometry, NEW b, NEW x \in FlushStates(c, b),
           ~FlushStops(c, x), NEW y, y = NextSet(x)
    PROVE  /\ y \in FlushStates(c, b) /\ y.s = x.s /\ y.ok = x.ok
           /\ y.set_no = x.set_no + 1 /\ y.line_no = 0
<1>1. /\ x.set_no + 1 \in 0..c.num_sets /\ 0 \in 0..c.lines_per_set
  BY FlushFields, GeometryFields
<1> QED  BY <1>1 DEF NextSet, FlushStates

(* The round at a line writes it back if dirty and goes on. *)
LEMMA NextLineIs ==
    ASSUME NEW c \in Geometry, NEW b, TypedBase(b), NEW x \in FlushStates(c, b),
           ~FlushStops(c, x), x.line_no # c.lines_per_set,
           NEW r, r = FlushedLine(c, b, x), NEW y, y = NextLine(c, b, x)
    PROVE  /\ y \in FlushStates(c, b) /\ y.s = r.s /\ y.ok = r.ok
           /\ y.set_no = x.set_no /\ y.line_no = x.line_no + 1
<1>1. /\ x.set_no \in SetNos(c) /\ x.line_no \in LineNos(c)
      /\ x.line_no + 1 \in 0..c.lines_per_set /\ x.s \in CacheStates(c, b)
  BY FlushFields
<1>2. r.ok \in BOOLEAN /\ r.s \in CacheStates(c, b)
  <2> DEFINE l == x.s.sets[x.set_no][x.line_no]
             w == write_back_cache_line(c, b, x.s, x.set_no, x.line_no)
  <2>1. r = IF l.valid /\ l.dirty THEN w ELSE Done(x.s)
    BY DEF FlushedLine
  <2>2. w.ok \in BOOLEAN /\ w.s \in CacheStates(c, b)
    BY <1>1, WriteBackTyped
  <2> HIDE DEF w, l
  <2>3. CASE l.valid /\ l.dirty
    <3>1. r = w
      BY <2>1, <2>3
    <3> QED  BY <2>2, <3>1
  <2>4. CASE ~(l.valid /\ l.dirty)
    <3>1. r = Done(x.s)
      BY <2>1, <2>4
    <3> QED  BY <1>1, <3>1 DEF Done
  <2> QED  BY <2>3, <2>4
<1>3. y = [x EXCEPT !.line_no = x.line_no + 1, !.ok = r.ok, !.s = r.s]
  BY DEF NextLine
<1> QED  BY <1>1, <1>2, <1>3 DEF FlushStates

(* What the rounds keep, the last state has. *)
LEMMA FlushRule ==
    ASSUME NEW c \in Geometry, NEW b, TypedBase(b), NEW s \in CacheStates(c, b),
           NEW inv \in SUBSET FlushStates(c, b),
           [set_no |-> 0, line_no |-> 0, ok |-> TRUE, s |-> s] \in inv,
           \A x \in inv : ~FlushStops(c, x) =>
                IF x.line_no = c.lines_per_set THEN NextSet(x) \in inv
                ELSE NextLine(c, b, x) \in inv
    PROVE  /\ Flushed(c, b, s) \in inv
           /\ FlushStops(c, Flushed(c, b, s))
<1> DEFINE S == FlushStates(c, b)
           L == c.lines_per_set
           stop == {x \in S : FlushStops(c, x)}
           res == [x \in S |-> x]
           next == [x \in S |-> IF x.line_no = L THEN NextSet(x)
                                ELSE NextLine(c, b, x)]
           measure == [x \in S |-> (c.num_sets - x.set_no) * (L + 1)
                                     + (L - x.line_no)]
           good == {x \in inv : FlushStops(c, x)}
           first == [set_no |-> 0, line_no |-> 0, ok |-> TRUE, s |-> s]
           Body(g) == [x \in S |-> IF FlushStops(c, x) THEN x
                                   ELSE IF x.line_no = L THEN g[NextSet(x)]
                                   ELSE g[NextLine(c, b, x)]]
           flush == CHOOSE g : g = Body(g)
<1>1. Falls(measure, S, stop, next)
  <2>1. \A i, j \in Nat : i * (j + 1) \in Nat /\ (i + 1) * (j + 1) = i * (j + 1) + j + 1
    OBVIOUS
  <2>2. L \in Nat /\ c.num_sets \in Nat
    BY GeometryFields
  <2> HIDE DEF L
  <2>3. ASSUME NEW x \in S
        PROVE  /\ measure[x] = (c.num_sets - x.set_no) * (L + 1) + (L - x.line_no)
               /\ measure[x] \in Nat
    <3>1. c.num_sets - x.set_no \in Nat /\ L - x.line_no \in Nat
      BY <2>2, FlushFields DEF L
    <3>2. (c.num_sets - x.set_no) * (L + 1) \in Nat
      BY <2>1, <2>2, <3>1
    <3>3. measure[x] = (c.num_sets - x.set_no) * (L + 1) + (L - x.line_no)
      OBVIOUS
    <3> QED  BY <3>1, <3>2, <3>3
  <2>4. ASSUME NEW x \in S \ stop
        PROVE  next[x] \in S /\ measure[next[x]] < measure[x]
    <3>1. ~FlushStops(c, x) /\ x \in S
      OBVIOUS
    <3>2. x.set_no \in 0..c.num_sets /\ x.line_no \in 0..L
      BY <3>1, FlushFields DEF L
    <3>3. x.set_no + 1 \in 0..c.num_sets
      BY <3>1, FlushFields
    <3>4. CASE x.line_no = L
      <4> DEFINE y == NextSet(x)
      <4>1. y \in S /\ y.set_no = x.set_no + 1 /\ y.line_no = 0
        BY <3>1, NextSetIs
      <4>2. next[x] = y
        BY <3>1, <3>4
      <4> DEFINE i == c.num_sets - (x.set_no + 1)
      <4>3. i \in Nat /\ c.num_sets - x.set_no = i + 1
        BY <2>2, <3>2, <3>3
      <4> HIDE DEF y, next, measure, S, i
      <4>4. /\ measure[y] = i * (L + 1) + (L - 0)
            /\ measure[x] = (i + 1) * (L + 1) + (L - L)
        <5>1. i = c.num_sets - y.set_no
          BY <4>1 DEF i
        <5> QED  BY <2>3, <3>1, <3>4, <4>1, <4>3, <5>1
      <4>5. i * (L + 1) \in Nat /\ (i + 1) * (L + 1) = i * (L + 1) + L + 1
        BY <2>1, <2>2, <4>3
      <4> QED  BY <2>2, <4>1, <4>2, <4>4, <4>5
    <3>5. CASE x.line_no # L
      <4> DEFINE y == NextLine(c, b, x)
      <4>1. y \in S /\ y.set_no = x.set_no /\ y.line_no = x.line_no + 1
        BY <3>1, <3>5, NextLineIs DEF L
      <4>2. next[x] = y
        BY <3>1, <3>5
      <4> DEFINE i == (c.num_sets - x.set_no) * (L + 1)
      <4>3. i \in Nat
        <5>1. c.num_sets - x.set_no \in Nat
          BY <2>2, <3>2
        <5> QED  BY <2>1, <2>2, <5>1
      <4> HIDE DEF y, next, measure, S
      <4>4. measure[y] = i + (L - (x.line_no + 1)) /\ measure[x] = i + (L - x.line_no)
        BY <2>3, <3>1, <4>1
      <4> HIDE DEF i
      <4> QED  BY <2>2, <3>2, <4>1, <4>2, <4>3, <4>4
    <3> QED  BY <3>4, <3>5
  <2> HIDE DEF measure, next, S, stop
  <2>5. measure \in [S -> Nat]
    <3>1. measure = [x \in S |-> measure[x]]
      BY DEF measure
    <3> QED  BY <2>3, <3>1
  <2> QED  BY <2>4, <2>5 DEF Falls
<1>2. ASSUME NEW g PROVE IsLoop(g, S, stop, res, next) <=> g = Body(g)
  <2>1. [x \in S |-> IF x \in stop THEN res[x] ELSE g[next[x]]] = Body(g)
    <3> DEFINE f == [x \in S |-> IF x \in stop THEN res[x] ELSE g[next[x]]]
               h == Body(g)
    <3>1. \A x \in S : f[x] = h[x]
      OBVIOUS
    <3>2. f = [x \in S |-> f[x]] /\ h = [x \in S |-> h[x]]
      OBVIOUS
    <3> HIDE DEF f, h, S
    <3>3. f = h
      BY <3>1, <3>2
    <3> QED  BY <3>3 DEF f, h
  <2> QED  BY <2>1 DEF IsLoop
<1>3. flush = Body(flush)
  <2>1. \E g : IsLoop(g, S, stop, res, next)
    <3> HIDE DEF S, stop, res, next, measure
    <3> QED  BY <1>1, LoopDefined
  <2>2. \E g : g = Body(g)
    BY <2>1, <1>2
  <2> HIDE DEF Body
  <2> QED  BY <2>2
<1>4. IsLoop(flush, S, stop, res, next)
  <2> HIDE DEF Body, flush
  <2> QED  BY <1>2, <1>3
<1>5. Keeps(inv, good, S, stop, res, next)
  BY DEF Keeps
<1>6. \A x \in inv : flush[x] \in good
  <2> HIDE DEF S, stop, res, next, measure, good, flush
  <2> QED  BY <1>1, <1>4, <1>5, LoopRule
<1>7. Flushed(c, b, s) = flush[first]
  BY DEF Flushed
<1> HIDE DEF flush
<1> QED  BY <1>6, <1>7

(* The cache in state t, of which the lines up to a place were written back   *)
(* from state s.                                                             *)
FlushedTo(c, A, b, q, s, t, set_no, line_no) ==
    /\ Served(c, A, b, q, t) /\ t.sets = s.sets /\ t.stats = s.stats
    /\ t.next.stats.reads = s.next.stats.reads
    /\ \A a \in A : Shown(c, q, t, a) = Shown(c, q, s, a)
    /\ \A j \in SetNos(c), i \in LineNos(c) :
            j < set_no \/ (j = set_no /\ i < line_no) => InNext(c, q, t, j, i)

(* One line more is in the next memory, and those before it still are. *)
LEMMA FlushesLine ==
    ASSUME NEW c, NEW A, NEW b, NEW q, NEW s, NEW x \in FlushStates(c, b),
           c \in Geometry, TypedBase(b), x.set_no \in SetNos(c), x.line_no \in LineNos(c),
           FlushedTo(c, A, b, q, s, x.s, x.set_no, x.line_no),
           NEW r, r = FlushedLine(c, b, x)
    PROVE  r.ok /\ FlushedTo(c, A, b, q, s, r.s, x.set_no, x.line_no + 1)
<1> DEFINE k == x.set_no
           n == x.line_no
           u == x.s
           l == u.sets[k][n]
           w == write_back_cache_line(c, b, u, k, n)
<1>1. r = IF l.valid /\ l.dirty THEN w ELSE Done(u)
  BY DEF FlushedLine
<1>2. /\ Served(c, A, b, q, u) /\ u.sets = s.sets /\ u.stats = s.stats
      /\ u.next.stats.reads = s.next.stats.reads
      /\ \A a \in A : Shown(c, q, u, a) = Shown(c, q, s, a)
      /\ \A j \in SetNos(c), i \in LineNos(c) :
            j < k \/ (j = k /\ i < n) => InNext(c, q, u, j, i)
  BY DEF FlushedTo
<1>3. ASSUME NEW j \in SetNos(c), NEW i \in LineNos(c),
             j < k \/ (j = k /\ i < n + 1), ~(j < k \/ (j = k /\ i < n))
      PROVE  j = k /\ i = n
  BY <1>3 DEF SetNos, LineNos
<1> HIDE DEF k, n, u, l, w
<1>4. k \in SetNos(c) /\ n \in LineNos(c)
  BY DEF k, n
<1>5. CASE l.valid /\ l.dirty
  <2>1. r = w
    BY <1>1, <1>5
  <2>2. WrittenBack(c, A, b, q, u, k, n, r)
    <3>1. r = write_back_cache_line(c, b, u, k, n) /\ u.sets[k][n].valid
      BY <1>5, <2>1 DEF w, l
    <3> QED  BY <1>2, <1>4, <3>1, WriteBackServed
  <2>3. /\ r.ok /\ Served(c, A, b, q, r.s)
        /\ r.s.sets = u.sets /\ r.s.stats = u.stats
        /\ r.s.next.stats.reads = u.next.stats.reads
        /\ \A a \in A : Shown(c, q, r.s, a) = Shown(c, q, u, a)
        /\ InNext(c, q, r.s, k, n)
        /\ \A j \in SetNos(c), i \in LineNos(c) :
                InNext(c, q, u, j, i) => InNext(c, q, r.s, j, i)
    BY <2>2 DEF WrittenBack
  <2>4. \A j \in SetNos(c), i \in LineNos(c) :
            j < k \/ (j = k /\ i < n + 1) => InNext(c, q, r.s, j, i)
    BY <1>2, <1>3, <2>3
  <2>5. FlushedTo(c, A, b, q, s, r.s, k, n + 1)
    BY <1>2, <2>3, <2>4 DEF FlushedTo
  <2> QED  BY <2>3, <2>5 DEF k, n
<1>6. CASE ~(l.valid /\ l.dirty)
  <2>1. r.ok = TRUE /\ r.s = u
    BY <1>1, <1>6 DEF Done
  <2>2. InNext(c, q, u, k, n)
    <3>1. CleanIsSame(c, q, u)
      BY <1>2 DEF Served, Coherent
    <3> QED  BY <1>4, <1>6, <3>1 DEF CleanIsSame, InNext, l
  <2>3. \A j \in SetNos(c), i \in LineNos(c) :
            j < k \/ (j = k /\ i < n + 1) => InNext(c, q, u, j, i)
    BY <1>2, <1>3, <2>2
  <2>4. FlushedTo(c, A, b, q, s, u, k, n + 1)
    BY <1>2, <2>3 DEF FlushedTo
  <2> QED  BY <2>1, <2>4 DEF k, n
<1> QED  BY <1>5, <1>6

(* A flush is without failure, and leaves the next memory with all bytes that *)
(* the cache shows.                                                          *)
FlushesAll(c, A, b, q, s, r) ==
    /\ r.ok /\ Served(c, A, b, q, r.s) /\ r.s.sets = s.sets /\ r.s.stats = s.stats
    /\ r.s.next.stats.reads = s.next.stats.reads
    /\ \A a \in A : /\ Shown(c, q, r.s, a) = Shown(c, q, s, a)
                    /\ q.view[r.s.next][a] = Shown(c, q, r.s, a)

(* A flush succeeds: all that the cache shows is in the next memory, and    *)
(* nothing shown has changed.                                               *)
LEMMA FlushIs ==
    ASSUME NEW c, NEW A, NEW b, NEW q, NEW s, Served(c, A, b, q, s),
           NEW r, r = flush_cache(c, b, s)
    PROVE  FlushesAll(c, A, b, q, s, r)
<1> DEFINE S == FlushStates(c, b)
           Good(x) == x.ok /\ FlushedTo(c, A, b, q, s, x.s, x.set_no, x.line_no)
           inv == {x \in S : Good(x)}
           first == [set_no |-> 0, line_no |-> 0, ok |-> TRUE, s |-> s]
<1>1. /\ c \in Geometry /\ A \in SUBSET Nat /\ TypedBase(b) /\ Serves(A, b, q)
      /\ Describes(A, b, q) /\ s \in CacheStates(c, b)
  BY DEF Served, Serves
<1>2. first \in inv
  <2>1. first \in S
    BY <1>1, GeometryFields DEF FlushStates
  <2>2. \A j \in SetNos(c), i \in LineNos(c) : ~(j < 0 \/ (j = 0 /\ i < 0))
    BY DEF SetNos, LineNos
  <2>3. FlushedTo(c, A, b, q, s, s, 0, 0)
    BY <2>2 DEF FlushedTo
  <2> QED  BY <2>1, <2>3
<1>3. ASSUME NEW x \in inv, ~FlushStops(c, x)
      PROVE  IF x.line_no = c.lines_per_set THEN NextSet(x) \in inv
             ELSE NextLine(c, b, x) \in inv
  <2>1. x \in S /\ x.ok /\ FlushedTo(c, A, b, q, s, x.s, x.set_no, x.line_no)
    OBVIOUS
  <2>2. x.set_no \in SetNos(c) /\ x.line_no \in 0..c.lines_per_set
    BY <1>1, <1>3, <2>1, FlushFields
  <2>3. CASE x.line_no = c.lines_per_set
    <3> DEFINE y == NextSet(x)
    <3>1. /\ y \in S /\ y.s = x.s /\ y.ok = x.ok
          /\ y.set_no = x.set_no + 1 /\ y.line_no = 0
      BY <1>1, <1>3, <2>1, NextSetIs
    <3>2. ASSUME NEW j \in SetNos(c), NEW i \in LineNos(c),
                 j < x.set_no + 1 \/ (j = x.set_no + 1 /\ i < 0)
          PROVE  j < x.set_no \/ (j = x.set_no /\ i < x.line_no)
      BY <1>1, <2>2, <2>3, <3>2, GeometryFields DEF SetNos, LineNos
    <3>3. FlushedTo(c, A, b, q, s, x.s, x.set_no + 1, 0)
      BY <2>1, <3>2 DEF FlushedTo
    <3> HIDE DEF y
    <3>4. y \in inv
      BY <2>1, <3>1, <3>3
    <3> QED  BY <2>3, <3>4 DEF y
  <2>4. CASE x.line_no # c.lines_per_set
    <3> DEFINE y == NextLine(c, b, x)
               f == FlushedLine(c, b, x)
    <3>1. /\ y \in S /\ y.s = f.s /\ y.ok = f.ok
          /\ y.set_no = x.set_no /\ y.line_no = x.line_no + 1
      BY <1>1, <1>3, <2>1, <2>4, NextLineIs
    <3>2. x.line_no \in LineNos(c)
      BY <1>1, <2>1, <2>4, FlushFields
    <3>3. f.ok /\ FlushedTo(c, A, b, q, s, f.s, x.set_no, x.line_no + 1)
      BY <1>1, <2>1, <2>2, <3>2, FlushesLine
    <3> HIDE DEF y, f
    <3>4. y \in inv
      BY <3>1, <3>3
    <3> QED  BY <2>4, <3>4 DEF y
  <2> QED  BY <2>3, <2>4
<1>4. r \in inv /\ FlushStops(c, r)
  <2> HIDE DEF inv
  <2>1. inv \in SUBSET FlushStates(c, b)
    BY DEF inv
  <2>2. r = Flushed(c, b, s)
    BY FlushIsFlushed
  <2> QED  BY <1>1, <1>2, <1>3, <2>1, <2>2, FlushRule
<1>5. r.ok /\ FlushedTo(c, A, b, q, s, r.s, c.num_sets, r.line_no)
  BY <1>4 DEF FlushStops
<1>6. /\ Served(c, A, b, q, r.s) /\ r.s.sets = s.sets /\ r.s.stats = s.stats
      /\ r.s.next.stats.reads = s.next.stats.reads
      /\ \A a \in A : Shown(c, q, r.s, a) = Shown(c, q, s, a)
      /\ \A j \in SetNos(c), i \in LineNos(c) :
            j < c.num_sets => InNext(c, q, r.s, j, i)
  BY <1>5 DEF FlushedTo
<1> DEFINE t == r.s
<1> HIDE DEF t
<1>7. ASSUME NEW a \in A, NEW d, d = decompose_address(c, a)
      PROVE  q.view[t.next][a] = Shown(c, q, t, a)
  <2>1. t \in CacheStates(c, b) /\ Unique(c, t)
    BY <1>6 DEF Served, Coherent, t
  <2>2. /\ d.set \in SetNos(c) /\ d.offset \in Offsets(c)
        /\ Place(c, d.tag, d.set, d.offset) = a
    BY <1>1, <1>7, Decomposed DEF Address
  <2>3. ShownAt(c, q, t, a, d)
    BY <1>1, <1>7, <2>1, ShownAtIs
  <2>4. CASE \E i \in LineNos(c) : Holds(c, t.sets[d.set][i], d.set, a)
    <3>1. PICK i \in LineNos(c) : Holds(c, t.sets[d.set][i], d.set, a)
      BY <2>4
    <3>2. t.sets[d.set][i].valid /\ t.sets[d.set][i].tag = d.tag
      BY <1>7, <3>1 DEF Holds
    <3>3. d.set < c.num_sets
      BY <1>1, <2>2, GeometryFields DEF SetNos
    <3>4. InNext(c, q, t, d.set, i)
      BY <1>6, <2>2, <3>3 DEF t
    <3>5. q.view[t.next][a] = t.sets[d.set][i].block[d.offset]
      BY <2>2, <3>2, <3>4 DEF InNext
    <3> QED  BY <2>3, <3>1, <3>5 DEF ShownAt
  <2>5. CASE \A i \in LineNos(c) : ~Holds(c, t.sets[d.set][i], d.set, a)
    BY <2>3, <2>5 DEF ShownAt
  <2> QED  BY <2>4, <2>5
<1> QED  BY <1>5, <1>6, <1>7 DEF FlushesAll, t

-----------------------------------------------------------------------------
(****************************************************************************)
(* The chain.                                                               *)
(****************************************************************************)

(* The parts of a machine. *)
LEMMA MachineFields ==
    ASSUME NEW m \in Configs
    PROVE  /\ m.mem_size \in Nat \ {0}
           /\ Len(m.caches) \in Nat /\ Memory(m) = Len(m.caches) + 1
           /\ DOMAIN m.caches = 1..Len(m.caches)
           /\ \A i \in 1..Len(m.caches) : m.caches[i] \in Geometry
BY CacheAssumption DEF Memory

(* f has the levels from k on. *)
IsChain(f, m, k) ==
    f = [i \in k..Memory(m) |->
            IF i = Memory(m) THEN memory_base(m)
            ELSE cache_base(m.caches[i], f[i + 1])]

(* There is a function of the levels as make_cached_memory defines it. *)
LEMMA ChainExists ==
    ASSUME NEW m \in Configs
    PROVE  \A n \in 0..Len(m.caches) : \E f : IsChain(f, m, Memory(m) - n)
<1> DEFINE M == Memory(m)
           T == {n \in 0..Len(m.caches) : ~\E f : IsChain(f, m, M - n)}
<1>1. Len(m.caches) \in Nat /\ M = Len(m.caches) + 1
  BY MachineFields
<1> HIDE DEF M
<1>2. ASSUME T # {} PROVE FALSE
  <2>1. PICK n \in T : \A k \in T : n <= k
    <3>1. T \in SUBSET Nat
      BY <1>1
    <3> HIDE DEF T
    <3> QED  BY <1>2, <3>1, LeastNat
  <2>2. n \in 0..Len(m.caches) /\ ~\E f : IsChain(f, m, M - n)
    BY <2>1
  <2>3. CASE n = 0
    <3> DEFINE f == [i \in M..M |-> memory_base(m)]
    <3>1. \A i \in M..M : i = M
      BY <1>1
    <3>2. f = [i \in M..M |-> IF i = M THEN memory_base(m)
                              ELSE cache_base(m.caches[i], f[i + 1])]
      BY <3>1
    <3>3. IsChain(f, m, M)
      BY <3>2 DEF IsChain, M
    <3>4. M - n = M
      BY <1>1, <2>3
    <3> QED  BY <2>2, <3>3, <3>4
  <2>4. CASE n # 0
    <3>1. n - 1 \in 0..Len(m.caches) /\ ~(n <= n - 1)
      BY <1>1, <2>2, <2>4
    <3>2. n - 1 \notin T
      <4> HIDE DEF T
      <4> QED  BY <2>1, <3>1
    <3>3. PICK g : IsChain(g, m, M - (n - 1))
      BY <3>1, <3>2
    <3> DEFINE k == M - n
               f == [i \in k..M |-> IF i = k THEN cache_base(m.caches[k], g[k + 1])
                                    ELSE g[i]]
    <3>4. M - (n - 1) = k + 1 /\ k \in 1..Len(m.caches) /\ k < M
      BY <1>1, <2>2, <2>4
    <3> HIDE DEF k
    <3>5. \A i \in (k + 1)..M : g[i] = IF i = M THEN memory_base(m)
                                       ELSE cache_base(m.caches[i], g[i + 1])
      BY <3>3, <3>4 DEF IsChain, M
    <3>6. ASSUME NEW i \in k..M
          PROVE  f[i] = IF i = M THEN memory_base(m)
                        ELSE cache_base(m.caches[i], f[i + 1])
      <4>1. CASE i = M
        <5>1. i \in (k + 1)..M /\ i # k
          BY <1>1, <3>4, <4>1
        <5> QED  BY <3>5, <4>1, <5>1
      <4>2. CASE i # M
        <5>1. i + 1 \in (k + 1)..M /\ i + 1 # k /\ i + 1 \in k..M
          BY <1>1, <3>4, <4>2
        <5>2. f[i + 1] = g[i + 1]
          BY <5>1
        <5>3. CASE i = k
          BY <4>2, <5>2, <5>3
        <5>4. CASE i # k
          <6>1. i \in (k + 1)..M
            BY <1>1, <3>4, <5>4
          <6>2. f[i] = g[i]
            BY <5>4
          <6>3. g[i] = cache_base(m.caches[i], g[i + 1])
            BY <3>5, <4>2, <6>1
          <6> QED  BY <4>2, <5>2, <6>2, <6>3
        <5> QED  BY <5>3, <5>4
      <4> QED  BY <4>1, <4>2
    <3>7. f = [i \in k..M |-> f[i]]
      OBVIOUS
    <3> HIDE DEF f
    <3>8. IsChain(f, m, k)
      BY <3>6, <3>7 DEF IsChain, M
    <3> QED  BY <2>2, <3>8 DEF k
  <2> QED  BY <2>3, <2>4
<1> QED  BY <1>2 DEF M

(* make_cached_memory is that function. *)
LEMMA ChainDefined ==
    ASSUME NEW m \in Configs
    PROVE  IsChain(make_cached_memory(m), m, 1)
<1>1. Memory(m) - Len(m.caches) = 1 /\ Len(m.caches) \in 0..Len(m.caches)
  BY MachineFields
<1>2. \E f : IsChain(f, m, 1)
  BY <1>1, ChainExists
<1>3. make_cached_memory(m) = CHOOSE f : IsChain(f, m, 1)
  BY DEF make_cached_memory, IsChain
<1> QED  BY <1>2, <1>3

(* The levels of a machine: the memory, and each cache over the next. *)
LEMMA ChainIs ==
    ASSUME NEW m \in Configs, NEW base, base = make_cached_memory(m)
    PROVE  /\ base[Memory(m)] = memory_base(m)
           /\ \A i \in 1..Len(m.caches) :
                base[i] = cache_base(m.caches[i], base[i + 1])
<1>1. Len(m.caches) \in Nat /\ Memory(m) = Len(m.caches) + 1
  BY MachineFields
<1>2. base = [i \in 1..Memory(m) |-> IF i = Memory(m) THEN memory_base(m)
                                    ELSE cache_base(m.caches[i], base[i + 1])]
  BY ChainDefined DEF IsChain
<1>3. \A i \in 1..Memory(m) : base[i] = IF i = Memory(m) THEN memory_base(m)
                                    ELSE cache_base(m.caches[i], base[i + 1])
  BY <1>2
<1> QED  BY <1>1, <1>3

(* What each level is to the one above it. *)
Role(m) ==
    LET role[i \in 1..Memory(m)] ==
            IF i = Memory(m) THEN MemoryOf(m)
            ELSE CacheOf(m.caches[i], make_cached_memory(m)[i + 1], role[i + 1])
    IN  role

IsRole(f, m, k) ==
    f = [i \in k..Memory(m) |->
            IF i = Memory(m) THEN MemoryOf(m)
            ELSE CacheOf(m.caches[i], make_cached_memory(m)[i + 1], f[i + 1])]
(* There is a function of the levels' roles. *)
LEMMA RoleExists ==
    ASSUME NEW m \in Configs
    PROVE  \A n \in 0..Len(m.caches) : \E f : IsRole(f, m, Memory(m) - n)
<1> DEFINE M == Memory(m)
           base == make_cached_memory(m)
           T == {n \in 0..Len(m.caches) : ~\E f : IsRole(f, m, M - n)}
<1>1. Len(m.caches) \in Nat /\ M = Len(m.caches) + 1
  BY MachineFields
<1> HIDE DEF M, base
<1>2. ASSUME T # {} PROVE FALSE
  <2>1. PICK n \in T : \A k \in T : n <= k
    <3>1. T \in SUBSET Nat
      BY <1>1
    <3> HIDE DEF T
    <3> QED  BY <1>2, <3>1, LeastNat
  <2>2. n \in 0..Len(m.caches) /\ ~\E f : IsRole(f, m, M - n)
    BY <2>1
  <2>3. CASE n = 0
    <3> DEFINE f == [i \in M..M |-> MemoryOf(m)]
    <3>1. \A i \in M..M : i = M
      BY <1>1
    <3>2. f = [i \in M..M |-> IF i = M THEN MemoryOf(m)
                              ELSE CacheOf(m.caches[i], base[i + 1], f[i + 1])]
      BY <3>1
    <3>3. IsRole(f, m, M)
      BY <3>2 DEF IsRole, M, base
    <3>4. M - n = M
      BY <1>1, <2>3
    <3> QED  BY <2>2, <3>3, <3>4
  <2>4. CASE n # 0
    <3>1. n - 1 \in 0..Len(m.caches) /\ ~(n <= n - 1)
      BY <1>1, <2>2, <2>4
    <3>2. n - 1 \notin T
      <4> HIDE DEF T
      <4> QED  BY <2>1, <3>1
    <3>3. PICK g : IsRole(g, m, M - (n - 1))
      BY <3>1, <3>2
    <3> DEFINE k == M - n
               f == [i \in k..M |-> IF i = k THEN CacheOf(m.caches[k], base[k + 1], g[k + 1])
                                    ELSE g[i]]
    <3>4. M - (n - 1) = k + 1 /\ k \in 1..Len(m.caches) /\ k < M
      BY <1>1, <2>2, <2>4
    <3> HIDE DEF k
    <3>5. \A i \in (k + 1)..M : g[i] = IF i = M THEN MemoryOf(m)
                                       ELSE CacheOf(m.caches[i], base[i + 1], g[i + 1])
      BY <3>3, <3>4 DEF IsRole, M, base
    <3>6. ASSUME NEW i \in k..M
          PROVE  f[i] = IF i = M THEN MemoryOf(m)
                        ELSE CacheOf(m.caches[i], base[i + 1], f[i + 1])
      <4>1. CASE i = M
        <5>1. i \in (k + 1)..M /\ i # k
          BY <1>1, <3>4, <4>1
        <5> QED  BY <3>5, <4>1, <5>1
      <4>2. CASE i # M
        <5>1. i + 1 \in (k + 1)..M /\ i + 1 # k /\ i + 1 \in k..M
          BY <1>1, <3>4, <4>2
        <5>2. f[i + 1] = g[i + 1]
          BY <5>1
        <5>3. CASE i = k
          BY <4>2, <5>2, <5>3
        <5>4. CASE i # k
          <6>1. i \in (k + 1)..M
            BY <1>1, <3>4, <5>4
          <6>2. f[i] = g[i]
            BY <5>4
          <6>3. g[i] = CacheOf(m.caches[i], base[i + 1], g[i + 1])
            BY <3>5, <4>2, <6>1
          <6> QED  BY <4>2, <5>2, <6>2, <6>3
        <5> QED  BY <5>3, <5>4
      <4> QED  BY <4>1, <4>2
    <3>7. f = [i \in k..M |-> f[i]]
      OBVIOUS
    <3> HIDE DEF f
    <3>8. IsRole(f, m, k)
      BY <3>6, <3>7 DEF IsRole, M, base
    <3> QED  BY <2>2, <3>8 DEF k
  <2> QED  BY <2>3, <2>4
<1> QED  BY <1>2 DEF M

(* Role is that function. *)
LEMMA RoleDefined ==
    ASSUME NEW m \in Configs
    PROVE  IsRole(Role(m), m, 1)
<1>1. Memory(m) - Len(m.caches) = 1 /\ Len(m.caches) \in 0..Len(m.caches)
  BY MachineFields
<1>2. \E f : IsRole(f, m, 1)
  BY <1>1, RoleExists
<1>3. Role(m) = CHOOSE f : IsRole(f, m, 1)
  BY DEF Role, IsRole
<1> QED  BY <1>2, <1>3


(* The roles of a machine's levels. *)
LEMMA RoleIs ==
    ASSUME NEW m \in Configs, NEW base, base = make_cached_memory(m),
           NEW role, role = Role(m)
    PROVE  /\ role[Memory(m)] = MemoryOf(m)
           /\ \A i \in 1..Len(m.caches) :
                role[i] = CacheOf(m.caches[i], base[i + 1], role[i + 1])
<1>1. Len(m.caches) \in Nat /\ Memory(m) = Len(m.caches) + 1
  BY MachineFields
<1>2. role = [i \in 1..Memory(m) |-> IF i = Memory(m) THEN MemoryOf(m)
                ELSE CacheOf(m.caches[i], base[i + 1], role[i + 1])]
  BY RoleDefined DEF IsRole
<1>3. \A i \in 1..Memory(m) : role[i] = IF i = Memory(m) THEN MemoryOf(m)
                ELSE CacheOf(m.caches[i], base[i + 1], role[i + 1])
  BY <1>2
<1> QED  BY <1>1, <1>3

(* Every level keeps what it promises the one above.                         *)
ServesAt(m, i) ==
    /\ TypedBase(make_cached_memory(m)[i])
    /\ Serves(Cells(m), make_cached_memory(m)[i], Role(m)[i])

(* Every level of every machine serves the bytes of the memory. *)
LEMMA LevelsServe ==
    ASSUME NEW m \in Configs
    PROVE  \A i \in 1..Memory(m) : ServesAt(m, i)
<1> DEFINE base == make_cached_memory(m)
           role == Role(m)
           M == Memory(m)
           T == {i \in 1..M : ServesAt(m, i)}
<1>1. /\ m.mem_size \in Nat \ {0} /\ Len(m.caches) \in Nat
      /\ M = Len(m.caches) + 1 /\ M \in Nat /\ M \in 1..M
      /\ 1..(M - 1) = 1..Len(m.caches)
      /\ \A i \in 1..Len(m.caches) : m.caches[i] \in Geometry
  BY MachineFields
<1>2. /\ base[M] = memory_base(m)
      /\ \A i \in 1..Len(m.caches) : base[i] = cache_base(m.caches[i], base[i + 1])
  BY ChainIs
<1>3. /\ role[M] = MemoryOf(m)
      /\ \A i \in 1..Len(m.caches) :
            role[i] = CacheOf(m.caches[i], base[i + 1], role[i + 1])
  BY RoleIs
<1>4. Cells(m) \in SUBSET Nat
  BY <1>1 DEF Cells
<1>5. \A i : ServesAt(m, i) <=> TypedBase(base[i]) /\ Serves(Cells(m), base[i], role[i])
  BY DEF ServesAt
<1> HIDE DEF base, role, M
<1>6. M \in T
  BY <1>1, <1>2, <1>3, <1>5, MemoryServes
<1>7. ASSUME NEW i \in 1..(M - 1), i + 1 \in T PROVE i \in T
  <2>1. i \in 1..Len(m.caches) /\ i \in 1..M
    BY <1>1
  <2>2. m.caches[i] \in Geometry
    BY <1>1, <2>1
  <2>3. TypedBase(base[i + 1]) /\ Serves(Cells(m), base[i + 1], role[i + 1])
    BY <1>5, <1>7
  <2>4. TypedBase(cache_base(m.caches[i], base[i + 1]))
    BY <2>2, <2>3, CacheTyped
  <2>5. Serves(Cells(m), cache_base(m.caches[i], base[i + 1]),
               CacheOf(m.caches[i], base[i + 1], role[i + 1]))
    BY <1>4, <2>2, <2>3, CacheServes
  <2> QED  BY <1>2, <1>3, <1>5, <2>1, <2>4, <2>5
<1>8. T \in SUBSET (1..M)
  OBVIOUS
<1> HIDE DEF T
<1>9. \A i \in 1..M : i \in T
  BY <1>1, <1>6, <1>7, <1>8, Downwards
<1> QED  BY <1>9 DEF T, M

(* What a reader of a level sees is what its role says.                      *)
IsSeen(f, m) ==
    f = [i \in 1..Memory(m) |->
            IF i = Memory(m)
            THEN [s \in make_cached_memory(m)[i].states |-> s.mem]
            ELSE [s \in make_cached_memory(m)[i].states |->
                    SeenThrough(m.caches[i], s, f[i + 1][s.next])]]

(* The bytes seen at a level are those of its view. *)
LEMMA SeenIs ==
    ASSUME NEW m \in Configs
    PROVE  \A i \in 1..Memory(m) : Seen(m)[i] = Role(m)[i].view
<1> DEFINE base == make_cached_memory(m)
           role == Role(m)
           M == Memory(m)
           seen == Seen(m)
           g == [i \in 1..M |-> role[i].view]
           T == {i \in 1..M : seen[i] = role[i].view}
<1>1. /\ Len(m.caches) \in Nat
      /\ M = Len(m.caches) + 1 /\ M \in Nat /\ M \in 1..M
      /\ 1..(M - 1) = 1..Len(m.caches)
  BY MachineFields
<1>2. /\ base[M] = memory_base(m)
      /\ \A i \in 1..Len(m.caches) : base[i] = cache_base(m.caches[i], base[i + 1])
  BY ChainIs
<1>3. /\ role[M] = MemoryOf(m)
      /\ \A i \in 1..Len(m.caches) :
            role[i] = CacheOf(m.caches[i], base[i + 1], role[i + 1])
  BY RoleIs
<1>4. base[M].states = MemoryStates(m)
  BY <1>2 DEF memory_base
<1>5. ASSUME NEW i \in 1..Len(m.caches)
      PROVE  base[i].states = CacheStates(m.caches[i], base[i + 1])
  <2>1. base[i] = cache_base(m.caches[i], base[i + 1])
    BY <1>2
  <2> HIDE DEF base
  <2> QED  BY <2>1 DEF cache_base
<1>6. role[M].view = [s \in base[M].states |-> s.mem]
  BY <1>3, <1>4 DEF MemoryOf
<1>7. ASSUME NEW i \in 1..Len(m.caches)
      PROVE  role[i].view = [s \in base[i].states |->
                SeenThrough(m.caches[i], s, role[i + 1].view[s.next])]
  <2>1. role[i] = CacheOf(m.caches[i], base[i + 1], role[i + 1])
    BY <1>3
  <2>2. base[i].states = CacheStates(m.caches[i], base[i + 1])
    BY <1>5
  <2> HIDE DEF base, role
  <2> QED  BY <2>1, <2>2 DEF CacheOf
<1>8. \A f : IsSeen(f, m) <=>
        f = [i \in 1..M |->
                IF i = M THEN [s \in base[i].states |-> s.mem]
                ELSE [s \in base[i].states |->
                        SeenThrough(m.caches[i], s, f[i + 1][s.next])]]
  BY DEF IsSeen
<1>9. seen = CHOOSE f : IsSeen(f, m)
  BY DEF Seen, IsSeen
<1> HIDE DEF base, role, M, seen
<1>10. ASSUME NEW i \in 1..M
       PROVE  g[i] = IF i = M THEN [s \in base[i].states |-> s.mem]
                     ELSE [s \in base[i].states |->
                            SeenThrough(m.caches[i], s, g[i + 1][s.next])]
  <2>1. CASE i = M
    BY <1>6, <2>1
  <2>2. CASE i # M
    <3>1. i \in 1..Len(m.caches) /\ i + 1 \in 1..M
      BY <1>1, <2>2
    <3>2. g[i] = role[i].view /\ g[i + 1] = role[i + 1].view
      BY <3>1
    <3> HIDE DEF g
    <3> QED  BY <1>7, <2>2, <3>1, <3>2
  <2> QED  BY <2>1, <2>2
<1>11. g = [i \in 1..M |-> g[i]]
  OBVIOUS
<1>12. IsSeen(g, m)
  <2> HIDE DEF g
  <2> QED  BY <1>8, <1>10, <1>11
<1>13. IsSeen(seen, m)
  <2> HIDE DEF g
  <2> QED  BY <1>9, <1>12
<1>14. ASSUME NEW i \in 1..M
       PROVE  seen[i] =
                IF i = M THEN [s \in base[i].states |-> s.mem]
                ELSE [s \in base[i].states |->
                        SeenThrough(m.caches[i], s, seen[i + 1][s.next])]
  <2> HIDE DEF g, T
  <2>1. seen = [j \in 1..M |->
                IF j = M THEN [s \in base[j].states |-> s.mem]
                ELSE [s \in base[j].states |->
                        SeenThrough(m.caches[j], s, seen[j + 1][s.next])]]
    BY <1>8, <1>13
  <2> QED  BY <2>1
<1>15. M \in T
  BY <1>1, <1>6, <1>14
<1>16. ASSUME NEW i \in 1..(M - 1), i + 1 \in T PROVE i \in T
  <2>1. i \in 1..Len(m.caches) /\ i \in 1..M /\ i # M
    BY <1>1
  <2>2. seen[i + 1] = role[i + 1].view
    BY <1>16
  <2>3. seen[i] = [s \in base[i].states |->
                        SeenThrough(m.caches[i], s, seen[i + 1][s.next])]
    BY <1>14, <2>1
  <2>4. role[i].view = [s \in base[i].states |->
                            SeenThrough(m.caches[i], s, role[i + 1].view[s.next])]
    BY <1>7, <2>1
  <2>5. seen[i] = role[i].view
    BY <2>2, <2>3, <2>4
  <2> QED  BY <2>1, <2>5
<1>17. T \in SUBSET (1..M)
  OBVIOUS
<1> HIDE DEF T
<1>18. \A i \in 1..M : i \in T
  BY <1>1, <1>15, <1>16, <1>17, Downwards
<1> QED  BY <1>18 DEF T, M, seen, role

-----------------------------------------------------------------------------
(****************************************************************************)
(* The levels within a state.                                               *)
(****************************************************************************)

(* f has the states of the first n levels. *)
IsLevels(f, s, n) == f = [k \in 1..n |-> IF k = 1 THEN s ELSE f[k - 1].next]

(* The states of the first levels, one by one. *)
LEMMA LevelsAre ==
    ASSUME NEW s, NEW n \in Nat, NEW f, IsLevels(f, s, n), NEW k \in 1..n
    PROVE  f[k] = IF k = 1 THEN s ELSE f[k - 1].next
<1>1. f = [j \in 1..n |-> IF j = 1 THEN s ELSE f[j - 1].next]
  BY DEF IsLevels
<1> QED  BY <1>1

(* Counting further down changes nothing of the levels above. *)
LEMMA LevelsAgree ==
    ASSUME NEW s, NEW n \in Nat, NEW f, IsLevels(f, s, n),
           NEW k \in Nat, NEW g, IsLevels(g, s, k), n <= k
    PROVE  \A i \in 1..n : f[i] = g[i]
<1> DEFINE T == {i \in 1..n : f[i] = g[i]}
<1>1. \A i \in 1..n : i \in 1..k
  OBVIOUS
<1>f. \A i \in 1..n : f[i] = IF i = 1 THEN s ELSE f[i - 1].next
  BY LevelsAre
<1>g. \A i \in 1..k : g[i] = IF i = 1 THEN s ELSE g[i - 1].next
  BY LevelsAre
<1>2. n # 0 => 1 \in T
  <2>1. ASSUME n # 0 PROVE 1 \in T
    <3>1. 1 \in 1..n /\ 1 \in 1..k
      BY <1>1, <2>1
    <3>2. f[1] = s
      BY <1>f, <3>1
    <3>3. g[1] = s
      BY <1>g, <3>1
    <3> QED  BY <3>1, <3>2, <3>3
  <2> QED  BY <2>1
<1>3. ASSUME NEW i \in 1..(n - 1), i \in T PROVE i + 1 \in T
  <2>1. i + 1 \in 1..n /\ i + 1 \in 1..k /\ i + 1 # 1 /\ (i + 1) - 1 = i
    BY <1>1
  <2>2. f[i + 1] = f[i].next
    <3>1. f[i + 1] = IF i + 1 = 1 THEN s ELSE f[(i + 1) - 1].next
      BY <1>f, <2>1
    <3> QED  BY <2>1, <3>1
  <2>3. g[i + 1] = g[i].next
    <3>1. g[i + 1] = IF i + 1 = 1 THEN s ELSE g[(i + 1) - 1].next
      BY <1>g, <2>1
    <3> QED  BY <2>1, <3>1
  <2> QED  BY <1>3, <2>1, <2>2, <2>3
<1>4. T \in SUBSET (1..n)
  OBVIOUS
<1> HIDE DEF T
<1>5. \A i \in 1..n : i \in T
  BY <1>2, <1>3, <1>4, Upwards
<1> QED  BY <1>5 DEF T

(* There are states of as many levels as one asks for. *)
LEMMA LevelsExist ==
    ASSUME NEW s, NEW n \in Nat
    PROVE  \E f : IsLevels(f, s, n)
<1> DEFINE T == {k \in Nat : ~\E f : IsLevels(f, s, k)}
<1>1. ASSUME T # {} PROVE FALSE
  <2>1. PICK k \in T : \A j \in T : k <= j
    <3>1. T \in SUBSET Nat
      OBVIOUS
    <3> HIDE DEF T
    <3> QED  BY <1>1, <3>1, LeastNat
  <2>2. k \in Nat /\ ~\E f : IsLevels(f, s, k)
    BY <2>1
  <2>3. k # 0
    <3>1. ASSUME k = 0 PROVE FALSE
      <4> DEFINE f == [j \in {} |-> s]
      <4>1. 1..k = {}
        BY <3>1
      <4>2. f = [j \in 1..k |-> IF j = 1 THEN s ELSE f[j - 1].next]
        BY <4>1
      <4> HIDE DEF f
      <4> QED  BY <2>2, <4>2 DEF IsLevels
    <3> QED  BY <3>1
  <2>4. k - 1 \in Nat /\ ~(k <= k - 1)
    BY <2>2, <2>3
  <2>5. k - 1 \notin T
    <3> HIDE DEF T
    <3> QED  BY <2>1, <2>4
  <2>6. PICK g : IsLevels(g, s, k - 1)
    BY <2>4, <2>5
  <2>g. \A i \in 1..(k - 1) : g[i] = IF i = 1 THEN s ELSE g[i - 1].next
    BY <2>4, <2>6, LevelsAre
  <2> DEFINE f == [j \in 1..k |-> IF j = k
                                  THEN IF k = 1 THEN s ELSE g[k - 1].next
                                  ELSE g[j]]
  <2>7. ASSUME NEW j \in 1..k PROVE f[j] = IF j = 1 THEN s ELSE f[j - 1].next
    <3>1. CASE j = 1
      <4>1. CASE k = 1
        BY <3>1, <4>1
      <4>2. CASE k # 1
        <5>1. 1 \in 1..(k - 1)
          BY <2>2, <2>3, <4>2
        <5>2. g[1] = s
          BY <2>g, <5>1
        <5> QED  BY <3>1, <4>2, <5>2
      <4> QED  BY <4>1, <4>2
    <3>2. CASE j # 1
      <4>1. j - 1 \in 1..k /\ j - 1 # k
        BY <2>2, <3>2
      <4>2. f[j - 1] = g[j - 1]
        BY <4>1
      <4>3. CASE j = k
        BY <3>2, <4>2, <4>3
      <4>4. CASE j # k
        <5>1. j \in 1..(k - 1)
          BY <2>2, <4>4
        <5>2. g[j] = g[j - 1].next
          BY <2>g, <3>2, <5>1
        <5>3. f[j] = g[j]
          BY <4>4
        <5> QED  BY <3>2, <4>2, <5>2, <5>3
      <4> QED  BY <4>3, <4>4
    <3> QED  BY <3>1, <3>2
  <2>8. f = [j \in 1..k |-> f[j]]
    OBVIOUS
  <2> HIDE DEF f
  <2>9. IsLevels(f, s, k)
    BY <2>7, <2>8 DEF IsLevels
  <2> QED  BY <2>2, <2>9
<1> QED  BY <1>1

(* The first level's state is the whole; each next one is in the one above  *)
(* it.                                                                      *)
LEMMA LevelIs ==
    ASSUME NEW s
    PROVE  /\ Level(s, 1) = s
           /\ \A i \in Nat \ {0} : Level(s, i + 1) = Level(s, i).next
<1> DEFINE L(i) == CHOOSE f : IsLevels(f, s, i)
<1>1. \A i : Level(s, i) = L(i)[i]
  BY DEF Level, IsLevels
<1>2. \A i \in Nat : IsLevels(L(i), s, i)
  BY LevelsExist
<1> HIDE DEF L
<1>3. Level(s, 1) = s
  <2>1. 1 \in Nat /\ 1 \in 1..1
    OBVIOUS
  <2>2. L(1)[1] = s
    BY <1>2, <2>1, LevelsAre
  <2> QED  BY <1>1, <2>2
<1>4. ASSUME NEW i \in Nat \ {0} PROVE Level(s, i + 1) = Level(s, i).next
  <2>1. /\ i \in Nat /\ i + 1 \in Nat /\ i <= i + 1 /\ i \in 1..i
        /\ i + 1 \in 1..(i + 1) /\ i + 1 # 1 /\ (i + 1) - 1 = i
    OBVIOUS
  <2>2. L(i + 1)[i + 1] = L(i + 1)[i].next
    BY <1>2, <2>1, LevelsAre
  <2>3. L(i)[i] = L(i + 1)[i]
    BY <1>2, <2>1, LevelsAgree
  <2> QED  BY <1>1, <2>2, <2>3
<1> QED  BY <1>3, <1>4

(* f has the states of levels k to i when the state of level i becomes t. *)
IsWith(f, s, i, t, k) ==
    f = [j \in k..i |-> IF j = i THEN t ELSE [Level(s, j) EXCEPT !.next = f[j + 1]]]

(* There is a function with level i replaced. *)
LEMMA WithExists ==
    ASSUME NEW s, NEW i \in Nat \ {0}, NEW t
    PROVE  \A k \in 1..i : \E f : IsWith(f, s, i, t, k)
<1> DEFINE T == {k \in 1..i : \E f : IsWith(f, s, i, t, k)}
<1>1. i \in T
  <2> DEFINE f == [j \in i..i |-> t]
  <2>1. \A j \in i..i : j = i
    OBVIOUS
  <2>2. f = [j \in i..i |-> IF j = i THEN t ELSE [Level(s, j) EXCEPT !.next = f[j + 1]]]
    BY <2>1
  <2> HIDE DEF f
  <2>3. IsWith(f, s, i, t, i) /\ i \in 1..i
    BY <2>2 DEF IsWith
  <2> QED  BY <2>3
<1>2. ASSUME NEW k \in 1..(i - 1), k + 1 \in T PROVE k \in T
  <2>1. PICK g : IsWith(g, s, i, t, k + 1)
    BY <1>2
  <2> DEFINE f == [j \in k..i |-> IF j = k THEN [Level(s, k) EXCEPT !.next = g[k + 1]]
                                  ELSE g[j]]
  <2>2. \A j \in (k + 1)..i : g[j] = IF j = i THEN t
                                     ELSE [Level(s, j) EXCEPT !.next = g[j + 1]]
    <3>1. g = [j \in (k + 1)..i |-> IF j = i THEN t
                                    ELSE [Level(s, j) EXCEPT !.next = g[j + 1]]]
      BY <2>1 DEF IsWith
    <3> HIDE DEF f
    <3> QED  BY <3>1
  <2>3. ASSUME NEW j \in k..i
        PROVE  f[j] = IF j = i THEN t ELSE [Level(s, j) EXCEPT !.next = f[j + 1]]
    <3>1. CASE j = i
      <4>1. j \in (k + 1)..i /\ j # k
        BY <3>1
      <4> QED  BY <2>2, <3>1, <4>1
    <3>2. CASE j # i
      <4>1. j + 1 \in k..i /\ j + 1 # k
        BY <3>2
      <4>2. f[j + 1] = g[j + 1]
        BY <4>1
      <4>3. CASE j = k
        <5>1. f[j] = [Level(s, k) EXCEPT !.next = g[k + 1]]
          BY <4>3
        <5> HIDE DEF f
        <5> QED  BY <3>2, <4>2, <4>3, <5>1
      <4>4. CASE j # k
        <5>1. j \in (k + 1)..i
          BY <4>4
        <5>2. f[j] = g[j]
          BY <4>4
        <5> HIDE DEF f
        <5> QED  BY <2>2, <3>2, <4>2, <5>1, <5>2
      <4> QED  BY <4>3, <4>4
    <3> QED  BY <3>1, <3>2
  <2>4. f = [j \in k..i |-> f[j]]
    OBVIOUS
  <2> HIDE DEF f
  <2>5. IsWith(f, s, i, t, k)
    BY <2>3, <2>4 DEF IsWith
  <2>6. k \in 1..i
    OBVIOUS
  <2> QED  BY <2>5, <2>6
<1>3. T \in SUBSET (1..i) /\ i \in Nat
  OBVIOUS
<1> HIDE DEF T
<1>4. \A k \in 1..i : k \in T
  BY <1>1, <1>2, <1>3, Downwards
<1> QED  BY <1>4 DEF T

(* With the state of level i replaced by t the levels above are as they were, *)
(* but for what is below them.                                               *)
Replaced(s, w, j) == Level(w, j) = [Level(s, j) EXCEPT !.next = Level(w, j + 1)]

(* Level i is replaced, and the levels above have it below them. *)
LEMMA WithLevelIs ==
    ASSUME NEW s, NEW i \in Nat \ {0}, NEW t, NEW w, w = WithLevel(s, i, t),
           \A j \in 1..(i - 1) : "next" \in DOMAIN Level(s, j)
    PROVE  Level(w, i) = t /\ \A j \in 1..(i - 1) : Replaced(s, w, j)
<1> DEFINE f == CHOOSE g : IsWith(g, s, i, t, 1)
<1>1. w = f[1]
  BY DEF WithLevel, IsWith
<1>2. IsWith(f, s, i, t, 1)
  <2>1. 1 \in 1..i
    OBVIOUS
  <2> QED  BY <2>1, WithExists
<1> HIDE DEF f
<1>3. \A j \in 1..i : f[j] = IF j = i THEN t ELSE [Level(s, j) EXCEPT !.next = f[j + 1]]
  <2>1. f = [j \in 1..i |-> IF j = i THEN t ELSE [Level(s, j) EXCEPT !.next = f[j + 1]]]
    BY <1>2 DEF IsWith
  <2> QED  BY <2>1
<1> DEFINE T == {j \in 1..i : Level(w, j) = f[j]}
<1>4. 1 \in T
  BY <1>1, LevelIs
<1>5. ASSUME NEW j \in 1..(i - 1), j \in T PROVE j + 1 \in T
  <2>1. j \in 1..i /\ j # i /\ j + 1 \in 1..i /\ j \in Nat \ {0}
    OBVIOUS
  <2>2. Level(w, j) = f[j]
    BY <1>5
  <2>3. f[j] = [Level(s, j) EXCEPT !.next = f[j + 1]]
    BY <1>3, <2>1
  <2>4. f[j].next = f[j + 1]
    BY <2>3
  <2>5. Level(w, j + 1) = Level(w, j).next
    BY <2>1, LevelIs
  <2> QED  BY <2>1, <2>2, <2>4, <2>5
<1>6. T \in SUBSET (1..i) /\ i \in Nat
  OBVIOUS
<1> HIDE DEF T
<1>7. \A j \in 1..i : j \in T
  BY <1>4, <1>5, <1>6, Upwards
<1>8. \A j \in 1..i : Level(w, j) = f[j]
  BY <1>7 DEF T
<1>9. i \in 1..i /\ \A j \in 1..(i - 1) : j \in 1..i /\ j + 1 \in 1..i /\ j # i
  OBVIOUS
<1>10. ASSUME NEW j \in 1..(i - 1) PROVE Replaced(s, w, j)
  <2>1. f[j] = [Level(s, j) EXCEPT !.next = f[j + 1]]
    BY <1>3, <1>9
  <2>2. Level(w, j) = f[j] /\ Level(w, j + 1) = f[j + 1]
    BY <1>8, <1>9
  <2> QED  BY <2>1, <2>2 DEF Replaced
<1> QED  BY <1>3, <1>8, <1>9, <1>10

(* A cache at level i, in a state that its operations keep.                  *)
ServedAt(m, i, s) ==
    /\ Served(m.caches[i], Cells(m), make_cached_memory(m)[i + 1], Role(m)[i + 1], s)
    /\ Balanced(m.caches[i], s)

(* The sound states of a cache of the chain, level by level. *)
LEMMA LevelServed ==
    ASSUME NEW m \in Configs, NEW i \in 1..Len(m.caches), NEW s
    PROVE  s \in Role(m)[i].sound <=> ServedAt(m, i, s)
<1> DEFINE base == make_cached_memory(m)
           role == Role(m)
<1>1. m.caches[i] \in Geometry /\ i + 1 \in 1..Memory(m) /\ Cells(m) \in SUBSET Nat
  BY MachineFields DEF Cells
<1>2. TypedBase(base[i + 1]) /\ Serves(Cells(m), base[i + 1], role[i + 1])
  BY <1>1, LevelsServe DEF ServesAt
<1>3. role[i] = CacheOf(m.caches[i], base[i + 1], role[i + 1])
  BY RoleIs
<1>4. ServedAt(m, i, s) <=>
        /\ Served(m.caches[i], Cells(m), base[i + 1], role[i + 1], s)
        /\ Balanced(m.caches[i], s)
  BY DEF ServedAt
<1> HIDE DEF base, role
<1>5. s \in CacheOf(m.caches[i], base[i + 1], role[i + 1]).sound
        <=> /\ Served(m.caches[i], Cells(m), base[i + 1], role[i + 1], s)
            /\ Balanced(m.caches[i], s)
  BY <1>1, <1>2, SoundIs
<1> QED  BY <1>3, <1>4, <1>5 DEF role

(* In a sound state every level is in a sound state. *)
LEMMA LevelsSound ==
    ASSUME NEW m \in Configs, NEW s \in Role(m)[1].sound
    PROVE  \A i \in 1..Memory(m) : Level(s, i) \in Role(m)[i].sound
<1> DEFINE role == Role(m)
           M == Memory(m)
           T == {i \in 1..M : Level(s, i) \in role[i].sound}
<1>1. /\ M \in Nat /\ 1 \in 1..M /\ M = Len(m.caches) + 1
      /\ 1..(M - 1) = 1..Len(m.caches)
  BY MachineFields
<1> HIDE DEF role, M
<1>2. 1 \in T
  BY <1>1, LevelIs DEF role
<1>3. ASSUME NEW i \in 1..(M - 1), i \in T PROVE i + 1 \in T
  <2>1. i \in 1..Len(m.caches) /\ i + 1 \in 1..M /\ i \in Nat \ {0}
    BY <1>1
  <2>2. ServedAt(m, i, Level(s, i))
    BY <1>3, <2>1, LevelServed DEF role
  <2>3. Level(s, i).next \in role[i + 1].sound
    BY <2>2 DEF ServedAt, Served, Coherent, role
  <2>4. Level(s, i + 1) = Level(s, i).next
    BY <2>1, LevelIs
  <2> QED  BY <2>1, <2>3, <2>4
<1>4. T \in SUBSET (1..M)
  OBVIOUS
<1> HIDE DEF T
<1>5. \A i \in 1..M : i \in T
  BY <1>1, <1>2, <1>3, <1>4, Upwards
<1> QED  BY <1>5 DEF T, role, M

(* t is a state of the cache that shows what s shows.                        *)
SameShown(c, A, b, q, s, t) ==
    /\ Served(c, A, b, q, t) /\ Balanced(c, t)
    /\ CacheOf(c, b, q).view[t] = CacheOf(c, b, q).view[s]
    /\ t.sets = s.sets /\ t.stats = s.stats

(* A cache over another state of its next memory that shows the same. *)
LEMMA NextSwapped ==
    ASSUME NEW c, NEW A, NEW b, NEW q, NEW s, Served(c, A, b, q, s), Balanced(c, s),
           NEW t \in CacheStates(c, b), t.sets = s.sets, t.stats = s.stats,
           t.next \in q.sound, q.view[t.next] = q.view[s.next],
           t.next.stats = s.next.stats
    PROVE  SameShown(c, A, b, q, s, t)
<1>1. /\ Served(c, A, b, q, t)
      /\ \A a \in A : Shown(c, q, t, a) = Shown(c, q, s, a)
  BY SetsSame
<1>2. Balanced(c, t)
  BY DEF Balanced
<1>3. CacheOf(c, b, q).view[t] = CacheOf(c, b, q).view[s]
  BY <1>1, ViewSame
<1> QED  BY <1>1, <1>2, <1>3 DEF SameShown

(* A cache of which the next memory's state is replaced by one that shows   *)
(* and counts the same.                                                     *)
LEMMA NextReplaced ==
    ASSUME NEW c, NEW A, NEW b, NEW q, NEW s, Served(c, A, b, q, s), Balanced(c, s),
           NEW u \in q.sound, q.view[u] = q.view[s.next],
           u.stats = s.next.stats, NEW t, t = [s EXCEPT !.next = u]
    PROVE  SameShown(c, A, b, q, s, t)
<1>1. s \in CacheStates(c, b) /\ Describes(A, b, q)
  BY DEF Served, Serves
<1>2. u \in b.states
  BY <1>1 DEF Describes
<1>3. /\ t \in CacheStates(c, b) /\ t.sets = s.sets /\ t.stats = s.stats
      /\ t.next = u
  BY <1>1, <1>2 DEF CacheStates
<1> DEFINE w == t
<1> HIDE DEF w
<1>4. /\ w \in CacheStates(c, b) /\ w.sets = s.sets /\ w.stats = s.stats
      /\ w.next \in q.sound /\ q.view[w.next] = q.view[s.next]
      /\ w.next.stats = s.next.stats
  BY <1>3 DEF w
<1>5. SameShown(c, A, b, q, s, w)
  BY <1>4, NextSwapped
<1> QED  BY <1>5 DEF w

(* A flush of a cache, in the terms of the chain. *)
LEMMA FlushServed ==
    ASSUME NEW c, NEW A, NEW b, NEW q, NEW s, Served(c, A, b, q, s), Balanced(c, s),
           NEW r, r = flush_cache(c, b, s)
    PROVE  /\ r.ok /\ SameShown(c, A, b, q, s, r.s)
           /\ q.view[r.s.next] = CacheOf(c, b, q).view[r.s]
<1>1. FlushesAll(c, A, b, q, s, r)
  BY FlushIs
<1> DEFINE t == r.s
<1>2. /\ r.ok /\ Served(c, A, b, q, t) /\ t.sets = s.sets /\ t.stats = s.stats
      /\ t.next.stats.reads = s.next.stats.reads
      /\ \A a \in A : Shown(c, q, t, a) = Shown(c, q, s, a)
      /\ \A a \in A : q.view[t.next][a] = Shown(c, q, t, a)
  BY <1>1 DEF FlushesAll
<1> HIDE DEF t
<1>3. Balanced(c, t)
  BY <1>2 DEF Balanced
<1>4. CacheOf(c, b, q).view[t] = CacheOf(c, b, q).view[s]
  BY <1>2, ViewSame
<1>5. q.view[t.next] = CacheOf(c, b, q).view[t]
  <2>1. c \in Geometry /\ A \in SUBSET Nat /\ Describes(A, b, q)
        /\ t \in CacheStates(c, b) /\ t.next \in b.states
    <3>1. c \in Geometry /\ A \in SUBSET Nat /\ Describes(A, b, q)
          /\ t \in CacheStates(c, b)
      BY <1>2 DEF Served, Serves
    <3> QED  BY <3>1, StateFields
  <2>2. Views(c, A, b, q, t)
    BY <2>1, ViewIs
  <2> DEFINE v == CacheOf(c, b, q).view[t]
             w == q.view[t.next]
  <2>3. v \in [A -> Byte] /\ \A a \in A : v[a] = Shown(c, q, t, a)
    BY <2>2 DEF Views
  <2>4. w \in [A -> Byte] /\ \A a \in A : w[a] = Shown(c, q, t, a)
    BY <1>2, <2>1 DEF Describes
  <2> HIDE DEF v, w
  <2>5. \A a \in A : v[a] = w[a]
    BY <2>3, <2>4
  <2>6. v = w
    BY <2>3, <2>4, <2>5
  <2> QED  BY <2>6 DEF v, w
<1> QED  BY <1>2, <1>3, <1>4, <1>5 DEF SameShown, t

(* t is a sound state of level j that shows what s shows.                    *)
SameAt(m, j, s, t) ==
    /\ t \in Role(m)[j].sound
    /\ Role(m)[j].view[t] = Role(m)[j].view[s]
    /\ t.sets = s.sets /\ t.stats = s.stats

(* A cache's state that shows the same, in the terms of the chain. *)
LEMMA SameIsSame ==
    ASSUME NEW m \in Configs, NEW j \in 1..Len(m.caches), NEW s, NEW t,
           SameShown(m.caches[j], Cells(m), make_cached_memory(m)[j + 1],
                     Role(m)[j + 1], s, t)
    PROVE  SameAt(m, j, s, t)
<1>1. Role(m)[j] = CacheOf(m.caches[j], make_cached_memory(m)[j + 1], Role(m)[j + 1])
  BY RoleIs
<1>2. ServedAt(m, j, t)
  BY DEF SameShown, ServedAt
<1>3. t \in Role(m)[j].sound
  BY <1>2, LevelServed
<1> QED  BY <1>1, <1>3 DEF SameShown, SameAt

(* A flush of level i, seen from all levels.                                 *)
LEMMA FlushesLevel ==
    ASSUME NEW m \in Configs, NEW s \in Role(m)[1].sound, NEW i \in 1..Len(m.caches),
           NEW r, r = flush_cache(m.caches[i], make_cached_memory(m)[i + 1], Level(s, i)),
           NEW w, w = WithLevel(s, i, r.s)
    PROVE  /\ r.ok
           /\ \A j \in 1..i : SameAt(m, j, Level(s, j), Level(w, j))
           /\ Role(m)[i + 1].view[Level(w, i + 1)] = Role(m)[i].view[Level(w, i)]
<1> DEFINE base == make_cached_memory(m)
           role == Role(m)
           T == {j \in 1..i : SameAt(m, j, Level(s, j), Level(w, j))}
<1>1. /\ Len(m.caches) \in Nat /\ Memory(m) = Len(m.caches) + 1 /\ i \in Nat \ {0}
      /\ \A j \in 1..i : j \in 1..Len(m.caches) /\ j \in Nat \ {0}
      /\ \A j \in 1..(i - 1) : j \in 1..i /\ j + 1 \in 1..i
  BY MachineFields
<1>2. \A j \in 1..i : Level(s, j) \in role[j].sound
  BY <1>1, LevelsSound
<1>3. \A j \in 1..i : ServedAt(m, j, Level(s, j))
  <2> HIDE DEF T, role
  <2> QED  BY <1>1, <1>2, LevelServed DEF role
<1>4. \A j \in 1..(i - 1) : "next" \in DOMAIN Level(s, j)
  <2> SUFFICES ASSUME NEW j \in 1..(i - 1) PROVE "next" \in DOMAIN Level(s, j)
    OBVIOUS
  <2>1. ServedAt(m, j, Level(s, j))
    BY <1>1, <1>3
  <2>2. Level(s, j) \in CacheStates(m.caches[j], base[j + 1])
    BY <2>1 DEF ServedAt, Served
  <2> QED  BY <2>2 DEF CacheStates
<1> HIDE DEF T, role, base
<1>5. Level(w, i) = r.s /\ \A j \in 1..(i - 1) : Replaced(s, w, j)
  <2> DEFINE t == r.s
  <2>1. i \in Nat \ {0} /\ w = WithLevel(s, i, t)
    BY <1>1
  <2> HIDE DEF t
  <2>2. Level(w, i) = t /\ \A j \in 1..(i - 1) : Replaced(s, w, j)
    BY <1>4, <2>1, WithLevelIs
  <2> QED  BY <2>2 DEF t
<1>6. i \in 1..i /\ i \in 1..Len(m.caches)
  BY <1>1
<1>7. /\ r.ok
      /\ SameShown(m.caches[i], Cells(m), base[i + 1], role[i + 1], Level(s, i), r.s)
      /\ role[i + 1].view[r.s.next]
            = CacheOf(m.caches[i], base[i + 1], role[i + 1]).view[r.s]
  <2>1. /\ Served(m.caches[i], Cells(m), base[i + 1], role[i + 1], Level(s, i))
        /\ Balanced(m.caches[i], Level(s, i))
    BY <1>3, <1>6 DEF ServedAt, base, role
  <2>2. r = flush_cache(m.caches[i], base[i + 1], Level(s, i))
    BY DEF base
  <2> QED  BY <2>1, <2>2, FlushServed
<1>8. i \in T
  <2>1. SameAt(m, i, Level(s, i), r.s)
    BY <1>6, <1>7, SameIsSame DEF base, role
  <2> QED  BY <1>5, <1>6, <2>1 DEF T
<1>9. ASSUME NEW j \in 1..(i - 1), j + 1 \in T PROVE j \in T
  <2> DEFINE x == Level(s, j)
             u == Level(w, j + 1)
  <2>1. j \in 1..i /\ j + 1 \in 1..i /\ j \in 1..Len(m.caches) /\ j \in Nat \ {0}
    BY <1>1
  <2>2. Level(s, j + 1) = x.next
    BY <2>1, LevelIs
  <2>3. SameAt(m, j + 1, x.next, u)
    BY <1>9, <2>2 DEF T
  <2>4. /\ Served(m.caches[j], Cells(m), base[j + 1], role[j + 1], x)
        /\ Balanced(m.caches[j], x)
    BY <1>3, <2>1 DEF ServedAt, base, role
  <2>5. Level(w, j) = [x EXCEPT !.next = u]
    BY <1>5 DEF Replaced
  <2>6. /\ u \in role[j + 1].sound /\ role[j + 1].view[u] = role[j + 1].view[x.next]
        /\ u.stats = x.next.stats
    BY <2>3 DEF SameAt, role
  <2> HIDE DEF x, u
  <2>7. SameShown(m.caches[j], Cells(m), base[j + 1], role[j + 1], x, Level(w, j))
    BY <2>4, <2>5, <2>6, NextReplaced
  <2>8. SameAt(m, j, x, Level(w, j))
    BY <2>1, <2>7, SameIsSame DEF base, role
  <2> QED  BY <2>1, <2>8 DEF T, x
<1>10. T \in SUBSET (1..i)
  BY DEF T
<1>11. \A j \in 1..i : j \in T
  BY <1>1, <1>8, <1>9, <1>10, Downwards
<1>12. role[i + 1].view[Level(w, i + 1)] = role[i].view[Level(w, i)]
  <2>1. Level(w, i + 1) = r.s.next
    <3>1. i \in Nat \ {0} /\ Level(w, i) = r.s
      BY <1>1, <1>5
    <3>2. Level(w, i + 1) = Level(w, i).next
      BY <3>1, LevelIs
    <3> QED  BY <3>1, <3>2
  <2>2. role[i] = CacheOf(m.caches[i], base[i + 1], role[i + 1])
    BY <1>6, RoleIs DEF role, base
  <2> QED  BY <1>5, <1>7, <2>1, <2>2
<1> QED  BY <1>7, <1>11, <1>12 DEF T, role

(* Resetting the statistics leaves what every level shows, and the sets.     *)
Counts(m, s, u, i) == Level(u, i) = make_cached_memory(m)[i].reset_stats[Level(s, i)]

(* A reset at the first level reaches every level. *)
LEMMA CountsReset ==
    ASSUME NEW m \in Configs, NEW s \in Role(m)[1].sound,
           NEW u, u = make_cached_memory(m)[1].reset_stats[s]
    PROVE  \A i \in 1..Memory(m) : Counts(m, s, u, i)
<1> DEFINE base == make_cached_memory(m)
           M == Memory(m)
           T == {i \in 1..M : Counts(m, s, u, i)}
<1>1. /\ M \in Nat /\ 1 \in 1..M /\ M = Len(m.caches) + 1
      /\ 1..(M - 1) = 1..Len(m.caches)
  BY MachineFields
<1>2. \A i : Counts(m, s, u, i) <=> Level(u, i) = base[i].reset_stats[Level(s, i)]
  BY DEF Counts
<1>3. u = base[1].reset_stats[s]
  OBVIOUS
<1>4. \A i \in 1..M : Level(s, i) \in Role(m)[i].sound
  BY LevelsSound
<1> HIDE DEF base, M
<1>5. 1 \in T
  BY <1>1, <1>2, <1>3, LevelIs
<1>6. ASSUME NEW i \in 1..(M - 1), i \in T PROVE i + 1 \in T
  <2> DEFINE x == Level(s, i)
             c == m.caches[i]
             b == base[i + 1]
  <2>1. i \in 1..Len(m.caches) /\ i \in 1..M /\ i + 1 \in 1..M /\ i \in Nat \ {0}
    BY <1>1
  <2>2. ServedAt(m, i, x)
    BY <1>4, <2>1, LevelServed
  <2>3. x \in CacheStates(c, b) /\ TypedBase(b)
    BY <2>2 DEF ServedAt, Served, base
  <2>4. base[i] = cache_base(c, b)
    BY <2>1, ChainIs DEF base
  <2>5. Level(u, i) = base[i].reset_stats[x]
    BY <1>2, <1>6
  <2>6. Level(u, i + 1) = Level(u, i).next /\ Level(s, i + 1) = x.next
    BY <2>1, LevelIs
  <2> HIDE DEF x, c, b
  <2>7. base[i].reset_stats[x] = cache_reset_stats(b, x)
    BY <2>3, <2>4 DEF cache_base
  <2>8. cache_reset_stats(b, x).next = b.reset_stats[x.next]
    BY <2>3, ResetTyped
  <2>9. Level(u, i + 1) = base[i + 1].reset_stats[Level(s, i + 1)]
    BY <2>5, <2>6, <2>7, <2>8 DEF b
  <2> QED  BY <1>2, <2>1, <2>9
<1>7. T \in SUBSET (1..M)
  OBVIOUS
<1> HIDE DEF T
<1>8. \A i \in 1..M : i \in T
  BY <1>1, <1>5, <1>6, <1>7, Upwards
<1> QED  BY <1>8 DEF T, M

(* A reset of the statistics changes nothing that any level shows. *)
LEMMA ResetIs ==
    ASSUME NEW m \in Configs, NEW s \in Role(m)[1].sound,
           NEW u, u = make_cached_memory(m)[1].reset_stats[s]
    PROVE  /\ u \in Role(m)[1].sound
           /\ \A i \in 1..Memory(m) :
                Role(m)[i].view[Level(u, i)] = Role(m)[i].view[Level(s, i)]
           /\ Len(m.caches) # 0 => u.sets = s.sets
<1> DEFINE base == make_cached_memory(m)
           role == Role(m)
<1>1. /\ 1 \in 1..Memory(m)
      /\ Len(m.caches) # 0 => 1 \in 1..Len(m.caches)
  BY MachineFields
<1>2. \A i \in 1..Memory(m) : Serves(Cells(m), base[i], role[i])
  BY LevelsServe DEF ServesAt
<1>3. \A i \in 1..Memory(m) : Level(s, i) \in role[i].sound
  BY LevelsSound
<1>4. \A i \in 1..Memory(m) : Level(u, i) = base[i].reset_stats[Level(s, i)]
  BY CountsReset DEF Counts
<1>5. u = base[1].reset_stats[s] /\ s \in role[1].sound
  OBVIOUS
<1>6. ASSUME Len(m.caches) # 0 PROVE u.sets = s.sets
  <2> DEFINE c == m.caches[1]
             b == base[2]
  <2>1. base[1] = cache_base(c, b)
    <3>1. 1 \in 1..Len(m.caches) /\ 1 + 1 = 2
      BY <1>1, <1>6
    <3>2. base[1] = cache_base(m.caches[1], base[1 + 1])
      BY <3>1, ChainIs
    <3> QED  BY <3>1, <3>2
  <2>2. s \in CacheStates(c, b)
    <3>1. ServedAt(m, 1, s)
      BY <1>1, <1>6, LevelServed
    <3>2. s \in CacheStates(m.caches[1], make_cached_memory(m)[1 + 1]) /\ 1 + 1 = 2
      BY <3>1 DEF ServedAt, Served
    <3> QED  BY <3>2
  <2> HIDE DEF base, c, b, role
  <2>3. u = cache_reset_stats(b, s)
    BY <1>5, <2>1, <2>2 DEF cache_base
  <2> QED  BY <2>2, <2>3 DEF cache_reset_stats, CacheStates
<1> HIDE DEF base, role
<1>7. u \in role[1].sound
  <2>1. ResetsAs(base[1], role[1])
    BY <1>1, <1>2 DEF Serves
  <2> QED  BY <1>5, <2>1 DEF ResetsAs
<1>8. \A i \in 1..Memory(m) : role[i].view[Level(u, i)] = role[i].view[Level(s, i)]
  <2>1. \A i \in 1..Memory(m) : ResetsAs(base[i], role[i])
    BY <1>2 DEF Serves
  <2> QED  BY <1>3, <1>4, <2>1 DEF ResetsAs
<1> QED  BY <1>6, <1>7, <1>8 DEF role

-----------------------------------------------------------------------------
(****************************************************************************)
(* The program and its memory.                                              *)
(****************************************************************************)

CacheInv == config \in Configs /\ sys \in Role(config)[1].sound

(* The bytes seen at a level, in the terms of its role. *)
LEMMA ViewOfLevel ==
    ASSUME NEW m \in Configs, NEW i \in 1..Memory(m), NEW s
    PROVE  Seen(m)[i][Level(s, i)] = Role(m)[i].view[Level(s, i)]
BY SeenIs

(* What the program sees at the first level. *)
LEMMA FirstView ==
    ASSUME NEW m \in Configs, NEW s \in Role(m)[1].sound
    PROVE  /\ Seen(m)[1][Level(s, 1)] = Role(m)[1].view[s]
           /\ Role(m)[1].view[s] \in [Cells(m) -> Byte]
<1>1. 1 \in 1..Memory(m)
  BY MachineFields
<1>2. Seen(m)[1][Level(s, 1)] = Role(m)[1].view[s]
  BY <1>1, SeenIs, LevelIs
<1>3. Describes(Cells(m), make_cached_memory(m)[1], Role(m)[1])
  BY <1>1, LevelsServe DEF ServesAt, Serves
<1>4. Role(m)[1].view[s] \in [Cells(m) -> Byte]
  BY <1>3 DEF Describes
<1> QED  BY <1>2, <1>4

(* The start, a read and a write of a machine, as the program finds them.    *)
LEMMA MachineStarts ==
    ASSUME NEW m \in Configs, NEW s, s = make_cached_memory(m)[1].start
    PROVE  s \in Role(m)[1].sound /\ \A a \in Cells(m) : Role(m)[1].view[s][a] = 0
<1>1. 1 \in 1..Memory(m)
  BY MachineFields
<1>2. StartsAs(Cells(m), make_cached_memory(m)[1], Role(m)[1])
  BY <1>1, LevelsServe DEF ServesAt, Serves
<1> QED  BY <1>2 DEF StartsAs

MachineRead(m, s, a, r) ==
    r.ok => /\ r.s \in Role(m)[1].sound /\ Role(m)[1].view[r.s] = Role(m)[1].view[s]
            /\ r.byte = Role(m)[1].view[s][a]

(* A read within the memory succeeds, with the byte shown. *)
LEMMA MachineReads ==
    ASSUME NEW m \in Configs, NEW s \in Role(m)[1].sound, NEW a \in Cells(m),
           NEW r, r = make_cached_memory(m)[1].read_byte[s][a]
    PROVE  MachineRead(m, s, a, r)
<1>1. 1 \in 1..Memory(m) /\ a \in Address
  BY MachineFields DEF Cells, Address
<1> DEFINE b == make_cached_memory(m)[1]
           q == Role(m)[1]
<1>2. ReadsAs(b, q)
  BY <1>1, LevelsServe DEF ServesAt, Serves
<1>3. s \in q.sound /\ r = b.read_byte[s][a]
  OBVIOUS
<1>4. r.ok => /\ r.s \in q.sound /\ q.view[r.s] = q.view[s]
              /\ r.byte = q.view[s][a]
  <2> HIDE DEF b, q
  <2> QED  BY <1>1, <1>2, <1>3 DEF ReadsAs
<1> QED  BY <1>4 DEF MachineRead

MachineWrite(m, s, a, v, r) ==
    r.ok => /\ r.s \in Role(m)[1].sound
            /\ Role(m)[1].view[r.s] = [Role(m)[1].view[s] EXCEPT ![a] = v]

(* A write within the memory succeeds, and shows its byte. *)
LEMMA MachineWrites ==
    ASSUME NEW m \in Configs, NEW s \in Role(m)[1].sound, NEW a \in Cells(m),
           NEW v \in Byte, NEW r, r = make_cached_memory(m)[1].write_byte[s][a][v]
    PROVE  MachineWrite(m, s, a, v, r)
<1>1. 1 \in 1..Memory(m) /\ a \in Address
  BY MachineFields DEF Cells, Address
<1> DEFINE b == make_cached_memory(m)[1]
           q == Role(m)[1]
<1>2. WritesAs(b, q)
  BY <1>1, LevelsServe DEF ServesAt, Serves
<1>3. s \in q.sound /\ r = b.write_byte[s][a][v]
  OBVIOUS
<1>4. r.ok => /\ r.s \in q.sound
              /\ q.view[r.s] = [q.view[s] EXCEPT ![a] = v]
  <2> HIDE DEF b, q
  <2> QED  BY <1>1, <1>2, <1>3 DEF WritesAs
<1> QED  BY <1>4 DEF MachineWrite

(* The invariant holds at the start, where every byte is zero. *)
LEMMA StartKeeps ==
    ASSUME Init
    PROVE  CacheInv /\ Plain!PlainInit
<1>1. /\ config \in Configs /\ sys = make_cached_memory(config)[1].start /\ got = 0
  BY DEF Init, Base
<1>2. /\ sys \in Role(config)[1].sound
      /\ \A a \in Cells(config) : Role(config)[1].view[sys][a] = 0
  BY <1>1, MachineStarts
<1>3. /\ View(1) = Role(config)[1].view[sys]
      /\ Role(config)[1].view[sys] \in [Cells(config) -> Byte]
  BY <1>1, <1>2, FirstView DEF View
<1> QED  BY <1>1, <1>2, <1>3 DEF CacheInv, Plain!PlainInit

(* The state in which an operation begins shows what sys does. *)
LEMMA UncountedIs ==
    ASSUME CacheInv
    PROVE  /\ config \in Configs /\ sys \in Role(config)[1].sound
           /\ Uncounted \in Role(config)[1].sound
           /\ \A i \in 1..Memory(config) :
                Role(config)[i].view[Level(Uncounted, i)]
                    = Role(config)[i].view[Level(sys, i)]
           /\ Role(config)[1].view[Uncounted] = Role(config)[1].view[sys]
           /\ Len(config.caches) # 0 => Uncounted.sets = sys.sets
<1>1. /\ config \in Configs /\ sys \in Role(config)[1].sound
      /\ Uncounted = make_cached_memory(config)[1].reset_stats[sys]
  BY DEF CacheInv, Uncounted, Base
<1>2. 1 \in 1..Memory(config)
  BY <1>1, MachineFields
<1>3. /\ Uncounted \in Role(config)[1].sound
      /\ \A i \in 1..Memory(config) :
                Role(config)[i].view[Level(Uncounted, i)]
                    = Role(config)[i].view[Level(sys, i)]
      /\ Len(config.caches) # 0 => Uncounted.sets = sys.sets
  BY <1>1, ResetIs
<1> QED  BY <1>1, <1>2, <1>3, LevelIs

-----------------------------------------------------------------------------
(****************************************************************************)
(* The steps.                                                               *)
(****************************************************************************)

(* The program goes on to a state that shows the bytes v.                    *)
Shows(v) ==
    /\ CacheInv' /\ View(1)' = v /\ View(1) = Role(config)[1].view[sys]

(* What the program sees in a next state, from that state's view. *)
LEMMA ShowsNext ==
    ASSUME CacheInv, config' = config, sys' \in Role(config)[1].sound,
           NEW v, v = Role(config)[1].view[sys']
    PROVE  Shows(v)
<1>1. config \in Configs /\ sys \in Role(config)[1].sound
  BY DEF CacheInv
<1>2. View(1)' = v
  <2>1. View(1)' = Seen(config)[1][Level(sys', 1)]
    BY DEF View
  <2> QED  BY <1>1, <2>1, FirstView
<1>3. View(1) = Role(config)[1].view[sys]
  BY <1>1, FirstView DEF View
<1> QED  BY <1>1, <1>2, <1>3 DEF Shows, CacheInv

(* A step that leaves the machine as it is keeps the invariant. *)
LEMMA SameKeeps ==
    ASSUME CacheInv, UNCHANGED <<config, sys, got>>
    PROVE  CacheInv' /\ UNCHANGED Plain!plainVars
<1>1. CacheInv'
  BY DEF CacheInv
<1>2. View(1)' = View(1)
  BY DEF View
<1> QED  BY <1>1, <1>2 DEF Plain!plainVars

(* A read keeps the invariant, and is a read of plain memory. *)
LEMMA ReadKeeps ==
    ASSUME CacheInv, NEW a \in Cells(config), Read(a)
    PROVE  CacheInv' /\ (Plain!Read(a) \/ UNCHANGED Plain!plainVars)
<1> DEFINE r == Base(1).read_byte[Uncounted][a]
<1>1. \/ ~r.ok /\ Aborts
      \/ r.ok /\ Completes(r) /\ got' = r.byte
  BY DEF Read
<1>2. CASE ~r.ok /\ Aborts
  BY <1>2, SameKeeps DEF Aborts
<1>3. CASE r.ok /\ Completes(r) /\ got' = r.byte
  <2>1. /\ config \in Configs /\ Uncounted \in Role(config)[1].sound
        /\ Role(config)[1].view[Uncounted] = Role(config)[1].view[sys]
    BY UncountedIs
  <2>2. r = make_cached_memory(config)[1].read_byte[Uncounted][a]
    BY DEF Base
  <2>3. MachineRead(config, Uncounted, a, r)
    BY <2>1, <2>2, MachineReads
  <2>4. config' = config /\ sys' = r.s
    BY <1>3 DEF Completes
  <2> HIDE DEF r
  <2>5. /\ sys' \in Role(config)[1].sound
        /\ Role(config)[1].view[sys'] = Role(config)[1].view[sys]
        /\ got' = Role(config)[1].view[sys][a]
    BY <1>3, <2>1, <2>3, <2>4 DEF MachineRead
  <2>6. Shows(Role(config)[1].view[sys])
    BY <2>4, <2>5, ShowsNext
  <2> QED  BY <2>5, <2>6 DEF Shows, Plain!Read
<1> QED  BY <1>1, <1>2, <1>3

(* A write keeps the invariant, and is a write of plain memory. *)
LEMMA WriteKeeps ==
    ASSUME CacheInv, NEW a \in Cells(config), NEW b \in Byte, Write(a, b)
    PROVE  CacheInv' /\ (Plain!Write(a, b) \/ UNCHANGED Plain!plainVars)
<1> DEFINE r == Base(1).write_byte[Uncounted][a][b]
<1>1. \/ ~r.ok /\ Aborts
      \/ r.ok /\ Completes(r) /\ UNCHANGED got
  BY DEF Write
<1>2. CASE ~r.ok /\ Aborts
  BY <1>2, SameKeeps DEF Aborts
<1>3. CASE r.ok /\ Completes(r) /\ UNCHANGED got
  <2>1. /\ config \in Configs /\ Uncounted \in Role(config)[1].sound
        /\ Role(config)[1].view[Uncounted] = Role(config)[1].view[sys]
    BY UncountedIs
  <2>2. r = make_cached_memory(config)[1].write_byte[Uncounted][a][b]
    BY DEF Base
  <2>3. MachineWrite(config, Uncounted, a, b, r)
    BY <2>1, <2>2, MachineWrites
  <2>4. config' = config /\ sys' = r.s
    BY <1>3 DEF Completes
  <2> HIDE DEF r
  <2>5. /\ sys' \in Role(config)[1].sound
        /\ Role(config)[1].view[sys'] = [Role(config)[1].view[sys] EXCEPT ![a] = b]
    BY <1>3, <2>1, <2>3, <2>4 DEF MachineWrite
  <2> DEFINE v == Role(config)[1].view[sys']
  <2>6. Shows(v)
    <3>1. v = Role(config)[1].view[sys']
      OBVIOUS
    <3> HIDE DEF v
    <3> QED  BY <2>4, <2>5, <3>1, ShowsNext
  <2> QED  BY <1>3, <2>5, <2>6 DEF Shows, Plain!Write
<1> QED  BY <1>1, <1>2, <1>3

(* A reset keeps the invariant, and the program sees no change. *)
LEMMA ResetKeeps ==
    ASSUME CacheInv, ResetStats
    PROVE  CacheInv' /\ UNCHANGED Plain!plainVars
<1>1. /\ Uncounted \in Role(config)[1].sound
      /\ Role(config)[1].view[Uncounted] = Role(config)[1].view[sys]
  BY UncountedIs
<1>2. sys' = Uncounted /\ config' = config /\ got' = got
  BY DEF ResetStats, Uncounted
<1>3. Shows(Role(config)[1].view[sys])
  BY <1>1, <1>2, ShowsNext
<1> QED  BY <1>2, <1>3 DEF Shows, Plain!plainVars

(* What a flush of level i does.                                             *)
Flushes(i) ==
    /\ config' = config /\ got' = got /\ aborted' = FALSE
    /\ View(i)' = View(i + 1)'
    /\ \A j \in 1..i : View(j)' = View(j)

(* A flush keeps the invariant, and reaches the next level. *)
LEMMA FlushKeeps ==
    ASSUME CacheInv, NEW i \in Levels, Flush(i)
    PROVE  CacheInv' /\ Flushes(i)
           /\ Len(config.caches) # 0 /\ sys'.sets = sys.sets
<1> DEFINE r == flush_cache(caches[i], Base(i + 1), Level(Uncounted, i))
           u == Uncounted
           m == config
<1>1. /\ m \in Configs /\ u \in Role(m)[1].sound
      /\ \A j \in 1..Memory(m) :
            Role(m)[j].view[Level(u, j)] = Role(m)[j].view[Level(sys, j)]
      /\ Len(m.caches) # 0 => u.sets = sys.sets
  BY UncountedIs
<1>2. /\ sys' = WithLevel(u, i, r.s) /\ aborted' = ~r.ok
      /\ config' = config /\ got' = got
  BY DEF Flush
<1>3. /\ i \in 1..Len(m.caches) /\ Len(m.caches) # 0
      /\ Len(m.caches) \in Nat /\ Memory(m) = Len(m.caches) + 1
      /\ 1 \in 1..i /\ i + 1 \in 1..Memory(m) /\ i \in 1..Memory(m)
      /\ \A j \in 1..i : j \in 1..Memory(m)
  <2>1. /\ i \in 1..Len(m.caches)
        /\ Len(m.caches) \in Nat /\ Memory(m) = Len(m.caches) + 1
    BY <1>1, MachineFields DEF Levels, caches
  <2> QED  BY <2>1
<1>4. r = flush_cache(m.caches[i], make_cached_memory(m)[i + 1], Level(u, i))
  BY DEF caches, Base
<1> HIDE DEF r, u
<1>5. /\ r.ok
      /\ \A j \in 1..i : SameAt(m, j, Level(u, j), Level(sys', j))
      /\ Role(m)[i + 1].view[Level(sys', i + 1)] = Role(m)[i].view[Level(sys', i)]
  BY <1>1, <1>2, <1>3, <1>4, FlushesLevel
<1>6. SameAt(m, 1, u, sys')
  BY <1>3, <1>5, LevelIs
<1>7. sys' \in Role(m)[1].sound /\ sys'.sets = sys.sets
  BY <1>1, <1>3, <1>6 DEF SameAt
<1>8. CacheInv'
  BY <1>1, <1>2, <1>7 DEF CacheInv
<1>9. /\ \A j \in 1..Memory(m) : View(j) = Role(m)[j].view[Level(sys, j)]
      /\ \A j \in 1..Memory(m) : View(j)' = Role(m)[j].view[Level(sys', j)]
  <2>1. \A j \in 1..Memory(m) : View(j) = Role(m)[j].view[Level(sys, j)]
    BY <1>1, ViewOfLevel DEF View
  <2>2. \A j \in 1..Memory(m) : View(j)' = Role(m)[j].view[Level(sys', j)]
    BY <1>1, <1>2, ViewOfLevel DEF View
  <2> QED  BY <2>1, <2>2
<1>10. View(i)' = View(i + 1)'
  BY <1>3, <1>5, <1>9
<1>11. ASSUME NEW j \in 1..i PROVE View(j)' = View(j)
  <2>1. Role(m)[j].view[Level(sys', j)] = Role(m)[j].view[Level(u, j)]
    BY <1>5 DEF SameAt
  <2> QED  BY <1>1, <1>3, <1>9, <2>1
<1>12. aborted' = FALSE
  BY <1>2, <1>5
<1> QED  BY <1>2, <1>3, <1>7, <1>8, <1>10, <1>11, <1>12 DEF Flushes

(* Every step keeps the invariant, and is a step of plain memory or none    *)
(* that the program sees.                                                   *)
LEMMA NextKeeps ==
    ASSUME CacheInv, [Next]_vars
    PROVE  CacheInv' /\ [Plain!PlainNext]_(Plain!plainVars)
<1>1. /\ config \in Configs /\ DOMAIN View(1) = Cells(config)
  <2>1. config \in Configs /\ sys \in Role(config)[1].sound
    BY DEF CacheInv
  <2>2. Role(config)[1].view[sys] \in [Cells(config) -> Byte]
    BY <2>1, FirstView
  <2>3. View(1) = Role(config)[1].view[sys]
    BY <2>1, FirstView DEF View
  <2> QED  BY <2>1, <2>2, <2>3
<1>2. CASE UNCHANGED vars
  BY <1>2, SameKeeps DEF vars
<1>3. ASSUME NEW a \in 0..(config.mem_size - 1), Read(a)
      PROVE  CacheInv' /\ [Plain!PlainNext]_(Plain!plainVars)
  <2>1. a \in Cells(config)
    BY DEF Cells
  <2>2. CacheInv' /\ (Plain!Read(a) \/ UNCHANGED Plain!plainVars)
    BY <1>3, <2>1, ReadKeeps
  <2> QED  BY <1>1, <2>1, <2>2 DEF Plain!PlainNext
<1>4. ASSUME NEW a \in 0..(config.mem_size - 1), NEW b \in Byte, Write(a, b)
      PROVE  CacheInv' /\ [Plain!PlainNext]_(Plain!plainVars)
  <2>1. a \in Cells(config)
    BY DEF Cells
  <2>2. CacheInv' /\ (Plain!Write(a, b) \/ UNCHANGED Plain!plainVars)
    BY <1>4, <2>1, WriteKeeps
  <2> QED  BY <1>1, <2>1, <2>2 DEF Plain!PlainNext
<1>5. ASSUME NEW i \in Levels, Flush(i)
      PROVE  CacheInv' /\ UNCHANGED Plain!plainVars
  <2>1. CacheInv' /\ Flushes(i) /\ i \in 1..Len(config.caches)
    BY <1>1, <1>5, FlushKeeps, MachineFields DEF Levels, caches
  <2>2. 1 \in 1..i
    BY <1>1, <2>1, MachineFields
  <2> QED  BY <2>1, <2>2 DEF Flushes, Plain!plainVars
<1>6. CASE ResetStats
  BY <1>6, ResetKeeps
<1> QED  BY <1>2, <1>3, <1>4, <1>5, <1>6 DEF Next

(* For every memory and every chain of caches in front of it, of any        *)
(* geometry, the program sees an array of bytes: a read returns the byte    *)
(* written last to its address, whatever blocks were loaded, evicted        *)
(* through further caches or flushed in between, and no byte changes but by *)
(* the program's write (cache_read_byte and cache_write_byte).              *)
THEOREM ChainIsPlainMemory == CacheSpec => ImplementsPlainMemory
<1>1. Init => CacheInv /\ Plain!PlainInit
  BY StartKeeps
<1>2. CacheInv /\ [Next]_vars => CacheInv' /\ [Plain!PlainNext]_(Plain!plainVars)
  BY NextKeeps
<1> QED  BY <1>1, <1>2, PTL DEF CacheSpec, ImplementsPlainMemory, Plain!PlainSpec

(* A flush of any cache of any chain ends with no assert failed and every   *)
(* byte the cache shows in its next level, and neither it nor a level above *)
(* shows another byte than before: what the comment on flush_cache says.    *)
THEOREM FlushAlwaysReaches == CacheSpec => FlushReachesNextLevel
<1> DEFINE Kept == \A i \in Levels : Flush(i) =>
                        /\ ~aborted'
                        /\ View(i)' = View(i + 1)'
                        /\ \A j \in 1..i : View(j)' = View(j)
<1>1. Init => CacheInv
  BY StartKeeps
<1>2. CacheInv /\ [Next]_vars => CacheInv'
  BY NextKeeps
<1>3. CacheInv => Kept
  BY FlushKeeps DEF Flushes
<1> HIDE DEF Kept
<1>4. CacheSpec => [][Kept]_vars
  BY <1>1, <1>2, <1>3, PTL DEF CacheSpec
<1> QED  BY <1>4 DEF Kept, FlushReachesNextLevel

(* At every level the reads and writes are the hits and misses, and the     *)
(* next level was read block_size times for each miss: what                 *)
(* resolve_cache_access and load_cache_line count, and cache_reset_stats    *)
(* clears at all levels or at none.                                         *)
THEOREM StatisticsAlwaysAgree == CacheSpec => []StatisticsAgree
<1>1. Init => CacheInv
  BY StartKeeps
<1>2. CacheInv /\ [Next]_vars => CacheInv'
  BY NextKeeps
<1>3. CacheInv => StatisticsAgree
  <2> SUFFICES ASSUME CacheInv, NEW i \in Levels
               PROVE  /\ Level(sys, i).stats.reads + Level(sys, i).stats.writes
                           = Level(sys, i).stats.hits + Level(sys, i).stats.misses
                      /\ Level(sys, i + 1).stats.reads
                           = caches[i].block_size * Level(sys, i).stats.misses
    BY DEF StatisticsAgree
  <2>1. config \in Configs /\ sys \in Role(config)[1].sound
    BY DEF CacheInv
  <2>2. i \in 1..Len(config.caches) /\ i \in 1..Memory(config) /\ i \in Nat \ {0}
    BY <2>1, MachineFields DEF Levels, caches
  <2>3. ServedAt(config, i, Level(sys, i))
    BY <2>1, <2>2, LevelsSound, LevelServed
  <2>4. Level(sys, i + 1) = Level(sys, i).next
    BY <2>2, LevelIs
  <2> QED  BY <2>3, <2>4 DEF ServedAt, Balanced, caches
<1> QED  BY <1>1, <1>2, <1>3, PTL DEF CacheSpec

-----------------------------------------------------------------------------
(****************************************************************************)
(* The least recently used policy of the first cache.                       *)
(****************************************************************************)

Valid(set) == {n \in DOMAIN set : set[n].valid}

(* The tags in a set whose lines were accessed after line m. *)
Later(set, m) ==
    {set[j].tag : j \in {k \in Valid(set) :
                            set[k].last_time_accessed > set[m].last_time_accessed}}

Tags(set) == {set[n].tag : n \in Valid(set)}

(* No two lines have the same place in the order, or the same block. *)
Ordered(c, set) ==
    /\ \A i, j \in LineNos(c) :
            set[i].last_time_accessed = set[j].last_time_accessed => i = j
    /\ \A i, j \in LineNos(c) :
            set[i].valid /\ set[j].valid /\ set[i].tag = set[j].tag => i = j

(* The history of a set remembers the blocks in its lines, and of each the    *)
(* ones accessed later.                                                      *)
Recalls(c, set, since) ==
    /\ Ordered(c, set)
    /\ DOMAIN since = Tags(set)
    /\ \A m \in Valid(set) : since[set[m].tag] = Later(set, m)

(* Line n of the set gets the block with this tag, and is the latest. *)
Renewed(c, set, new, tag, n) ==
    /\ new[n].valid /\ new[n].tag = tag
    /\ \A i \in LineNos(c) : i # n =>
          /\ new[i].valid = set[i].valid
          /\ new[i].tag = set[i].tag
    /\ \A i \in LineNos(c) : new[i].last_time_accessed =
          IF i = n THEN c.lines_per_set - 1
          ELSE IF set[i].last_time_accessed > set[n].last_time_accessed
          THEN set[i].last_time_accessed - 1
          ELSE set[i].last_time_accessed

(* A set has lines_per_set lines, and one less without one of them. *)
LEMMA LineCount ==
    ASSUME NEW c \in Geometry, NEW m \in LineNos(c)
    PROVE  /\ IsFiniteSet(LineNos(c)) /\ Cardinality(LineNos(c)) = c.lines_per_set
           /\ IsFiniteSet(LineNos(c) \ {m})
           /\ Cardinality(LineNos(c) \ {m}) = c.lines_per_set - 1
           /\ c.lines_per_set \in Nat \ {0}
<1>1. c.lines_per_set \in Nat \ {0}
  BY GeometryFields
<1> DEFINE L == c.lines_per_set
<1>2. 0 \in Int /\ L - 1 \in Int /\ ~(0 > L - 1) /\ (L - 1) - 0 + 1 = L
  BY <1>1
<1>3. IsFiniteSet(0..(L - 1)) /\ Cardinality(0..(L - 1)) = L
  BY <1>2, FS_Interval
<1>4. IsFiniteSet(LineNos(c)) /\ Cardinality(LineNos(c)) = L
  BY <1>3 DEF LineNos
<1>5. /\ IsFiniteSet(LineNos(c) \ {m})
      /\ Cardinality(LineNos(c) \ {m}) = L - 1
  BY <1>4, FS_RemoveElement
<1> QED  BY <1>1, <1>4, <1>5

(* The tags of all lines but one are fewer than the lines.                   *)
LEMMA FewTags ==
    ASSUME NEW c \in Geometry, NEW m \in LineNos(c), NEW f,
           NEW D \in SUBSET (LineNos(c) \ {m})
    PROVE  Cardinality({f[j] : j \in D}) < c.lines_per_set
<1> DEFINE T == {f[j] : j \in D}
           g == [j \in D |-> f[j]]
<1>1. /\ IsFiniteSet(LineNos(c) \ {m})
      /\ Cardinality(LineNos(c) \ {m}) = c.lines_per_set - 1
      /\ c.lines_per_set \in Nat \ {0}
  BY LineCount
<1>2. IsFiniteSet(D) /\ Cardinality(D) <= c.lines_per_set - 1
  BY <1>1, FS_Subset
<1>3. g \in Surjection(D, T)
  BY DEF Surjection
<1> HIDE DEF g, T
<1>4. IsFiniteSet(T) /\ Cardinality(T) <= Cardinality(D)
  BY <1>2, <1>3, FS_Surjection
<1>5. Cardinality(T) \in Nat /\ Cardinality(D) \in Nat
  BY <1>2, <1>4, FS_CardinalityType
<1> QED  BY <1>1, <1>2, <1>4, <1>5 DEF T

(* When all lines have different tags, those of all but one and another tag   *)
(* are as many as the lines.                                                 *)
AllButOne(c, m, f, t, U) ==
    /\ \A i, j \in LineNos(c) : f[i] = f[j] => i = j
    /\ \A i \in LineNos(c) : f[i] # t
    /\ \A u : u \in U <=> u = t \/ \E j \in LineNos(c) : j # m /\ u = f[j]

(* Those tags are not fewer than the lines. *)
LEMMA AllTags ==
    ASSUME NEW c \in Geometry, NEW m \in LineNos(c), NEW f, NEW t, NEW U,
           AllButOne(c, m, f, t, U)
    PROVE  ~(Cardinality(U) < c.lines_per_set)
<1> DEFINE D == LineNos(c) \ {m}
           T == {f[j] : j \in D}
           g == [j \in D |-> f[j]]
<1>1. IsFiniteSet(D) /\ Cardinality(D) = c.lines_per_set - 1
      /\ c.lines_per_set \in Nat \ {0}
  BY LineCount
<1>2. g \in Surjection(D, T) /\ g \in Injection(D, T)
  BY DEF Surjection, Injection, IsInjective, AllButOne
<1>3. t \notin T /\ U = T \cup {t}
  BY DEF AllButOne
<1> HIDE DEF g, T, D
<1>4. IsFiniteSet(T) /\ Cardinality(T) = Cardinality(D)
  BY <1>1, <1>2, FS_Surjection
<1>5. Cardinality(T \cup {t}) = Cardinality(T) + 1
  BY <1>3, <1>4, FS_AddElement
<1> QED  BY <1>1, <1>3, <1>4, <1>5

(* An access keeps the order of the others, and puts line n last. *)
LEMMA OrderKept ==
    ASSUME NEW c \in Geometry, NEW set \in CacheSet(c), NEW new \in CacheSet(c),
           NEW tag, NEW n \in LineNos(c), Ordered(c, set), Renewed(c, set, new, tag, n)
    PROVE  /\ \A i, j \in LineNos(c) :
                new[i].last_time_accessed = new[j].last_time_accessed => i = j
           /\ \A j, m \in LineNos(c) : m # n =>
                (new[j].last_time_accessed > new[m].last_time_accessed
                  <=> j = n \/ set[j].last_time_accessed > set[m].last_time_accessed)
           /\ \A j \in LineNos(c) :
                ~(new[j].last_time_accessed > new[n].last_time_accessed)
<1> DEFINE L == c.lines_per_set
           x == [i \in LineNos(c) |-> set[i].last_time_accessed]
           y == [i \in LineNos(c) |-> new[i].last_time_accessed]
<1>1. L \in Nat \ {0} /\ LineNos(c) = 0..(L - 1)
  BY GeometryFields DEF LineNos
<1>2. x \in [LineNos(c) -> 0..(L - 1)] /\ y \in [LineNos(c) -> 0..(L - 1)]
  BY <1>1 DEF CacheSet, Line
<1>3. \A i, j \in LineNos(c) : x[i] = x[j] => i = j
  BY DEF Ordered
<1>4. \A i \in LineNos(c) : y[i] = IF i = n THEN L - 1
                                   ELSE IF x[i] > x[n] THEN x[i] - 1 ELSE x[i]
  BY DEF Renewed
<1>5. \A i \in LineNos(c) : /\ x[i] = set[i].last_time_accessed
                            /\ y[i] = new[i].last_time_accessed
  OBVIOUS
<1> HIDE DEF L, x, y
<1>0. \A i \in LineNos(c) : /\ x[i] \in Int /\ y[i] \in Int
                               /\ x[i] <= L - 1 /\ 0 <= x[i]
  <2> SUFFICES ASSUME NEW i \in LineNos(c)
               PROVE  x[i] \in 0..(L - 1) /\ y[i] \in 0..(L - 1)
    BY <1>1
  <2> QED  BY <1>2
<1>6. ASSUME NEW i \in LineNos(c), i # n PROVE y[i] < L - 1 /\ x[i] # x[n]
  <2>1. x[i] # x[n]
    BY <1>3, <1>6
  <2>2. /\ x[i] \in Int /\ x[n] \in Int /\ x[i] <= L - 1 /\ x[n] <= L - 1
        /\ L \in Int
    BY <1>1, <1>0
  <2>3. y[i] = IF x[i] > x[n] THEN x[i] - 1 ELSE x[i]
    BY <1>4, <1>6
  <2> QED  BY <2>1, <2>2, <2>3
<1>7. ASSUME NEW i \in LineNos(c), NEW j \in LineNos(c), i # n, j # n
      PROVE  y[j] > y[i] <=> x[j] > x[i]
  <2>1. x[i] # x[n] /\ x[j] # x[n]
    BY <1>6, <1>7
  <2>2. x[i] \in Int /\ x[n] \in Int /\ x[j] \in Int
    BY <1>0
  <2>3. y[i] = IF x[i] > x[n] THEN x[i] - 1 ELSE x[i]
    BY <1>4, <1>7
  <2>4. y[j] = IF x[j] > x[n] THEN x[j] - 1 ELSE x[j]
    BY <1>4, <1>7
  <2> QED  BY <2>1, <2>2, <2>3, <2>4
<1>8. y[n] = L - 1 /\ L \in Int
  BY <1>1, <1>4
<1>9. \A i, j \in LineNos(c) : y[i] = y[j] => i = j
  <2> SUFFICES ASSUME NEW i \in LineNos(c), NEW j \in LineNos(c), y[i] = y[j], i # j
               PROVE  FALSE
    OBVIOUS
  <2>1. i # n /\ j # n
    <3>1. ASSUME NEW k \in LineNos(c), k # n PROVE y[k] # y[n]
      BY <1>6, <1>8, <1>0, <3>1
    <3> QED  BY <3>1
  <2>2. x[i] # x[j] /\ ~(x[j] > x[i]) /\ ~(x[i] > x[j])
    BY <1>3, <1>7, <1>0, <2>1
  <2>3. x[i] \in Int /\ x[j] \in Int
    BY <1>0
  <2> QED  BY <2>2, <2>3
<1>10. \A j \in LineNos(c) : ~(y[j] > y[n])
  BY <1>1, <1>2, <1>8
<1>11. \A j, m \in LineNos(c) : m # n => (y[j] > y[m] <=> j = n \/ x[j] > x[m])
  <2> SUFFICES ASSUME NEW j \in LineNos(c), NEW m \in LineNos(c), m # n
               PROVE  y[j] > y[m] <=> j = n \/ x[j] > x[m]
    OBVIOUS
  <2>1. CASE j = n
    <3>1. y[m] < L - 1 /\ y[m] \in Int /\ L \in Int
      BY <1>1, <1>2, <1>6
    <3> QED  BY <1>8, <2>1, <3>1
  <2>2. CASE j # n
    BY <1>7, <2>2
  <2> QED  BY <2>1, <2>2
<1> QED  BY <1>5, <1>9, <1>10, <1>11

(* What is remembered when the block "tag" is accessed, before any is forgotten. *)
Now(since, tag) ==
    [t \in DOMAIN since \cup {tag} |-> IF t = tag THEN {} ELSE since[t] \cup {tag}]

IsRemembered(c, since, tag, now, r) ==
    /\ DOMAIN now = DOMAIN since \cup {tag}
    /\ now[tag] = {}
    /\ \A t \in DOMAIN since : t # tag => now[t] = since[t] \cup {tag}
    /\ \A t : t \in DOMAIN r <=>
                t \in DOMAIN now /\ Cardinality(now[t]) < c.lines_per_set
    /\ \A t \in DOMAIN r : r[t] = now[t]

(* What is remembered of a set, in the terms of IsRemembered. *)
LEMMA RememberedIs ==
    ASSUME NEW c, NEW since, NEW tag
    PROVE  IsRemembered(c, since, tag, Now(since, tag), Remembered(c, since, tag))
<1> DEFINE now == Now(since, tag)
           r == Remembered(c, since, tag)
<1>1. /\ DOMAIN now = DOMAIN since \cup {tag}
      /\ now[tag] = {}
      /\ \A t \in DOMAIN since : t # tag => now[t] = since[t] \cup {tag}
  BY DEF Now
<1>2. r = [t \in {t \in DOMAIN now : Cardinality(now[t]) < c.lines_per_set} |-> now[t]]
  BY DEF Remembered, Now
<1> HIDE DEF now, r
<1>3. IsRemembered(c, since, tag, now, r)
  BY <1>1, <1>2 DEF IsRemembered
<1> QED  BY <1>3 DEF now, r

(* The line an access takes is the one of its block, or not valid, or the one *)
(* accessed longest ago.                                                     *)
Chosen(c, set, tag, n) ==
    \/ n \in Valid(set) /\ set[n].tag = tag
    \/ /\ \A i \in Valid(set) : set[i].tag # tag
       /\ \/ n \notin Valid(set)
          \/ /\ Valid(set) = LineNos(c)
             /\ \A i \in LineNos(c) :
                    set[n].last_time_accessed <= set[i].last_time_accessed

(* LineFor is chosen as resolve_cache_access does it. *)
LEMMA ChosenIs ==
    ASSUME NEW c \in Geometry, NEW set \in CacheSet(c), NEW tag,
           NEW n, n = LineFor(set, tag)
    PROVE  n \in LineNos(c) /\ Chosen(c, set, tag, n)
<1>1. DOMAIN set = LineNos(c)
  BY DEF CacheSet
<1>2. n \in LineNos(c)
  BY LineForIs
<1>3. CASE Hits(set, tag) # {}
  <2>1. n \in Hits(set, tag)
    BY <1>3, LineForIs
  <2>2. n \in Valid(set) /\ set[n].tag = tag
    BY <2>1 DEF Hits, Valid
  <2> QED  BY <1>2, <2>2 DEF Chosen
<1>4. CASE Hits(set, tag) = {}
  <2>1. n = choose_victim(set)
    BY <1>4, LineForIs
  <2>2. \A i \in Valid(set) : set[i].tag # tag
    BY <1>4 DEF Hits, Valid
  <2>3. CASE Invalid(set) # {}
    <3>1. n \in Invalid(set)
      BY <2>1, <2>3, VictimIs
    <3>2. n \notin Valid(set)
      BY <3>1 DEF Invalid, Valid
    <3> QED  BY <1>2, <2>2, <3>2 DEF Chosen
  <2>4. CASE Invalid(set) = {}
    <3>1. \A i \in LineNos(c) :
                set[n].last_time_accessed <= set[i].last_time_accessed
      BY <2>1, <2>4, VictimIs
    <3>2. Valid(set) = LineNos(c)
      BY <1>1, <2>4 DEF Valid, Invalid
    <3> QED  BY <1>2, <2>2, <3>1, <3>2 DEF Chosen
  <2> QED  BY <2>3, <2>4
<1> QED  BY <1>2, <1>3, <1>4

(* An access that puts its block into the chosen line, as the latest, keeps *)
(* the history and the lines of the set in step.                            *)
LEMMA RecallsKept ==
    ASSUME NEW c \in Geometry, NEW set \in CacheSet(c), NEW new \in CacheSet(c),
           NEW tag, NEW n \in LineNos(c), Chosen(c, set, tag, n),
           NEW since, Recalls(c, set, since), Renewed(c, set, new, tag, n),
           \A i, j \in LineNos(c) :
                new[i].valid /\ new[j].valid /\ new[i].tag = new[j].tag => i = j,
           NEW r, r = Remembered(c, since, tag)
    PROVE  Recalls(c, new, r)
<1> DEFINE x(i) == set[i].last_time_accessed
           y(i) == new[i].last_time_accessed
           now == Now(since, tag)
           f == [i \in LineNos(c) |-> set[i].tag]
           g == [i \in LineNos(c) |-> new[i].tag]
<1>1. /\ DOMAIN set = LineNos(c) /\ DOMAIN new = LineNos(c)
      /\ \A i \in LineNos(c) : x(i) \in Int /\ y(i) \in Int
  <2>1. LineNos(c) \subseteq Int
    BY DEF LineNos
  <2> QED  BY <2>1 DEF CacheSet, Line
<1>2. /\ \A i, j \in LineNos(c) : y(i) = y(j) => i = j
      /\ \A j, m \in LineNos(c) : m # n => (y(j) > y(m) <=> j = n \/ x(j) > x(m))
      /\ \A j \in LineNos(c) : ~(y(j) > y(n))
  BY OrderKept DEF Recalls
<1>3. Ordered(c, new)
  BY <1>2 DEF Ordered
<1>4. /\ Valid(set) \in SUBSET LineNos(c)
      /\ Valid(new) = Valid(set) \cup {n}
      /\ new[n].tag = tag
      /\ \A m \in LineNos(c) : m # n => new[m].tag = set[m].tag
  BY <1>1 DEF Valid, Renewed
<1>5. \A m \in Valid(new) : m # n => m \in Valid(set) /\ new[m].tag # tag
  <2>1. ASSUME NEW m \in Valid(new), m # n PROVE new[m].tag # tag
    <3>1. new[m].valid /\ new[n].valid /\ m \in LineNos(c)
      BY <1>1, <1>4, <2>1 DEF Valid
    <3> QED  BY <1>4, <2>1, <3>1
  <2> QED  BY <1>4, <2>1
<1>6. /\ \A i, j \in LineNos(c) : x(i) = x(j) => i = j
      /\ \A i, j \in Valid(set) : set[i].tag = set[j].tag => i = j
      /\ DOMAIN since = Tags(set)
      /\ \A m \in Valid(set) : since[set[m].tag] = Later(set, m)
  BY <1>4 DEF Recalls, Ordered, Valid
<1>7. /\ DOMAIN now = DOMAIN since \cup {tag}
      /\ now[tag] = {}
      /\ \A t \in DOMAIN since : t # tag => now[t] = since[t] \cup {tag}
      /\ \A t : t \in DOMAIN r <=>
                t \in DOMAIN now /\ Cardinality(now[t]) < c.lines_per_set
      /\ \A t \in DOMAIN r : r[t] = now[t]
  <2>1. IsRemembered(c, since, tag, now, r)
    BY RememberedIs
  <2> HIDE DEF now
  <2> QED  BY <2>1 DEF IsRemembered
<1> HIDE DEF now
<1>8. /\ \A m, t : t \in Later(set, m) <=>
            \E j \in Valid(set) : x(j) > x(m) /\ t = set[j].tag
      /\ \A m, t : t \in Later(new, m) <=>
            \E j \in Valid(new) : y(j) > y(m) /\ t = new[j].tag
      /\ \A t : t \in Tags(set) <=> \E j \in Valid(set) : t = set[j].tag
      /\ \A t : t \in Tags(new) <=> \E j \in Valid(new) : t = new[j].tag
  BY DEF Later, Tags
<1>9. \/ n \in Valid(set) /\ set[n].tag = tag
      \/ /\ \A i \in Valid(set) : set[i].tag # tag
         /\ \/ n \notin Valid(set)
            \/ Valid(set) = LineNos(c) /\ \A i \in LineNos(c) : x(n) <= x(i)
  BY DEF Chosen
<1> HIDE DEF x, y
<1>10. ASSUME NEW m \in Valid(new), m # n
       PROVE  Later(new, m) = Later(set, m) \cup {tag}
  <2>1. m \in LineNos(c) /\ m \in Valid(set)
    BY <1>4, <1>5, <1>10
  <2>2. ASSUME NEW t, t \in Later(new, m) PROVE t \in Later(set, m) \cup {tag}
    <3>1. PICK j \in Valid(new) : y(j) > y(m) /\ t = new[j].tag
      BY <1>8, <2>2
    <3>2. CASE j = n
      BY <1>4, <3>1, <3>2
    <3>3. CASE j # n
      <4>1. j \in Valid(set) /\ j \in LineNos(c) /\ new[j].tag = set[j].tag
        BY <1>4, <1>5, <3>3
      <4>2. x(j) > x(m)
        BY <1>2, <1>10, <2>1, <3>1, <3>3, <4>1
      <4> QED  BY <1>8, <3>1, <4>1, <4>2
    <3> QED  BY <3>2, <3>3
  <2>3. tag \in Later(new, m)
    <3>1. y(n) > y(m) /\ n \in Valid(new)
      BY <1>2, <1>4, <1>10, <2>1
    <3> QED  BY <1>4, <1>8, <3>1
  <2>4. ASSUME NEW t, t \in Later(set, m) PROVE t \in Later(new, m)
    <3>1. PICK j \in Valid(set) : x(j) > x(m) /\ t = set[j].tag
      BY <1>8, <2>4
    <3>2. j \in LineNos(c) /\ j \in Valid(new) /\ y(j) > y(m)
      BY <1>2, <1>4, <1>10, <2>1, <3>1
    <3>3. CASE j = n
      <4>1. set[n].tag = tag
        <5>1. ~(x(n) <= x(m))
          BY <1>1, <2>1, <3>1, <3>3
        <5> QED  BY <1>9, <2>1, <3>3, <5>1
      <4> QED  BY <2>3, <3>1, <3>3, <4>1
    <3>4. CASE j # n
      BY <1>4, <1>8, <3>1, <3>2, <3>4
    <3> QED  BY <3>3, <3>4
  <2> QED  BY <2>2, <2>3, <2>4
<1>11. Later(new, n) = {}
  BY <1>2, <1>4, <1>8
<1>12. ASSUME NEW m \in Valid(new)
       PROVE  new[m].tag \in DOMAIN now /\ now[new[m].tag] = Later(new, m)
  <2>1. CASE m = n
    BY <1>4, <1>7, <1>11, <2>1
  <2>2. CASE m # n
    <3>1. /\ m \in Valid(set) /\ m \in LineNos(c) /\ new[m].tag # tag
          /\ new[m].tag = set[m].tag
      BY <1>4, <1>5, <2>2
    <3>2. new[m].tag \in DOMAIN since /\ since[new[m].tag] = Later(set, m)
      BY <1>6, <1>8, <3>1
    <3> QED  BY <1>7, <1>10, <2>2, <3>1, <3>2
  <2> QED  BY <2>1, <2>2
<1>13. ASSUME NEW m \in Valid(new)
       PROVE  Cardinality(Later(new, m)) < c.lines_per_set
  <2> DEFINE D == {k \in Valid(new) : y(k) > y(m)}
  <2>1. m \in LineNos(c) /\ Valid(new) \in SUBSET LineNos(c)
    BY <1>4
  <2>2. D \in SUBSET (LineNos(c) \ {m})
    BY <1>1, <2>1
  <2>3. Later(new, m) = {g[j] : j \in D}
    <3>1. \A j \in D : g[j] = new[j].tag
      BY <2>2
    <3>2. \A t : t \in Later(new, m) <=> \E j \in D : t = new[j].tag
      BY <1>8
    <3> HIDE DEF D, g
    <3> QED  BY <3>1, <3>2
  <2> HIDE DEF D, g
  <2> QED  BY <2>1, <2>2, <2>3, FewTags
<1>14. ASSUME NEW t \in DOMAIN since, t \notin Tags(new)
       PROVE  ~(Cardinality(now[t]) < c.lines_per_set)
  <2>1. PICK m \in Valid(set) : t = set[m].tag
    BY <1>6, <1>8
  <2>2. m = n
    BY <1>4, <1>8, <1>14, <2>1
  <2>3. t # tag
    BY <1>4, <1>8, <1>14
  <2>4. /\ \A i \in Valid(set) : set[i].tag # tag
        /\ Valid(set) = LineNos(c) /\ \A i \in LineNos(c) : x(n) <= x(i)
    BY <1>9, <2>1, <2>2, <2>3
  <2>5. \A i, j \in LineNos(c) : f[i] = f[j] => i = j
    BY <1>6, <2>4
  <2>6. \A i \in LineNos(c) : f[i] # tag
    BY <2>4
  <2>7. \A u : u \in Later(set, n) <=> \E j \in LineNos(c) : j # n /\ u = f[j]
    <3>1. \A j \in LineNos(c) : x(j) > x(n) <=> j # n
      BY <1>1, <1>6, <2>4
    <3>2. \A j \in LineNos(c) : f[j] = set[j].tag
      OBVIOUS
    <3>3. \A u : u \in Later(set, n) <=> \E j \in LineNos(c) : j # n /\ u = set[j].tag
      BY <1>8, <2>4, <3>1
    <3> HIDE DEF f
    <3> QED  BY <3>2, <3>3
  <2>8. \A u : u \in now[t] <=> u = tag \/ \E j \in LineNos(c) : j # n /\ u = f[j]
    <3>1. since[t] = Later(set, n)
      BY <1>6, <2>1, <2>2
    <3> HIDE DEF f
    <3>2. now[t] = Later(set, n) \cup {tag}
      BY <1>7, <1>14, <2>3, <3>1
    <3> QED  BY <2>7, <3>2
  <2> HIDE DEF f
  <2>9. AllButOne(c, n, f, tag, now[t])
    BY <2>5, <2>6, <2>8 DEF AllButOne
  <2> QED  BY <2>9, AllTags
<1>15. DOMAIN r = Tags(new)
  <2>1. ASSUME NEW t, t \in DOMAIN r PROVE t \in Tags(new)
    <3>1. t \in DOMAIN now /\ Cardinality(now[t]) < c.lines_per_set
      BY <1>7, <2>1
    <3>2. CASE t = tag
      BY <1>4, <1>8, <3>2
    <3>3. CASE t # tag
      BY <1>7, <1>14, <3>1, <3>3
    <3> QED  BY <3>2, <3>3
  <2>2. ASSUME NEW t, t \in Tags(new) PROVE t \in DOMAIN r
    <3>1. PICK m \in Valid(new) : t = new[m].tag
      BY <1>8, <2>2
    <3>2. t \in DOMAIN now /\ Cardinality(now[t]) < c.lines_per_set
      BY <1>12, <1>13, <3>1
    <3> QED  BY <1>7, <3>2
  <2> QED  BY <2>1, <2>2
<1>16. ASSUME NEW m \in Valid(new) PROVE r[new[m].tag] = Later(new, m)
  <2>1. new[m].tag \in Tags(new)
    BY <1>8
  <2> QED  BY <1>7, <1>12, <1>15, <2>1
<1> QED  BY <1>3, <1>15, <1>16 DEF Recalls

(* The histories of all sets. *)
RecallsAll(c, sets, rec) ==
    /\ DOMAIN rec = SetNos(c)
    /\ \A k \in SetNos(c) : Recalls(c, sets[k], rec[k])

Remembering(c, rec, d) == [rec EXCEPT ![d.set] = Remembered(c, @, d.tag)]

(* An access keeps the histories of all sets in step with the cache. *)
LEMMA AccessRecalls ==
    ASSUME NEW c, NEW A, NEW b, NEW q, NEW s, NEW t,
           Served(c, A, b, q, s), Served(c, A, b, q, t),
           NEW a \in Address, NEW d, d = decompose_address(c, a),
           NEW n, n = LineFor(s.sets[d.set], d.tag), Accessed(c, s, t, d, n),
           NEW rec, RecallsAll(c, s.sets, rec)
    PROVE  RecallsAll(c, t.sets, Remembering(c, rec, d))
<1> DEFINE k == d.set
           set == s.sets[k]
           new == t.sets[k]
           r == Remembered(c, rec[k], d.tag)
<1>1. /\ c \in Geometry /\ s \in CacheStates(c, b) /\ t \in CacheStates(c, b)
      /\ Unique(c, t)
  BY DEF Served, Coherent
<1>2. k \in SetNos(c)
  BY <1>1, Decomposed
<1>3. set \in CacheSet(c) /\ new \in CacheSet(c)
  BY <1>1, <1>2, StateFields
<1>4. Renewed(c, set, new, d.tag, n) /\ \A j \in SetNos(c) : j # k => t.sets[j] = s.sets[j]
  BY DEF Accessed, Renewed
<1>5. \A i, j \in LineNos(c) :
            new[i].valid /\ new[j].valid /\ new[i].tag = new[j].tag => i = j
  BY <1>1, <1>2 DEF Unique
<1>6. DOMAIN rec = SetNos(c) /\ \A j \in SetNos(c) : Recalls(c, s.sets[j], rec[j])
  BY DEF RecallsAll
<1>7. n = LineFor(set, d.tag)
  OBVIOUS
<1>8. Recalls(c, new, r)
  <2>1. Recalls(c, set, rec[k])
    BY <1>2, <1>6
  <2> DEFINE since == rec[k]
             tag == d.tag
  <2>2. Recalls(c, set, since) /\ Renewed(c, set, new, tag, n) /\ n = LineFor(set, tag)
        /\ r = Remembered(c, since, tag)
    BY <1>4, <1>7, <2>1
  <2> HIDE DEF since, tag, set, new, r
  <2>3. n \in LineNos(c) /\ Chosen(c, set, tag, n)
    BY <1>1, <1>3, <2>2, ChosenIs
  <2> QED  BY <1>1, <1>3, <1>5, <2>2, <2>3, RecallsKept
<1> DEFINE w == Remembering(c, rec, d)
<1>9. /\ DOMAIN w = SetNos(c) /\ w[k] = r
      /\ \A j \in SetNos(c) : j # k => w[j] = rec[j]
  BY <1>2, <1>6 DEF Remembering
<1> HIDE DEF w, r
<1>10. ASSUME NEW j \in SetNos(c) PROVE Recalls(c, t.sets[j], w[j])
  <2>1. CASE j = k
    BY <1>8, <1>9, <2>1
  <2>2. CASE j # k
    BY <1>4, <1>6, <1>9, <2>2
  <2> QED  BY <2>1, <2>2
<1>11. RecallsAll(c, t.sets, w)
  BY <1>9, <1>10 DEF RecallsAll
<1> QED  BY <1>11 DEF w

(* An initialised cache has no blocks, and none is remembered. *)
LEMMA EmptyRecalls ==
    ASSUME NEW c \in Geometry, NEW b, TypedBase(b), NEW s, s = cache_base(c, b).start
    PROVE  RecallsAll(c, s.sets, [k \in SetNos(c) |-> [tag \in {} |-> {}]])
<1> DEFINE w == [k \in SetNos(c) |-> [tag \in {} |-> {}]]
<1>1. /\ s \in CacheStates(c, b)
      /\ \A k \in SetNos(c), n \in LineNos(c) :
                /\ ~s.sets[k][n].valid
                /\ s.sets[k][n].last_time_accessed = n
  BY StartTyped
<1>2. ASSUME NEW k \in SetNos(c) PROVE Recalls(c, s.sets[k], w[k])
  <2> DEFINE set == s.sets[k]
  <2>1. DOMAIN set = LineNos(c)
    BY <1>1, StateFields DEF CacheSet
  <2>2. Valid(set) = {}
    BY <1>1, <2>1 DEF Valid
  <2>3. Tags(set) = {}
    BY <2>2 DEF Tags
  <2>4. Ordered(c, set)
    BY <1>1 DEF Ordered
  <2>5. DOMAIN w[k] = {}
    OBVIOUS
  <2> HIDE DEF set, w
  <2>6. Recalls(c, set, w[k])
    BY <2>2, <2>3, <2>4, <2>5 DEF Recalls
  <2> QED  BY <2>6 DEF set
<1>3. DOMAIN w = SetNos(c)
  OBVIOUS
<1> HIDE DEF w
<1>4. RecallsAll(c, s.sets, w)
  BY <1>2, <1>3 DEF RecallsAll
<1> QED  BY <1>4 DEF w

(* The history remembers what the first cache holds. *)
HistoryInv ==
    /\ Levels = {} => DOMAIN recent = {}
    /\ Levels # {} => RecallsAll(caches[1], sys.sets, recent)

(* The first level of a machine with caches. *)
LEMMA FirstCache ==
    ASSUME NEW m \in Configs, DOMAIN m.caches # {},
           NEW c, c = m.caches[1], NEW b, b = make_cached_memory(m)[2],
           NEW q, q = Role(m)[2]
    PROVE  /\ c \in Geometry /\ TypedBase(b) /\ make_cached_memory(m)[1] = cache_base(c, b)
           /\ \A s \in Role(m)[1].sound : Served(c, Cells(m), b, q, s) /\ Balanced(c, s)
<1>1. 1 \in 1..Len(m.caches) /\ 1 + 1 = 2 /\ 2 \in 1..Memory(m)
  BY MachineFields
<1>2. c \in Geometry
  BY <1>1, MachineFields
<1>3. TypedBase(b)
  BY <1>1, LevelsServe DEF ServesAt
<1>4. make_cached_memory(m)[1] = cache_base(c, b)
  <2>1. make_cached_memory(m)[1] = cache_base(m.caches[1], make_cached_memory(m)[1 + 1])
    BY <1>1, ChainIs
  <2> QED  BY <1>1, <2>1
<1>5. ASSUME NEW s \in Role(m)[1].sound
      PROVE  Served(c, Cells(m), b, q, s) /\ Balanced(c, s)
  <2>1. ServedAt(m, 1, s)
    BY <1>1, LevelServed
  <2>2. /\ Served(m.caches[1], Cells(m), make_cached_memory(m)[1 + 1], Role(m)[1 + 1], s)
        /\ Balanced(m.caches[1], s)
    BY <2>1 DEF ServedAt
  <2> QED  BY <1>1, <2>2
<1> QED  BY <1>2, <1>3, <1>4, <1>5

(* The history is in step at the start. *)
LEMMA HistoryStarts ==
    ASSUME Init
    PROVE  HistoryInv
<1>1. /\ config \in Configs /\ sys = make_cached_memory(config)[1].start
      /\ recent = [set_no \in IF Levels = {} THEN {} ELSE SetNos(caches[1]) |->
                    [tag \in {} |-> {}]]
  BY DEF Init, Base
<1>2. ASSUME Levels # {} PROVE RecallsAll(caches[1], sys.sets, recent)
  <2> DEFINE c == config.caches[1]
             b == make_cached_memory(config)[2]
  <2>1. recent = [k \in SetNos(c) |-> [tag \in {} |-> {}]]
    BY <1>1, <1>2 DEF caches
  <2>2. /\ c \in Geometry /\ TypedBase(b)
        /\ make_cached_memory(config)[1] = cache_base(c, b)
    BY <1>1, <1>2, FirstCache DEF Levels, caches
  <2>3. sys = cache_base(c, b).start
    BY <1>1, <2>2
  <2> HIDE DEF c, b
  <2>4. RecallsAll(c, sys.sets, [k \in SetNos(c) |-> [tag \in {} |-> {}]])
    BY <2>2, <2>3, EmptyRecalls
  <2> QED  BY <2>1, <2>4 DEF c, caches
<1> QED  BY <1>1, <1>2 DEF HistoryInv

(* A step that leaves the sets and the history leaves them in step. *)
LEMMA HistoryKept ==
    ASSUME HistoryInv, config' = config, recent' = recent,
           Levels # {} => sys'.sets = sys.sets
    PROVE  HistoryInv'
BY DEF HistoryInv, Levels, caches

(* A read or a write that went well. *)
LEMMA HistoryGrows ==
    ASSUME CacheInv, HistoryInv, Levels # {}, NEW a \in Address, config' = config,
           Remember(a), NEW b, b = make_cached_memory(config)[2],
           NEW q, q = Role(config)[2], NEW d, d = decompose_address(caches[1], a),
           NEW n, n = LineFor(Uncounted.sets[d.set], d.tag),
           Served(caches[1], Cells(config), b, q, sys'),
           Accessed(caches[1], Uncounted, sys', d, n)
    PROVE  HistoryInv'
<1> DEFINE c == caches[1]
           u == Uncounted
<1>1. /\ config \in Configs /\ u \in Role(config)[1].sound
      /\ u.sets = sys.sets
  <2>1. /\ config \in Configs /\ u \in Role(config)[1].sound
        /\ Len(config.caches) # 0 => u.sets = sys.sets
    BY UncountedIs
  <2>2. Len(config.caches) # 0
    BY <2>1, MachineFields DEF Levels, caches
  <2> QED  BY <2>1, <2>2
<1>2. Served(c, Cells(config), b, q, u)
  BY <1>1, FirstCache DEF Levels, caches
<1>3. RecallsAll(c, u.sets, recent)
  BY <1>1 DEF HistoryInv
<1>4. recent' = Remembering(c, recent, d)
  BY DEF Remember, Remembering
<1> HIDE DEF c, u
<1>5. RecallsAll(c, sys'.sets, recent')
  <2>1. /\ d = decompose_address(c, a) /\ n = LineFor(u.sets[d.set], d.tag)
        /\ Served(c, Cells(config), b, q, sys') /\ Accessed(c, u, sys', d, n)
    BY DEF c, u
  <2> DEFINE t == sys'
             r == recent
  <2>2. Served(c, Cells(config), b, q, t) /\ Accessed(c, u, t, d, n)
        /\ RecallsAll(c, u.sets, r)
    BY <1>3, <2>1
  <2> HIDE DEF t, r
  <2>3. RecallsAll(c, t.sets, Remembering(c, r, d))
    BY <1>2, <2>1, <2>2, AccessRecalls
  <2> QED  BY <1>4, <2>3 DEF t, r
<1>6. caches' = caches /\ Levels' = Levels
  BY DEF Levels, caches
<1> QED  BY <1>5, <1>6 DEF HistoryInv, c

(* A read keeps the history in step. *)
LEMMA ReadHistory ==
    ASSUME CacheInv, HistoryInv, NEW a \in Cells(config), Read(a)
    PROVE  HistoryInv'
<1> DEFINE r == Base(1).read_byte[Uncounted][a]
<1>1. \/ ~r.ok /\ Aborts
      \/ r.ok /\ Completes(r) /\ Remember(a)
  BY DEF Read
<1>2. CASE ~r.ok /\ Aborts
  BY <1>2, HistoryKept DEF Aborts
<1>3. CASE r.ok /\ Completes(r) /\ Remember(a)
  <2>1. config' = config /\ sys' = r.s
    BY <1>3 DEF Completes
  <2>2. CASE Levels = {}
    BY <1>3, <2>1, <2>2, HistoryKept DEF Remember
  <2>3. CASE Levels # {}
    <3> DEFINE c == caches[1]
               b == make_cached_memory(config)[2]
               q == Role(config)[2]
               u == Uncounted
               d == decompose_address(c, a)
               n == LineFor(u.sets[d.set], d.tag)
    <3>1. config \in Configs /\ u \in Role(config)[1].sound
      BY UncountedIs
    <3>2. /\ make_cached_memory(config)[1] = cache_base(c, b)
          /\ Served(c, Cells(config), b, q, u) /\ Balanced(c, u)
      BY <2>3, <3>1, FirstCache DEF Levels, caches
    <3>3. a \in Address /\ u \in CacheStates(c, b)
      BY <3>1, <3>2, MachineFields DEF Cells, Address, Served
    <3>4. r = cache_read_byte(c, b, u, a)
      <4>1. r = cache_base(c, b).read_byte[u][a]
        BY <3>2 DEF Base
      <4> HIDE DEF r, c, b, u
      <4> QED  BY <3>3, <4>1 DEF cache_base
    <3>5. d = decompose_address(c, a) /\ n = LineFor(u.sets[d.set], d.tag)
      OBVIOUS
    <3> DEFINE p == r.s
    <3> HIDE DEF n
    <3> HIDE DEF d
    <3> HIDE DEF r, c, b, q, u
    <3>6. ReadsOnce(c, Cells(config), b, q, u, a, r) /\ Accessed(c, u, r.s, d, n)
      BY <1>3, <3>2, <3>3, <3>4, <3>5, ReadIs
    <3>7. Served(c, Cells(config), b, q, sys') /\ Accessed(c, u, sys', d, n)
      BY <1>3, <2>1, <3>6 DEF ReadsOnce
    <3>8. /\ b = make_cached_memory(config)[2] /\ q = Role(config)[2]
          /\ d = decompose_address(caches[1], a)
          /\ n = LineFor(Uncounted.sets[d.set], d.tag)
          /\ Served(caches[1], Cells(config), b, q, sys')
          /\ Accessed(caches[1], Uncounted, sys', d, n)
      BY <3>5, <3>7 DEF b, q, c, u
    <3> QED  BY <1>3, <2>1, <2>3, <3>3, <3>8, HistoryGrows
  <2> QED  BY <2>2, <2>3
<1> QED  BY <1>1, <1>2, <1>3

(* A write keeps the history in step. *)
LEMMA WriteHistory ==
    ASSUME CacheInv, HistoryInv, NEW a \in Cells(config), NEW v \in Byte, Write(a, v)
    PROVE  HistoryInv'
<1> DEFINE r == Base(1).write_byte[Uncounted][a][v]
<1>1. \/ ~r.ok /\ Aborts
      \/ r.ok /\ Completes(r) /\ Remember(a)
  BY DEF Write
<1>2. CASE ~r.ok /\ Aborts
  BY <1>2, HistoryKept DEF Aborts
<1>3. CASE r.ok /\ Completes(r) /\ Remember(a)
  <2>1. config' = config /\ sys' = r.s
    BY <1>3 DEF Completes
  <2>2. CASE Levels = {}
    BY <1>3, <2>1, <2>2, HistoryKept DEF Remember
  <2>3. CASE Levels # {}
    <3> DEFINE c == caches[1]
               b == make_cached_memory(config)[2]
               q == Role(config)[2]
               u == Uncounted
               d == decompose_address(c, a)
               n == LineFor(u.sets[d.set], d.tag)
    <3>1. config \in Configs /\ u \in Role(config)[1].sound
      BY UncountedIs
    <3>2. /\ make_cached_memory(config)[1] = cache_base(c, b)
          /\ Served(c, Cells(config), b, q, u) /\ Balanced(c, u)
      BY <2>3, <3>1, FirstCache DEF Levels, caches
    <3>3. a \in Address /\ u \in CacheStates(c, b)
      BY <3>1, <3>2, MachineFields DEF Cells, Address, Served
    <3>4. r = cache_write_byte(c, b, u, a, v)
      <4>1. r = cache_base(c, b).write_byte[u][a][v]
        BY <3>2 DEF Base
      <4> HIDE DEF r, c, b, u
      <4> QED  BY <3>3, <4>1 DEF cache_base
    <3>5. d = decompose_address(c, a) /\ n = LineFor(u.sets[d.set], d.tag)
      OBVIOUS
    <3> HIDE DEF n
    <3> HIDE DEF d
    <3> HIDE DEF r, c, b, q, u
    <3>6. WritesOnce(c, Cells(config), b, q, u, a, v, r) /\ Accessed(c, u, r.s, d, n)
      BY <1>3, <3>2, <3>3, <3>4, <3>5, WriteIs
    <3>7. Served(c, Cells(config), b, q, sys') /\ Accessed(c, u, sys', d, n)
      BY <1>3, <2>1, <3>6 DEF WritesOnce
    <3>8. /\ b = make_cached_memory(config)[2] /\ q = Role(config)[2]
          /\ d = decompose_address(caches[1], a)
          /\ n = LineFor(Uncounted.sets[d.set], d.tag)
          /\ Served(caches[1], Cells(config), b, q, sys')
          /\ Accessed(caches[1], Uncounted, sys', d, n)
      BY <3>5, <3>7 DEF b, q, c, u
    <3> QED  BY <1>3, <2>1, <2>3, <3>3, <3>8, HistoryGrows
  <2> QED  BY <2>2, <2>3
<1> QED  BY <1>1, <1>2, <1>3

(* Every step keeps the history in step. *)
LEMMA HistoryNext ==
    ASSUME CacheInv, HistoryInv, [Next]_vars
    PROVE  HistoryInv'
<1>1. CASE UNCHANGED vars
  BY <1>1, HistoryKept DEF vars
<1>2. ASSUME NEW a \in 0..(config.mem_size - 1), Read(a) PROVE HistoryInv'
  BY <1>2, ReadHistory DEF Cells
<1>3. ASSUME NEW a \in 0..(config.mem_size - 1), NEW b \in Byte, Write(a, b)
      PROVE  HistoryInv'
  BY <1>3, WriteHistory DEF Cells
<1>4. ASSUME NEW i \in Levels, Flush(i) PROVE HistoryInv'
  <2>1. sys'.sets = sys.sets
    BY <1>4, FlushKeeps
  <2> QED  BY <1>4, <2>1, HistoryKept DEF Flush
<1>5. CASE ResetStats
  <2>1. sys' = Uncounted /\ config' = config /\ recent' = recent
    BY <1>5 DEF ResetStats, Uncounted
  <2>2. config \in Configs /\ (Len(config.caches) # 0 => Uncounted.sets = sys.sets)
    BY UncountedIs
  <2>3. Levels # {} => Len(config.caches) # 0
    BY <2>2, MachineFields DEF Levels, caches
  <2> QED  BY <2>1, <2>2, <2>3, HistoryKept
<1> QED  BY <1>1, <1>2, <1>3, <1>4, <1>5 DEF Next

(* Each set of the first cache holds exactly the blocks accessed last, as   *)
(* many as it has lines: the order that last_time_accessed keeps and        *)
(* choose_victim uses is that of the accesses, and only a full set gives up *)
(* a block.                                                                 *)
THEOREM AlwaysKeepsRecent == CacheSpec => []KeepsRecentBlocks
<1>1. Init => CacheInv /\ HistoryInv
  BY StartKeeps, HistoryStarts
<1>2. CacheInv /\ HistoryInv /\ [Next]_vars => CacheInv' /\ HistoryInv'
  BY NextKeeps, HistoryNext
<1>3. HistoryInv => KeepsRecentBlocks
  <2> SUFFICES ASSUME HistoryInv, NEW k \in DOMAIN recent,
                      NEW set, set = sys.sets[k]
               PROVE  {set[n].tag : n \in DOMAIN set \ Invalid(set)} = DOMAIN recent[k]
    BY DEF KeepsRecentBlocks
  <2>1. RecallsAll(caches[1], sys.sets, recent)
    BY DEF HistoryInv
  <2>2. DOMAIN recent[k] = Tags(set)
    BY <2>1 DEF RecallsAll, Recalls
  <2>3. DOMAIN set \ Invalid(set) = Valid(set)
    BY DEF Valid, Invalid
  <2> QED  BY <2>2, <2>3 DEF Tags
<1> QED  BY <1>1, <1>2, <1>3, PTL DEF CacheSpec
================================================================================
