------------------------------ MODULE CacheSim ------------------------------
(****************************************************************************)
(* The cache simulator of CS24/cs24hw5/cachesim: a chain of write-back      *)
(* caches in front of a memory (cache.c, membase.c, memory.c), built from   *)
(* the command line by cmdline.c.  The program above the chain reads and    *)
(* writes bytes; each access works its way down through the levels, and a   *)
(* cache may be flushed or the statistics reset between two accesses.       *)
(*                                                                          *)
(* The state of a cache holds the state of its next memory.  A C function   *)
(* is an operator on the cache's geometry c, the functions "next" of its    *)
(* next memory (a membase_t) and its state s; the result has the state that *)
(* it leaves and whether no assert failed on the way.                       *)
(****************************************************************************)
EXTENDS Integers, Sequences, FiniteSetsExt

CONSTANTS
    Configs,        \* the machines: a memory size and a sequence of caches
    Byte            \* the bytes a program writes

PowersOfTwo == {n \in Nat \ {0} : \E k \in 0..31 : n = 2^k}

Geometry == [block_size : PowersOfTwo, num_sets : PowersOfTwo,
             lines_per_set : Nat \ {0}]

\* The arguments that make_cached_memory accepts.
ASSUME CacheAssumption ==
    /\ \A m \in Configs : m.mem_size \in Nat \ {0} /\ m.caches \in Seq(Geometry)
    /\ 0 \in Byte

VARIABLES
    config,     \* the chain: config.caches[1] is the one the program uses
    sys,        \* the state of the first level, and so of all
    aborted,    \* an assert has failed
    got,        \* the byte the program read last
    recent      \* history: per set of the first cache, the tags accessed last,
                \* as many as it has lines, each with the tags accessed since

vars == <<config, sys, aborted, got, recent>>

----------------------------------------------------------------------------
\* Addresses.  block_size and num_sets are powers of two, so that the masks
\* and shifts are remainders and quotients.

Address == Nat
Offsets(c) == 0..(c.block_size - 1)
SetNos(c) == 0..(c.num_sets - 1)
LineNos(c) == 0..(c.lines_per_set - 1)

decompose_address(c, a) ==
    [tag    |-> (a \div c.block_size) \div c.num_sets,
     set    |-> (a \div c.block_size) % c.num_sets,
     offset |-> a % c.block_size]

get_block_start_from_address(c, a) == a - (a % c.block_size)

get_block_start_from_line_infoMistaken(c, tag, set) ==
    (tag + set * c.num_sets) * c.block_size

get_block_start_from_line_info(c, tag, set) ==
    (tag * c.num_sets + set) * c.block_size

----------------------------------------------------------------------------
\* The states.  Of the times of access only the order in a set matters, so
\* they are the places in that order.  A line that was never accessed is not
\* valid, and nothing compares its time.

Counters == [reads : Nat, writes : Nat, hits : Nat, misses : Nat]

Line(c) == [valid : BOOLEAN, dirty : BOOLEAN, tag : Nat,
            block : [Offsets(c) -> Byte], last_time_accessed : LineNos(c)]

CacheStates(c, next) ==
    [sets : [SetNos(c) -> [LineNos(c) -> Line(c)]], stats : Counters,
     next : next.states]

MemoryStates(m) == [mem : [0..(m.mem_size - 1) -> Byte], stats : Counters]

\* What a function returns when an assert fails, or when none does.
Failed(s) == [ok |-> FALSE, s |-> s]
Done(s) == [ok |-> TRUE, s |-> s]

Counted(s, what) == [s EXCEPT !.stats[what] = @ + 1]

NoStats == [reads |-> 0, writes |-> 0, hits |-> 0, misses |-> 0]

----------------------------------------------------------------------------
\* A set and its lines.

Hits(set, tag) == {n \in DOMAIN set : set[n].valid /\ set[n].tag = tag}

Invalid(set) == {n \in DOMAIN set : ~set[n].valid}

\* The line accessed last, not the one accessed longest ago.
choose_victimMistaken(set) ==
    IF Invalid(set) # {} THEN Min(Invalid(set))
    ELSE CHOOSE n \in DOMAIN set : \A k \in DOMAIN set :
            set[k].last_time_accessed <= set[n].last_time_accessed

\* An invalid line if there is one, else the line accessed longest ago.
choose_victim(set) ==
    IF Invalid(set) # {} THEN Min(Invalid(set))
    ELSE CHOOSE n \in DOMAIN set : \A k \in DOMAIN set :
            set[n].last_time_accessed <= set[k].last_time_accessed

\* The line that an access with this tag uses.
LineFor(set, tag) ==
    IF Hits(set, tag) # {} THEN Min(Hits(set, tag)) ELSE choose_victim(set)

\* last_time_accessed = clock_tick(): line n becomes the latest of the order.
Touched(c, set, n) ==
    LET moved(t) == IF t > set[n].last_time_accessed THEN t - 1 ELSE t
    IN  [k \in DOMAIN set |->
            [set[k] EXCEPT !.last_time_accessed =
                IF k = n THEN c.lines_per_set - 1 ELSE moved(@)]]

----------------------------------------------------------------------------
\* One access of a cache.

write_back_cache_line(c, next, s, set_no, n) ==
    LET line == s.sets[set_no][n]
        start == get_block_start_from_line_info(c, line.tag, set_no)
        write[x \in [offset : 0..c.block_size, ok : BOOLEAN, s : next.states]] ==
            LET r == next.write_byte[x.s][start + x.offset][line.block[x.offset]]
            IN  IF x.offset = c.block_size \/ ~x.ok THEN x
                ELSE write[[offset |-> x.offset + 1, ok |-> r.ok, s |-> r.s]]
        last == write[[offset |-> 0, ok |-> TRUE, s |-> s.next]]
    IN  [ok |-> last.ok, s |-> [s EXCEPT !.next = last.s]]

Emptied(s, set_no, n) ==
    [s EXCEPT !.sets[set_no][n] =
        [@ EXCEPT !.valid = FALSE, !.dirty = FALSE, !.tag = 0]]

evict_cache_lineMistaken(c, next, s, set_no, n) == Done(Emptied(s, set_no, n))

evict_cache_line(c, next, s, set_no, n) ==
    LET line == s.sets[set_no][n]
        saved == IF line.valid /\ line.dirty
                 THEN write_back_cache_line(c, next, s, set_no, n)
                 ELSE Done(s)
    IN  [ok |-> saved.ok, s |-> Emptied(saved.s, set_no, n)]

load_cache_line(c, next, s, set_no, n, a, tag) ==
    LET start == get_block_start_from_address(c, a)
        read[x \in [offset : 0..c.block_size, ok : BOOLEAN, s : next.states,
                    block : [Offsets(c) -> Byte]]] ==
            LET r == next.read_byte[x.s][start + x.offset]
            IN  IF x.offset = c.block_size \/ ~x.ok THEN x
                ELSE read[[offset |-> x.offset + 1, ok |-> r.ok, s |-> r.s,
                           block |-> [x.block EXCEPT ![x.offset] = r.byte]]]
        last == read[[offset |-> 0, ok |-> TRUE, s |-> s.next,
                      block |-> s.sets[set_no][n].block]]
    IN  [ok |-> last.ok,
         s  |-> [s EXCEPT !.next = last.s,
                          !.sets[set_no][n] = [@ EXCEPT !.valid = TRUE,
                              !.dirty = FALSE, !.tag = tag, !.block = last.block]]]

\* A line of the set for the block of address a, LineFor, made to hold it.
resolve_cache_access(c, next, s, a) ==
    LET d == decompose_address(c, a)
        set == s.sets[d.set]
        victim == choose_victim(set)
        emptied == evict_cache_line(c, next, Counted(s, "misses"), d.set, victim)
    IN  IF Hits(set, d.tag) # {} THEN Done(Counted(s, "hits"))
        ELSE IF ~emptied.ok THEN Failed(s)
        ELSE load_cache_line(c, next, emptied.s, d.set, victim, a, d.tag)

cache_read_byte(c, next, s, a) ==
    LET d == decompose_address(c, a)
        n == LineFor(s.sets[d.set], d.tag)
        r == resolve_cache_access(c, next, s, a)
    IN  IF ~r.ok THEN [ok |-> FALSE, s |-> s, byte |-> 0]
        ELSE [ok   |-> TRUE,
              s    |-> [Counted(r.s, "reads") EXCEPT
                           !.sets[d.set] = Touched(c, @, n)],
              byte |-> r.s.sets[d.set][n].block[d.offset]]

cache_write_byte(c, next, s, a, b) ==
    LET d == decompose_address(c, a)
        n == LineFor(s.sets[d.set], d.tag)
        r == resolve_cache_access(c, next, s, a)
        written == [Touched(c, r.s.sets[d.set], n) EXCEPT
                        ![n].block[d.offset] = b, ![n].dirty = TRUE]
    IN  IF ~r.ok THEN Failed(s)
        ELSE Done([Counted(r.s, "writes") EXCEPT !.sets[d.set] = written])

\* The call is not passed on.
cache_reset_statsMistaken(next, s) == [s EXCEPT !.stats = NoStats]

cache_reset_stats(next, s) ==
    [s EXCEPT !.stats = NoStats, !.next = next.reset_stats[@]]

\* Writes every dirty line to the next level.  It leaves the line dirty.
flush_cache(c, next, s) ==
    LET flush[x \in [set_no : 0..c.num_sets, line_no : 0..c.lines_per_set,
                     ok : BOOLEAN, s : CacheStates(c, next)]] ==
            LET line == x.s.sets[x.set_no][x.line_no]
                r == IF line.valid /\ line.dirty
                     THEN write_back_cache_line(c, next, x.s, x.set_no, x.line_no)
                     ELSE Done(x.s)
            IN  IF x.set_no = c.num_sets \/ ~x.ok THEN x
                ELSE IF x.line_no = c.lines_per_set
                THEN flush[[x EXCEPT !.set_no = @ + 1, !.line_no = 0]]
                ELSE flush[[x EXCEPT !.line_no = @ + 1, !.ok = r.ok, !.s = r.s]]
    IN  flush[[set_no |-> 0, line_no |-> 0, ok |-> TRUE, s |-> s]]

----------------------------------------------------------------------------
\* The memory.

memory_read_byte(s, a) ==
    IF a \in DOMAIN s.mem
    THEN [ok |-> TRUE, s |-> Counted(s, "reads"), byte |-> s.mem[a]]
    ELSE [ok |-> FALSE, s |-> s, byte |-> 0]

memory_write_byte(s, a, b) ==
    IF a \in DOMAIN s.mem
    THEN Done([Counted(s, "writes") EXCEPT !.mem[a] = b])
    ELSE Failed(s)

memory_reset_stats(s) == [s EXCEPT !.stats = NoStats]

----------------------------------------------------------------------------
\* The levels: caches[1] and so on, and the memory below them.  A level's
\* record is its membase_t, the functions it offers to the level above (what
\* init_cache and init_memory store there), with the states they work on.

Memory(m) == Len(m.caches) + 1      \* the level number of the memory

memory_base(m) ==
    [states      |-> MemoryStates(m),
     start       |-> [mem |-> [a \in 0..(m.mem_size - 1) |-> 0], stats |-> NoStats],
     read_byte   |-> [s \in MemoryStates(m) |-> [a \in Address |->
                        memory_read_byte(s, a)]],
     write_byte  |-> [s \in MemoryStates(m) |-> [a \in Address |-> [b \in Byte |->
                        memory_write_byte(s, a, b)]]],
     reset_stats |-> [s \in MemoryStates(m) |-> memory_reset_stats(s)]]

EmptySet(c) ==
    [n \in LineNos(c) |->
        [valid |-> FALSE, dirty |-> FALSE, tag |-> 0,
         block |-> [o \in Offsets(c) |-> 0], last_time_accessed |-> n]]

cache_base(c, next) ==
    [states      |-> CacheStates(c, next),
     start       |-> [sets |-> [set_no \in SetNos(c) |-> EmptySet(c)],
                      stats |-> NoStats, next |-> next.start],
     read_byte   |-> [s \in CacheStates(c, next) |-> [a \in Address |->
                        cache_read_byte(c, next, s, a)]],
     write_byte  |-> [s \in CacheStates(c, next) |-> [a \in Address |->
                        [b \in Byte |-> cache_write_byte(c, next, s, a, b)]]],
     reset_stats |-> [s \in CacheStates(c, next) |-> cache_reset_stats(next, s)]]

make_cached_memory(m) ==
    LET base[i \in 1..Memory(m)] ==
            IF i = Memory(m) THEN memory_base(m)
            ELSE cache_base(m.caches[i], base[i + 1])
    IN  base

\* The state of level i within the state s of level 1, and s with another.
Level(s, i) ==
    LET level[k \in 1..i] == IF k = 1 THEN s ELSE level[k - 1].next
    IN  level[i]

WithLevel(s, i, t) ==
    LET with[k \in 1..i] ==
            IF k = i THEN t ELSE [Level(s, k) EXCEPT !.next = with[k + 1]]
    IN  with[1]

----------------------------------------------------------------------------
\* The program above the chain.

caches == config.caches
Levels == DOMAIN caches
Base(i) == make_cached_memory(config)[i]

Init ==
    /\ config \in Configs
    /\ sys = Base(1).start
    /\ aborted = FALSE
    /\ got = 0
    /\ recent = [set_no \in IF Levels = {} THEN {} ELSE SetNos(caches[1]) |->
                    [tag \in {} |-> {}]]

\* The state as the next operation finds it, nothing counted for it yet: the
\* counters only grow between two resets, and the statistics are stated of what
\* one operation adds to them.
Uncounted == Base(1).reset_stats[sys]

\* What is remembered of a set when its block "tag" is accessed: of the others
\* those that fewer blocks than the set has lines were accessed after.
Remembered(c, since, tag) ==
    LET now == [t \in DOMAIN since \cup {tag} |->
                    IF t = tag THEN {} ELSE since[t] \cup {tag}]
    IN  [t \in {t \in DOMAIN now : Cardinality(now[t]) < c.lines_per_set} |->
            now[t]]

Remember(a) ==
    IF Levels = {} THEN UNCHANGED recent
    ELSE LET d == decompose_address(caches[1], a)
         IN  recent' = [recent EXCEPT ![d.set] = Remembered(caches[1], @, d.tag)]

Aborts ==
    /\ aborted' = TRUE
    /\ UNCHANGED <<config, sys, got, recent>>

Completes(r) ==
    /\ sys' = r.s
    /\ UNCHANGED <<config, aborted>>

\* Below, r is what the call returns; bound by \E, it is computed once a step.

Read(a) ==
    /\ ~aborted
    /\ \E r \in {Base(1).read_byte[Uncounted][a]} :
          \/ ~r.ok /\ Aborts
          \/ r.ok /\ Completes(r) /\ got' = r.byte /\ Remember(a)

Write(a, b) ==
    /\ ~aborted
    /\ \E r \in {Base(1).write_byte[Uncounted][a][b]} :
          \/ ~r.ok /\ Aborts
          \/ r.ok /\ Completes(r) /\ Remember(a) /\ UNCHANGED got

Flush(i) ==
    /\ ~aborted
    /\ \E before \in {Uncounted} :
       \E r \in {flush_cache(caches[i], Base(i + 1), Level(before, i))} :
          /\ sys' = WithLevel(before, i, r.s)
          /\ aborted' = ~r.ok
    /\ UNCHANGED <<config, got, recent>>

ResetStats ==
    /\ ~aborted
    /\ sys' = Base(1).reset_stats[sys]
    /\ UNCHANGED <<config, aborted, got, recent>>

Next ==
    \/ \E a \in 0..(config.mem_size - 1) : Read(a) \/ \E b \in Byte : Write(a, b)
    \/ \E i \in Levels : Flush(i)
    \/ ResetStats

CacheSpec == Init /\ [][Next]_vars

----------------------------------------------------------------------------
\* Properties.

\* A cache's bytes as a reader sees them, given those of its next memory.
SeenThrough(c, s, below) ==
    [a \in DOMAIN below |->
        LET d == decompose_address(c, a)
            hits == Hits(s.sets[d.set], d.tag)
        IN  IF hits # {} THEN s.sets[d.set][Min(hits)].block[d.offset]
            ELSE below[a]]

\* For each level, the bytes that a reader of it sees in each of its states.
Seen(m) ==
    LET base == make_cached_memory(m)
        seen[i \in 1..Memory(m)] ==
            IF i = Memory(m) THEN [s \in base[i].states |-> s.mem]
            ELSE [s \in base[i].states |->
                    SeenThrough(m.caches[i], s, seen[i + 1][s.next])]
    IN  seen

View(i) == Seen(config)[i][Level(sys, i)]

Plain == INSTANCE PlainMemory WITH bytes <- View(1)

\* The chain is a memory: whatever the geometry of its caches, through misses,
\* evictions that write back through further caches, and flushes, a read
\* returns the byte last written to its address, and only the program changes
\* what the program sees (read_byte and write_byte of cache.c).
ImplementsPlainMemory == Plain!PlainSpec

\* After flush_cache every address reads the same at the next level as at the
\* flushed one, and no level above sees a change: what the comment on
\* flush_cache says, for a cache anywhere in the chain.  Nor does a flush end
\* in an assert, for it writes blocks that were loaded.
FlushReachesNextLevel ==
    [][\A i \in Levels : Flush(i) =>
            /\ ~aborted'
            /\ View(i)' = View(i + 1)'
            /\ \A j \in 1..i : View(j)' = View(j)]_vars

\* The first cache holds, in every set, exactly the blocks of that set that
\* were accessed most recently, as many as it has lines: the least recently
\* used policy that choose_victim is there to provide.
KeepsRecentBlocks ==
    \A set_no \in DOMAIN recent :
        LET set == sys.sets[set_no]
        IN  {set[n].tag : n \in DOMAIN set \ Invalid(set)} = DOMAIN recent[set_no]

\* The statistics agree from level to level, also after a reset: each access
\* of a cache is a hit or a miss, and each miss reads one block from the next
\* level (resolve_cache_access, load_cache_line, cache_reset_stats).  Both
\* are sums over operations, so they hold of the totals when every operation
\* adds to them as it should.
StatisticsAgree ==
    \A i \in Levels :
        LET here == Level(sys, i).stats
        IN  /\ here.reads + here.writes = here.hits + here.misses
            /\ Level(sys, i + 1).stats.reads = caches[i].block_size * here.misses
=============================================================================
