------------------------------- MODULE MyAlloc -------------------------------
(****************************************************************************)
(* The first-fit allocator of CS24/cs24hw3/myalloc/myalloc.c, driven by the *)
(* sequences of allocations and frees that testalloc.c generates and plays  *)
(* back.  The pool is an array of bytes.  A block starts with a header and  *)
(* ends with a footer, integers that hold its size, negative while the      *)
(* block is allocated; the client's data lie between.  Nothing is aligned:  *)
(* a byte says which byte of which integer it is, so that a store over a    *)
(* part of a header is seen.                                                *)
(****************************************************************************)
EXTENDS Integers, FiniteSetsExt

CONSTANTS
    MemorySizes,        \* the sizes that the search for a small pool tries
    MaxUsed,            \* max_used_memory, what the client has in use at most
    MaxAllocated        \* allocation_factor times that: the end of a sequence

VARIABLES
    MEMORY_SIZE,        \* the size of the pool
    mem,                \* its bytes
    live,               \* the client's blocks: [id -> [at, size]], at the payload
    used_memory,        \* what generate_sequence counts as in use
    total_allocated,    \* and as allocated since its start
    wanted,             \* next_block_size
    failed              \* myalloc returned 0, which ends the sequence

allocVars ==
    <<MEMORY_SIZE, mem, live, used_memory, total_allocated, wanted, failed>>

\* sizeof(header).
HeaderSize == 4

\* A pool has room for a header and a footer.
ASSUME AllocAssumption ==
    /\ \A n \in MemorySizes : n \in Nat /\ n >= 2 * HeaderSize
    /\ MaxUsed \in Nat \ {0} /\ MaxAllocated \in Nat

NoBlock == -1

\* As many names as the client can have blocks, and the block sizes it draws.
Id == 1..MaxUsed
BlockSizes == 1..Max({1, MaxUsed \div 4})

----------------------------------------------------------------------------
\* myalloc

\* Byte byte of an integer size; a byte of no header has the number HeaderSize.
Byte == [size : Int, byte : 0..HeaderSize]
Data(id) == [size |-> id, byte |-> HeaderSize]

\* The integer n lies at p, all its bytes.  (h->size is mem[h].size, where
\* BlocksTilePool says that it does.)
HeaderAt(m, p, n) ==
    \A k \in 0..(HeaderSize - 1) : m[p + k] = [size |-> n, byte |-> k]

\* Store the integer n at p.
Put(m, p, n) ==
    [a \in DOMAIN m |-> IF a \in p..(p + HeaderSize - 1)
                        THEN [size |-> n, byte |-> a - p] ELSE m[a]]

Magnitude(n) == IF n < 0 THEN -n ELSE n

\* Where the headers are, from the start of the pool on: the first is at 0, and
\* each block is followed by another or by the end of the pool.
Headers ==
    LET header[p \in 0..MEMORY_SIZE] ==
            p = 0 \/ \E q \in 0..(p - 1) : q + Magnitude(mem[q].size) = p /\ header[q]
    IN  {p \in 0..MEMORY_SIZE : header[p]}

\* The first free block with room for size cells.  The loop passes the headers
\* in their order and gives up at the first one too near to the end of the pool.
\* Past the last block it reads one header beyond the pool, but whatever that
\* holds, h is then too near.
FirstFit(size) ==
    LET fits == {h \in Headers : h + size < MEMORY_SIZE /\ mem[h].size >= size + 8}
    IN  IF fits = {} THEN NoBlock ELSE Min(fits)

\* Halve block h until another halving would make it too small.
Split(given, h, size) ==
    LET split[m \in [0..(MEMORY_SIZE - 1) -> Byte]] ==
            LET half == m[h].size \div 2
                rest == half + (m[h].size % 2)
                footer == h + half - HeaderSize
            IN  IF m[h].size <= 2 * size + 16 THEN m
                ELSE split[Put(Put(Put(Put(m, h, half), h + half, rest),
                                   footer, half), footer + rest, rest)]
    IN  split[given]

TakenMistaken(m, h) == Put(m, h, -m[h].size)

\* Negate the header and the footer of block h.
Taken(m, h) ==
    Put(Put(m, h, -m[h].size), h + m[h].size - HeaderSize, -m[h].size)

\* fill_data: the client's data in a block are its name.
fill_data(m, b, id) == [a \in DOMAIN m |-> IF a \in b.at..(b.at + b.size - 1)
                                           THEN Data(id) ELSE m[a]]

----------------------------------------------------------------------------
\* myfree

Sized(m, h, size) == Put(Put(m, h, size), h + size - HeaderSize, size)

myfreeMistaken(oldptr) ==
    LET h == oldptr - HeaderSize
        current == -mem[h].size
        next == h + current
        joinsNext == next <= MEMORY_SIZE - 1 /\ mem[next].size > 0
        joinsPrev == h # 0 /\ mem[h - HeaderSize].size > 0
    IN  Sized(mem,
              IF joinsPrev THEN h - mem[h - HeaderSize].size ELSE h,
              current + (IF joinsNext THEN mem[next].size ELSE 0))

\* The block and its free neighbours become one free block.
myfree(oldptr) ==
    LET h == oldptr - HeaderSize
        current == -mem[h].size
        next == h + current
        joinsNext == next <= MEMORY_SIZE - 1 /\ mem[next].size > 0
        joinsPrev == h # 0 /\ mem[h - HeaderSize].size > 0
    IN  Sized(mem,
              IF joinsPrev THEN h - mem[h - HeaderSize].size ELSE h,
              current + (IF joinsNext THEN mem[next].size ELSE 0)
                      + (IF joinsPrev THEN mem[h - HeaderSize].size ELSE 0))

----------------------------------------------------------------------------
\* The client: generate_sequence frees blocks until the next one fits in
\* MaxUsed, until it has asked for MaxAllocated; try_sequence allocates and
\* fills it.

\* The whole pool is one free block.  The place of its footer is counted in
\* headers, so it is some bytes early if MEMORY_SIZE is no multiple of theirs.
init_myalloc ==
    Put(Put([a \in 0..(MEMORY_SIZE - 1) |-> Data(0)], 0, MEMORY_SIZE),
        HeaderSize * (MEMORY_SIZE \div HeaderSize - 1), MEMORY_SIZE)

AllocInit ==
    /\ MEMORY_SIZE \in MemorySizes
    /\ mem = init_myalloc
    /\ live = << >>
    /\ used_memory = 0 /\ total_allocated = 0
    /\ wanted \in BlockSizes
    /\ failed = FALSE

Free(id) ==
    /\ ~failed /\ total_allocated < MaxAllocated
    /\ used_memory + wanted > MaxUsed
    /\ mem' = myfree(live[id].at)
    /\ live' = [i \in DOMAIN live \ {id} |-> live[i]]
    /\ used_memory' = used_memory - live[id].size
    /\ UNCHANGED <<MEMORY_SIZE, total_allocated, wanted, failed>>

Allocate ==
    /\ ~failed /\ total_allocated < MaxAllocated
    /\ used_memory + wanted <= MaxUsed
    /\ LET h == FirstFit(wanted)
           id == Min(Id \ DOMAIN live)
           block == [at |-> h + HeaderSize, size |-> wanted]
       IN  IF h = NoBlock
           THEN /\ failed' = TRUE
                /\ UNCHANGED <<mem, live, used_memory, total_allocated, wanted>>
           ELSE /\ mem' = fill_data(Taken(Split(mem, h, wanted), h), block, id)
                /\ live' = [i \in DOMAIN live \cup {id} |->
                              IF i = id THEN block ELSE live[i]]
                /\ used_memory' = used_memory + wanted
                /\ total_allocated' = total_allocated + wanted
                /\ wanted' \in BlockSizes
                /\ UNCHANGED failed
    /\ UNCHANGED MEMORY_SIZE

AllocNext == Allocate \/ \E id \in DOMAIN live : Free(id)

AllocSpec == AllocInit /\ [][AllocNext]_allocVars

----------------------------------------------------------------------------
\* Properties.

\* The blocks tile the pool: the walk of myalloc over the headers ends exactly
\* at its end, every header is whole, every footer mirrors its header, and the
\* allocated blocks are those of the client, each with room for what was asked.
\* Splitting by halves, of odd sizes too, and coalescing in both directions keep
\* it so.  The one footer out of place is the first of all, in a pool that is no
\* multiple of a header; it is replaced before anything reads it.
BlocksTilePool ==
    LET starts == Headers \ {MEMORY_SIZE}
    IN  /\ MEMORY_SIZE \in Headers
        /\ \A h \in starts : HeaderAt(mem, h, mem[h].size)
        /\ \/ MEMORY_SIZE % HeaderSize # 0 /\ mem = init_myalloc
           \/ \A h \in starts :
                 HeaderAt(mem, h + Magnitude(mem[h].size) - HeaderSize, mem[h].size)
        /\ {h \in starts : mem[h].size < 0} =
              {live[id].at - HeaderSize : id \in DOMAIN live}
        /\ \A id \in DOMAIN live :
              live[id].size + 8 <= -mem[live[id].at - HeaderSize].size

\* What check_data of testalloc.c looks for at the end of a run holds all the
\* time: a block in use keeps the data its client put there.
DataIntact ==
    \A id \in DOMAIN live :
        \A a \in live[id].at..(live[id].at + live[id].size - 1) : mem[a] = Data(id)

\* myalloc gives up only when no free block has room: the test that ends the
\* search early, h + size against the end of the pool, skips no block.
FailsOnlyWhenFull ==
    failed => \A h \in Headers \ {MEMORY_SIZE} : mem[h].size < wanted + 8

\* myalloc.c: the blocks tile the pool whatever was allocated and freed, the
\* client finds in its blocks what it put there, and a request fails only when
\* no free block has room for it.
AllocatorKeepsBlocks == BlocksTilePool /\ DataIntact /\ FailsOnlyWhenFull

\* myalloc.c implements the abstract pool: the blocks it hands out are disjoint
\* and inside it (myalloc and myfree).
ThePool == INSTANCE Pool WITH size <- MEMORY_SIZE
AllocatorImplementsPool == ThePool!PoolSpec
=============================================================================
