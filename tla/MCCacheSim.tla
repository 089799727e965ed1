----------------------------- MODULE MCCacheSim -----------------------------
(* Small chains of caches: one and two levels, with blocks and sets of one  *)
(* and two, and one memory that ends inside a block.                        *)
EXTENDS CacheSim

Cache(b, s, e) == [block_size |-> b, num_sets |-> s, lines_per_set |-> e]
Machine(size, chain) == [mem_size |-> size, caches |-> chain]

MCConfigs ==
    {Machine(4, <<Cache(2, 1, 1), Cache(1, 2, 1)>>),
     Machine(4, <<Cache(1, 1, 1), Cache(2, 1, 1)>>),
     Machine(3, <<Cache(1, 1, 2)>>),
     Machine(4, <<Cache(1, 2, 1)>>),
     Machine(3, <<Cache(2, 1, 1)>>)}
=============================================================================
