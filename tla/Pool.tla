-------------------------------- MODULE Pool --------------------------------
(****************************************************************************)
(* What a memory allocator of CS24 promises its client: every block it      *)
(* hands out lies in the pool and shares no cell with a block in use, and   *)
(* only the client gives a block back.                                      *)
(****************************************************************************)
EXTENDS Integers

CONSTANT Id             \* the client's names for its blocks

VARIABLES size,         \* the size of the pool
          live          \* the blocks in use: [id -> [at, size]]

poolVars == <<size, live>>

Cells(b) == b.at .. (b.at + b.size - 1)

PoolInit ==
    /\ size \in Nat
    /\ DOMAIN live = {}

Malloc(id) ==
    /\ id \notin DOMAIN live
    /\ DOMAIN live' = DOMAIN live \cup {id}
    /\ \A i \in DOMAIN live : /\ live'[i] = live[i]
                              /\ Cells(live[i]) \cap Cells(live'[id]) = {}
    /\ Cells(live'[id]) \subseteq 0 .. (size - 1)
    /\ UNCHANGED size

Free(id) ==
    /\ id \in DOMAIN live
    /\ live' = [i \in DOMAIN live \ {id} |-> live[i]]
    /\ UNCHANGED size

PoolNext == \E id \in Id : Malloc(id) \/ Free(id)

PoolSpec == PoolInit /\ [][PoolNext]_poolVars
=============================================================================
