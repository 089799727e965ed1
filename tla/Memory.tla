-------------------------------- MODULE Memory --------------------------------
(****************************************************************************)
(* What the virtual memory system of CS24/cs24hw8 promises the program that *)
(* runs on it: plain memory.  A read returns the value last written to the  *)
(* page, however the pages move between physical memory and the swap file.  *)
(****************************************************************************)
CONSTANTS Page, Value, Zero,
          NoAccess      \* the program has no access in progress

VARIABLES mem,      \* the contents of each page
          access,   \* the access in progress
          got       \* the value the last read returned

memoryVars == <<mem, access, got>>

Access ==
    [kind : {"read"}, page : Page, val : {Zero}]
        \cup [kind : {"write"}, page : Page, val : Value]

MemoryInit ==
    /\ mem = [p \in Page |-> Zero]
    /\ access = NoAccess
    /\ got = Zero

Issue ==
    /\ access = NoAccess
    /\ access' \in Access
    /\ UNCHANGED <<mem, got>>

Read ==
    /\ access # NoAccess /\ access.kind = "read"
    /\ got' = mem[access.page]
    /\ access' = NoAccess
    /\ UNCHANGED mem

Write ==
    /\ access # NoAccess /\ access.kind = "write"
    /\ mem' = [mem EXCEPT ![access.page] = access.val]
    /\ access' = NoAccess
    /\ UNCHANGED got

MemoryNext == Issue \/ Read \/ Write

MemorySpec == MemoryInit /\ [][MemoryNext]_memoryVars
=============================================================================
