----------------------------- MODULE PlainMemory -----------------------------
(****************************************************************************)
(* What a chain of simulated caches (CS24/cs24hw5/cachesim) promises the    *)
(* program above it: one array of bytes.  However blocks travel between the *)
(* levels, a read returns the byte last written to its address.             *)
(****************************************************************************)
CONSTANT Byte

VARIABLES bytes,    \* the array
          got       \* the byte the last read returned

plainVars == <<bytes, got>>

PlainInit ==
    /\ \A a \in DOMAIN bytes : bytes[a] = 0
    /\ got = 0

Read(a) ==
    /\ got' = bytes[a]
    /\ UNCHANGED bytes

Write(a, b) ==
    /\ bytes' = [bytes EXCEPT ![a] = b]
    /\ UNCHANGED got

PlainNext ==
    \E a \in DOMAIN bytes : Read(a) \/ \E b \in Byte : Write(a, b)

PlainSpec == PlainInit /\ [][PlainNext]_plainVars
=============================================================================
