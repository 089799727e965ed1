---------------------------- MODULE MCSemaphore ----------------------------
(* Instances of Semaphore: a semaphore that starts available and one that   *)
(* starts at zero.                                                          *)
EXTENDS Semaphore
CONSTANTS mutex, items
MCInitialValue == (mutex :> 1) @@ (items :> 0)
ThreadSymmetry == Permutations(Thread)
=============================================================================
