-------------------------------- MODULE ClockHistory --------------------------------
(****************************************************************************)
(* The pager with a history of what the timer ticks of CLRU saw, to state   *)
(* what the reordering in CS24/cs24hw8/vmpolicy_clru.c is for.              *)
(****************************************************************************)
EXTENDS VirtualMem

(* The pages that had not been accessed when the last tick walked the list  *)
(* and that have stayed resident since.                                     *)
VARIABLE idle
clockVars == <<vmVars, idle>>

ClockInit == VMInit /\ idle = {}

ClockNext ==
    \/ Tick /\ idle' = IF Walks(loaded) THEN resident \ accessed ELSE idle
    \/ (Issue \/ Perform \/ Fault \/ vmem_cleanup) /\ idle' = idle \cap resident'

ClockSpec == ClockInit /\ [][ClockNext]_clockVars

(* CLRU evicts the pages that the last tick found idle before any page the  *)
(* tick found accessed and before any page mapped since.                    *)
EvictsIdleFirst ==
    [][\A p \in resident \ resident' : idle # {} => p \in idle]_clockVars

(* Every page is treated alike. *)
PageSymmetry == Permutations(Page)
=============================================================================
