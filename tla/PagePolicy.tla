------------------------------ MODULE PagePolicy ------------------------------
(****************************************************************************)
(* The page replacement policies of CS24/cs24hw8 (vmpolicy_fifo.c,          *)
(* vmpolicy_clru.c, vmpolicy_random.c), one of which is linked into each    *)
(* program.  A policy keeps the loaded pages in a list (an array for        *)
(* RANDOM), here a sequence; these operators say what its functions do to   *)
(* that sequence.                                                           *)
(****************************************************************************)
EXTENDS Integers, SequencesExt

CONSTANTS Page,
          Policies,     \* the policies a program may be linked with
          Limits        \* the arguments vmem_init may be called with

ASSUME PolicyAssumption ==
    /\ Policies \subseteq {"FIFO", "CLRU", "RANDOM"}
    /\ Limits \subseteq Nat \ {0}

VARIABLES policy, max_resident      \* chosen once

policyVars == <<policy, max_resident>>

policy_init == policy \in Policies /\ max_resident \in Limits

(* policy_page_mapped asserts that the list has room for one more.          *)
HasRoom(list) == Len(list) < max_resident

policy_page_mapped(list, page) == Append(list, page)

(* An entry dropped without filling its place. *)
FillPlaceMistaken(list, k) == [j \in 1 .. Len(list) - 1 |-> list[j]]

(* RANDOM fills the victim's place with the last entry. *)
FillPlace(list, k) ==
    [j \in 1 .. Len(list) - 1 |-> IF j = k THEN list[Len(list)] ELSE list[j]]

(* choose_and_evict_victim_page: the possible victims, each with the list   *)
(* that remains.                                                            *)
Evictions(list) ==
    IF policy = "RANDOM"
      THEN {[victim |-> list[k], rest |-> FillPlace(list, k)] : k \in DOMAIN list}
      ELSE {[victim |-> Head(list), rest |-> Tail(list)]}

(* FIFO and CLRU clear the back pointer of the head's successor without     *)
(* asking whether there is one.                                             *)
EvictionDefined(list) == IF policy = "RANDOM" THEN list # <<>> ELSE Len(list) > 1

(* CLRU's tick walks the list when more than two pages are loaded; the      *)
(* other policies' ticks do nothing.                                        *)
Walks(list) == policy = "CLRU" /\ Len(list) > 2

(* The pages a tick takes the permissions from: the accessed ones.          *)
Touched(list, accessed) == IF Walks(list) THEN Range(list) \cap accessed ELSE {}

(* Accessed pages left where they are. *)
tickStaysMistaken(list, accessed) == list

(* The place the walk leaves the entry k at.  It starts at the tail and     *)
(* moves each accessed page behind the tail, so those end up behind the     *)
(* others and in reverse order, and the others close the gaps.              *)
PlaceAfterTick(list, accessed, k) ==
    LET passed == Cardinality({j \in 1 .. k : list[j] \in accessed})
    IN  IF list[k] \in accessed THEN Len(list) + 1 - passed ELSE k - passed

policy_timer_tick(list, accessed) ==
    IF Walks(list)
      THEN [i \in DOMAIN list |->
              list[CHOOSE k \in DOMAIN list : PlaceAfterTick(list, accessed, k) = i]]
      ELSE list
=============================================================================
