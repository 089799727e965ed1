------------------------------ MODULE VirtualMem ------------------------------
(****************************************************************************)
(* The user-space virtual memory system of CS24/cs24hw8/virtualmem.c.  The  *)
(* program's accesses to a page fault until the page is mapped and its      *)
(* permissions allow the access; the SIGSEGV handler maps and evicts pages  *)
(* and keeps the accessed and dirty bits through the permissions, and the   *)
(* SIGALRM handler lets the replacement policy take permissions back.       *)
(*                                                                          *)
(* Definitions whose name ends in Mistaken are not the code: each is the    *)
(* definition after it with one plausible mistake.                          *)
(*                                                                          *)
(* The SIGSEGV handler masks SIGALRM, and the SIGALRM handler touches no    *)
(* page, so each is one step.  A page's contents are one value.             *)
(****************************************************************************)
EXTENDS PagePolicy

CONSTANTS Value, Zero,
          NoAccess,     \* the program has no access in progress
          ShortWrites,  \* whether a write to the swap file may be cut short
          MaxTicks      \* bound: timer ticks during one access

Access ==
    [kind : {"read"}, page : Page, val : {Zero}]
        \cup [kind : {"write"}, page : Page, val : Value]

ASSUME VirtualMemAssumption ==
    /\ Zero \in Value
    /\ NoAccess \notin Access
    /\ ShortWrites \in BOOLEAN
    /\ MaxTicks \in Nat

VARIABLES
    resident, accessed, dirty,  \* the pages whose page table bit is set
    perm,           \* the permission in the page table entry
    hw,             \* what the kernel has mapped: mmap, mprotect, munmap
    frame,          \* contents of mapped pages, Zero elsewhere
    swap,           \* contents of the swap file
    num_resident,
    loaded,         \* the policy's list
    access,         \* the program's access, retried until it succeeds
    got,            \* the value the last read returned
    faults, ticks,  \* SIGSEGVs and SIGALRMs since the access was issued
    status

tableVars == <<resident, accessed, dirty, perm, hw>>
storeVars == <<frame, swap>>
programVars == <<access, got>>
vmVars == <<policyVars, tableVars, storeVars, num_resident, loaded, programVars, faults,
            ticks, status>>

Perm == {"NONE", "READ", "RDWR"}

vmem_init ==
    /\ policy_init
    /\ resident = {} /\ accessed = {} /\ dirty = {}
    /\ perm = [p \in Page |-> "CLEAR"]
    /\ hw = [p \in Page |-> "UNMAPPED"]
    /\ frame = [p \in Page |-> Zero]
    /\ swap = [p \in Page |-> Zero]
    /\ num_resident = 0
    /\ loaded = <<>>
    /\ status = "running"

VMInit ==
    /\ vmem_init
    /\ access = NoAccess
    /\ got = Zero
    /\ faults = 0 /\ ticks = 0

(* The pager still works, possibly without its policy. *)
Live == status \in {"running", "cleaned"}

-----------------------------------------------------------------------------
(* The program. *)

Busy == access # NoAccess

Issue ==
    /\ Live /\ ~Busy
    /\ access' \in Access
    /\ UNCHANGED <<policyVars, tableVars, storeVars, num_resident, loaded, got,
                   faults, ticks, status>>

Allowed == IF access.kind = "read" THEN {"READ", "RDWR"} ELSE {"RDWR"}

Perform ==
    /\ Live /\ Busy
    /\ hw[access.page] \in Allowed
    /\ IF access.kind = "read"
         THEN got' = frame[access.page] /\ UNCHANGED frame
         ELSE frame' = [frame EXCEPT ![access.page] = access.val] /\ UNCHANGED got
    /\ access' = NoAccess
    /\ faults' = 0 /\ ticks' = 0
    /\ UNCHANGED <<policyVars, tableVars, swap, num_resident, loaded, status>>

-----------------------------------------------------------------------------
(* The SIGSEGV handler. *)

Faulting(si_code) ==
    /\ Live /\ Busy
    /\ hw[access.page] \notin Allowed
    /\ si_code = IF hw[access.page] = "UNMAPPED" THEN "MAPERR" ELSE "ACCERR"
    /\ faults' = faults + 1
    /\ UNCHANGED <<policyVars, programVars, ticks>>

(* An eviction one page too late. *)
RoomMistaken ==
    IF num_resident > max_resident
      THEN {[out |-> {e.victim}, rest |-> e.rest] : e \in Evictions(loaded)}
      ELSE {[out |-> {}, rest |-> loaded]}

(* Making room: nothing to evict below the limit, or one of the victims the *)
(* policy may choose.                                                       *)
Room ==
    IF num_resident = max_resident
      THEN {[out |-> {e.victim}, rest |-> e.rest] : e \in Evictions(loaded)}
      ELSE {[out |-> {}, rest |-> loaded]}

(* Nothing written back. *)
SavedMistaken(out) == {{}}

(* The pages of out that unmap_page saves: the dirty ones, unless the write *)
(* is cut short, which it does not notice.                                  *)
Saved(out) ==
    IF ShortWrites THEN {out \cap dirty, {}} ELSE {out \cap dirty}

(* The assertions of the handler, unmap_page, map_page and the policy.      *)
AssertionsHold(out, rest) ==
    /\ num_resident <= max_resident
    /\ out \subseteq resident
    /\ access.page \notin resident \ out
    /\ HasRoom(rest)

(* unmap_page counts down, map_page up. *)
Count(out) == IF out = {} THEN num_resident + 1 ELSE num_resident

(* unmap_page on the pages of out, then map_page. *)
Remap(page, out, saved) ==
    /\ resident' = (resident \ out) \cup {page}
    /\ accessed' = accessed \ out
    /\ dirty' = dirty \ out
    /\ perm' = [p \in Page |-> IF p = page THEN "NONE"
                               ELSE IF p \in out THEN "CLEAR" ELSE perm[p]]
    /\ hw' = [p \in Page |-> IF p = page THEN "NONE"
                             ELSE IF p \in out THEN "UNMAPPED" ELSE hw[p]]
    /\ swap' = [p \in Page |-> IF p \in saved THEN frame[p] ELSE swap[p]]
    /\ frame' = [p \in Page |-> IF p = page THEN swap'[p]
                                ELSE IF p \in out THEN Zero ELSE frame[p]]
    /\ num_resident' = Count(out)

MapFault ==
    /\ Faulting("MAPERR")
    /\ status = "running"
    /\ num_resident = max_resident => EvictionDefined(loaded)
    /\ \E room \in Room :
         IF AssertionsHold(room.out, room.rest)
           THEN /\ \E saved \in Saved(room.out) :
                      Remap(access.page, room.out, saved)
                /\ loaded' = policy_page_mapped(room.rest, access.page)
                /\ status' = status
           ELSE /\ status' = "aborted"
                /\ UNCHANGED <<tableVars, storeVars, num_resident, loaded>>

(* Evicting when the list has no second node dereferences what is not a     *)
(* node; after vmem_cleanup there is no list at all.                        *)
MapFaultUndefined ==
    /\ Faulting("MAPERR")
    /\ IF status = "running"
         THEN num_resident = max_resident /\ ~EvictionDefined(loaded)
         ELSE TRUE
    /\ status' = IF status = "running" THEN "undefined" ELSE "after_cleanup"
    /\ UNCHANGED <<tableVars, storeVars, num_resident, loaded>>

(* The permission changed in the table only. *)
SetPermissionMistaken(page, p) ==
    /\ perm' = [perm EXCEPT ![page] = p]
    /\ UNCHANGED hw
SetPermission(page, p) ==
    /\ perm' = [perm EXCEPT ![page] = p]
    /\ hw' = [hw EXCEPT ![page] = p]

(* The accessed bit set and the permission not granted. *)
AccessFaultMistaken ==
    /\ Faulting("ACCERR")
    /\ perm[access.page] = "NONE"
    /\ accessed' = accessed \cup {access.page}
    /\ UNCHANGED <<resident, dirty, perm, hw, storeVars, num_resident, loaded, status>>

(* The first access since the permissions were taken.                       *)
AccessFault ==
    /\ Faulting("ACCERR")
    /\ perm[access.page] = "NONE"
    /\ SetPermission(access.page, "READ")
    /\ accessed' = accessed \cup {access.page}
    /\ UNCHANGED <<resident, dirty, storeVars, num_resident, loaded, status>>

(* The dirty bit not set. *)
WriteFaultMistaken ==
    /\ Faulting("ACCERR")
    /\ perm[access.page] = "READ"
    /\ SetPermission(access.page, "RDWR")
    /\ UNCHANGED <<resident, accessed, dirty, storeVars, num_resident, loaded, status>>

(* The first write.  With RDWR already in the table the handler would just  *)
(* return; TableMirrorsKernel says there is no such fault.                  *)
WriteFault ==
    /\ Faulting("ACCERR")
    /\ perm[access.page] = "READ"
    /\ SetPermission(access.page, "RDWR")
    /\ dirty' = dirty \cup {access.page}
    /\ UNCHANGED <<resident, accessed, storeVars, num_resident, loaded, status>>

-----------------------------------------------------------------------------
(* The SIGALRM handler; without a list to walk CLRU's dereferences NULL.    *)

Tick ==
    /\ Live
    /\ Busy => ticks < MaxTicks
    /\ ticks' = IF Busy THEN ticks + 1 ELSE ticks
    /\ IF status = "cleaned" /\ policy = "CLRU"
         THEN /\ status' = "after_cleanup"
              /\ UNCHANGED <<accessed, perm, hw, loaded>>
         ELSE LET touched == Touched(loaded, accessed)
              IN  /\ accessed' = accessed \ touched
                  /\ perm' = [p \in Page |-> IF p \in touched THEN "NONE" ELSE perm[p]]
                  /\ hw' = [p \in Page |-> IF p \in touched THEN "NONE" ELSE hw[p]]
                  /\ loaded' = policy_timer_tick(loaded, accessed)
                  /\ status' = status
    /\ UNCHANGED <<policyVars, resident, dirty, storeVars, num_resident, programVars,
                   faults>>

(* vmem_cleanup frees the policy's list and leaves the timer running.  The  *)
(* last node of FIFO's list has a next pointer that was never written: the  *)
(* walk stops there if malloc happened to return zeroed memory.             *)
vmem_cleanup ==
    /\ status = "running" /\ ~Busy
    /\ status' \in IF policy = "FIFO" /\ loaded # <<>>
                      THEN {"cleaned", "after_cleanup"} ELSE {"cleaned"}
    /\ loaded' = <<>>
    /\ UNCHANGED <<policyVars, tableVars, storeVars, num_resident, programVars,
                   faults, ticks>>

-----------------------------------------------------------------------------

Fault == MapFault \/ MapFaultUndefined \/ AccessFault \/ WriteFault

VMNext == Issue \/ Perform \/ Fault \/ Tick \/ vmem_cleanup

(* The program retries its access and the kernel delivers the fault.        *)
VMSpec == VMInit /\ [][VMNext]_vmVars /\ WF_vmVars(Perform \/ Fault)

-----------------------------------------------------------------------------
(* Properties. *)

(* The page table mirrors the kernel's mappings, and the bits it keeps      *)
(* through the permissions are truthful: what the program may read is       *)
(* marked accessed, what it may write is marked dirty.                      *)
TableMirrorsKernel ==
    /\ \A p \in resident : hw[p] = perm[p]
    /\ \A p \in Page \ resident : hw[p] = "UNMAPPED" /\ perm[p] = "CLEAR"
    /\ \A p \in Page : hw[p] = "RDWR" => p \in dirty
    /\ \A p \in Page : p \in accessed <=> hw[p] \in {"READ", "RDWR"}
    /\ dirty \subseteq resident

(* A resident page that is not dirty equals its copy in the swap file: what *)
(* unmap_page throws away is never the only copy.                           *)
CleanPagesAreSaved == \A p \in resident \ dirty : frame[p] = swap[p]

(* The policy's list holds each resident page once and nothing else, so the *)
(* victim it picks is resident and physical memory is never exceeded.       *)
PolicyTracksResident ==
    status = "running" =>
        /\ Range(loaded) = resident
        /\ IsInjective(loaded)
        /\ Len(loaded) = num_resident
        /\ num_resident <= max_resident

(* No assertion or resource check of the handler ever fails.                *)
NoAbort == status # "aborted"

(* virtualmem.c:590: a fault inside the pool is answered so that the        *)
(* faulting operation can be retried; the handler does not itself fault.    *)
FaultIsAnswered == status # "undefined"

(* virtualmem.c:524: unmap_page makes sure to write the contents of dirty   *)
(* pages back into the swap file.                                           *)
DirtyPagesReachSwap ==
    [][\A p \in dirty \ resident' : swap'[p] = frame[p]]_vmVars

(* vmpolicy_fifo.c:68: policy_cleanup cleans up the data of the policy: it  *)
(* returns to the program.                                                  *)
CleanupReturns == [][vmem_cleanup => status' = "cleaned"]_vmVars

(* The faults one access still needs: one per permission level missing.     *)
Level == [UNMAPPED |-> 0, NONE |-> 1, READ |-> 2, RDWR |-> 3]
Goal == IF access.kind = "read" THEN 2 ELSE 3
FaultsToGo == IF Level[hw[access.page]] >= Goal THEN 0
                                               ELSE Goal - Level[hw[access.page]]

(* An access never faults in a loop: it takes at most one fault for each    *)
(* permission level, and each tick in the meantime costs it at most the     *)
(* levels above NONE again.                                                 *)
FaultsBounded ==
    Busy /\ Live => faults + FaultsToGo <= Goal + (Goal - 1) * ticks

(* Every access completes: the handler's answers converge.                  *)
AccessCompletes == Busy ~> (~Busy \/ ~Live)

(* The pages together are plain memory; Mem is the memory the program sees. *)
Contents == [p \in Page |-> IF p \in resident THEN frame[p] ELSE swap[p]]
Mem == INSTANCE Memory WITH mem <- Contents
ImplementsMemory == Mem!MemorySpec
=============================================================================
