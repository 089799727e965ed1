----------------------------- MODULE PolicyProofs ----------------------------
(****************************************************************************)
(* Theorems about the virtual memory and the list of a replacement policy,  *)
(* for every set of pages and values, every limit on resident pages and     *)
(* every policy: the permissions tell what the program did to a page, the   *)
(* list holds the resident pages, so a victim can always be unmapped, and   *)
(* CLRU's order is what its walk is for.                                    *)
(****************************************************************************)
EXTENDS VirtualMem, ClockHistory, SequenceTheorems, FunctionTheorems,
        FiniteSetTheorems, TLAPS

(* What the pager knows of each page; the policy's list plays no part,      *)
(* because the handler's assertions stop the program before a wrong victim  *)
(* is unmapped.                                                             *)
PagerTypeOK ==
    /\ resident \subseteq Page /\ accessed \subseteq Page /\ dirty \subseteq Page
    /\ perm \in [Page -> Perm \cup {"CLEAR"}]
    /\ hw \in [Page -> Perm \cup {"UNMAPPED"}]
    /\ frame \in [Page -> Value] /\ swap \in [Page -> Value]
    /\ num_resident \in Nat
    /\ access \in Access \cup {NoAccess}
    /\ got \in Value
    /\ faults \in Nat /\ ticks \in Nat
    /\ status \in {"running", "cleaned", "aborted", "undefined", "after_cleanup"}

(* An access under way is to a page, of a value, and a read or a write. *)
LEMMA AccessType ==
    ASSUME PagerTypeOK, Busy
    PROVE  /\ access \in Access
           /\ access.page \in Page
           /\ access.val \in Value
           /\ access.kind \in {"read", "write"}
BY VirtualMemAssumption DEF PagerTypeOK, Busy, Access

(* vmem_init sets up a typed pager. *)
LEMMA InitPagerType == VMInit => PagerTypeOK
BY VirtualMemAssumption DEF VMInit, vmem_init, PagerTypeOK, Perm

(* Every step of the program, the handlers and the timer keeps the types. *)
LEMMA NextPagerType == PagerTypeOK /\ [VMNext]_vmVars => PagerTypeOK'
<1> SUFFICES ASSUME PagerTypeOK, [VMNext]_vmVars PROVE PagerTypeOK'
  OBVIOUS
<1> USE VirtualMemAssumption
<1>1. CASE Issue
  BY <1>1 DEF Issue, PagerTypeOK, tableVars, storeVars
<1>2. CASE Perform
  <2>1. access.page \in Page /\ access.val \in Value
    BY <1>2, AccessType DEF Perform
  <2>2. QED
    BY <1>2, <2>1 DEF Perform, PagerTypeOK, tableVars, storeVars
<1>3. CASE MapFault
  <2> USE <1>3
  <2>1. access.page \in Page
    BY AccessType DEF MapFault, Faulting
  <2>2. PICK room \in Room :
          IF AssertionsHold(room.out, room.rest)
            THEN /\ \E saved \in Saved(room.out) :
                       Remap(access.page, room.out, saved)
                 /\ loaded' = policy_page_mapped(room.rest, access.page)
                 /\ status' = status
            ELSE /\ status' = "aborted"
                 /\ UNCHANGED <<tableVars, storeVars, num_resident, loaded>>
    BY DEF MapFault
  <2>3. UNCHANGED <<access, got, ticks>> /\ faults' = faults + 1
    BY DEF MapFault, Faulting, programVars
  <2>4. CASE AssertionsHold(room.out, room.rest)
    <3>1. PICK saved \in Saved(room.out) : Remap(access.page, room.out, saved)
      BY <2>2, <2>4
    <3>2. QED
      BY <2>1, <2>2, <2>3, <2>4, <3>1 DEF Remap, Count, PagerTypeOK, Perm
  <2>5. CASE ~AssertionsHold(room.out, room.rest)
    BY <2>2, <2>3, <2>5 DEF PagerTypeOK, tableVars, storeVars
  <2>6. QED
    BY <2>4, <2>5
<1>4. CASE MapFaultUndefined
  BY <1>4 DEF MapFaultUndefined, Faulting, PagerTypeOK, tableVars, storeVars, programVars
<1>5. CASE AccessFault
  <2>1. access.page \in Page
    BY <1>5, AccessType DEF AccessFault, Faulting
  <2>2. QED
    BY <1>5, <2>1 DEF AccessFault, Faulting, SetPermission, PagerTypeOK, Perm,
                      storeVars, programVars
<1>6. CASE WriteFault
  <2>1. access.page \in Page
    BY <1>6, AccessType DEF WriteFault, Faulting
  <2>2. QED
    BY <1>6, <2>1 DEF WriteFault, Faulting, SetPermission, PagerTypeOK, Perm,
                      storeVars, programVars
<1>7. CASE Tick
  BY <1>7 DEF Tick, PagerTypeOK, Perm, storeVars, programVars
<1>8. CASE vmem_cleanup
  BY <1>8 DEF vmem_cleanup, PagerTypeOK, tableVars, storeVars, programVars
<1>9. CASE UNCHANGED vmVars
  BY <1>9 DEF vmVars, PagerTypeOK, tableVars, storeVars, programVars
<1>10. QED
  BY <1>1, <1>2, <1>3, <1>4, <1>5, <1>6, <1>7, <1>8, <1>9 DEF VMNext, Fault

(* Whatever the program touches and the policy evicts, the pager's tables    *)
(* have their types.                                                        *)
THEOREM PagerTypeCorrect == VMSpec => []PagerTypeOK
BY InitPagerType, NextPagerType, PTL DEF VMSpec

-----------------------------------------------------------------------------

(* A MapFault step that goes through maps the faulting page, which was not  *)
(* mapped, after unmapping the pages of some set of resident pages.         *)
LEMMA MapFaultShape ==
    ASSUME PagerTypeOK, MapFault
    PROVE  /\ access \in Access /\ access.page \in Page
           /\ hw[access.page] = "UNMAPPED"
           /\ Live /\ UNCHANGED <<access, got, ticks>> /\ faults' = faults + 1
           /\ \/ status' = "aborted"
                 /\ UNCHANGED <<tableVars, storeVars>>
              \/ \E out \in SUBSET resident : \E saved \in Saved(out) :
                    Remap(access.page, out, saved) /\ status' = status
<1>1. access \in Access /\ access.page \in Page
  BY AccessType DEF MapFault, Faulting
<1>2. /\ hw[access.page] = "UNMAPPED"
      /\ Live /\ UNCHANGED <<access, got, ticks>> /\ faults' = faults + 1
  BY DEF MapFault, Faulting, programVars
<1>3. ASSUME NEW room \in Room, AssertionsHold(room.out, room.rest)
      PROVE  room.out \in SUBSET resident
  BY <1>3 DEF AssertionsHold
<1>4. QED
  BY <1>1, <1>2, <1>3 DEF MapFault

(* At first nothing is mapped and the page table is clear. *)
LEMMA InitMirrors == VMInit => TableMirrorsKernel
BY DEF VMInit, vmem_init, TableMirrorsKernel

(* Every step changes the page table and the kernel's mappings together. *)
LEMMA NextMirrors ==
    PagerTypeOK /\ TableMirrorsKernel /\ [VMNext]_vmVars => TableMirrorsKernel'
<1> SUFFICES ASSUME PagerTypeOK, TableMirrorsKernel, [VMNext]_vmVars
             PROVE  TableMirrorsKernel'
  OBVIOUS
<1>1. CASE UNCHANGED tableVars
  BY <1>1 DEF tableVars, TableMirrorsKernel
<1>2. CASE MapFault
  <2>1. PICK out \in SUBSET resident : \E saved \in Saved(out) :
          Remap(access.page, out, saved) \/ UNCHANGED tableVars
    BY <1>1, <1>2, MapFaultShape DEF Saved
  <2>2. access.page \in Page /\ hw[access.page] = "UNMAPPED"
    BY <1>2, MapFaultShape
  <2>3. CASE \E saved \in Saved(out) : Remap(access.page, out, saved)
    BY <2>2, <2>3 DEF Remap, Count, TableMirrorsKernel, PagerTypeOK
  <2>4. QED
    BY <1>1, <2>1, <2>3
<1>3. CASE AccessFault
  <2>1. access.page \in Page
    BY <1>3, AccessType DEF AccessFault, Faulting
  <2>2. QED
    BY <1>3, <2>1 DEF AccessFault, SetPermission, TableMirrorsKernel, PagerTypeOK
<1>4. CASE WriteFault
  <2>1. access.page \in Page
    BY <1>4, AccessType DEF WriteFault, Faulting
  <2>2. QED
    BY <1>4, <2>1 DEF WriteFault, SetPermission, TableMirrorsKernel, PagerTypeOK
<1>5. CASE Tick /\ ~UNCHANGED tableVars
  <2>1. Touched(loaded, accessed) \subseteq accessed
    BY DEF Touched
  <2>2. QED
    BY <1>5, <2>1 DEF Tick, TableMirrorsKernel, PagerTypeOK, tableVars
<1>6. QED
  BY <1>1, <1>2, <1>3, <1>4, <1>5
     DEF VMNext, Fault, Issue, Perform, MapFaultUndefined, vmem_cleanup, vmVars,
         tableVars

(* The page table never disagrees with the kernel, and its accessed and     *)
(* dirty bits never miss a read or a write.                                 *)
THEOREM MirrorsAlways == VMSpec => []TableMirrorsKernel
BY InitMirrors, NextMirrors, PagerTypeCorrect, PTL DEF VMSpec

-----------------------------------------------------------------------------
(* Coherence of physical memory and swap file. *)

PagerInv == PagerTypeOK /\ TableMirrorsKernel /\ CleanPagesAreSaved

(* A page that is not mapped is not resident. *)
LEMMA UnmappedNotResident ==
    ASSUME PagerTypeOK, TableMirrorsKernel, NEW p \in Page
    PROVE  p \in resident <=> hw[p] # "UNMAPPED"
BY DEF PagerTypeOK, TableMirrorsKernel, Perm

(* At first no page is resident. *)
LEMMA InitSaved == VMInit => CleanPagesAreSaved
BY DEF VMInit, vmem_init, CleanPagesAreSaved

(* A page becomes clean only when it is mapped from the swap file. *)
LEMMA NextSaved == PagerInv /\ [VMNext]_vmVars => CleanPagesAreSaved'
<1> SUFFICES ASSUME PagerInv, [VMNext]_vmVars PROVE CleanPagesAreSaved'
  OBVIOUS
<1> USE DEF PagerInv
<1>1. CASE UNCHANGED <<resident, dirty, frame, swap>>
  BY <1>1 DEF CleanPagesAreSaved
<1>2. CASE Perform
  <2>1. access.page \in Page /\ access.kind \in {"read", "write"}
    BY <1>2, AccessType DEF Perform
  <2>2. CASE access.kind = "read"
    BY <1>1, <1>2, <2>2 DEF Perform, tableVars
  <2>3. CASE access.kind = "write"
    <3>1. access.page \in dirty
      BY <1>2, <2>1, <2>3 DEF Perform, Allowed, TableMirrorsKernel
    <3>2. QED
      BY <1>2, <2>1, <2>3, <3>1
         DEF Perform, CleanPagesAreSaved, tableVars, PagerTypeOK
  <2>4. QED
    BY <2>1, <2>2, <2>3
<1>3. CASE MapFault
  <2>1. access.page \in Page /\ access.page \notin resident
    BY <1>3, MapFaultShape, UnmappedNotResident
  <2>2. CASE \E out \in SUBSET resident : \E saved \in Saved(out) :
               Remap(access.page, out, saved)
    <3> PICK out \in SUBSET resident : \E saved \in Saved(out) :
           Remap(access.page, out, saved)
      BY <2>2
    <3>1. PICK saved \in Saved(out) : Remap(access.page, out, saved)
      OBVIOUS
    <3>2. saved \subseteq out
      BY DEF Saved
    <3>3. QED
      BY <2>1, <3>1, <3>2 DEF Remap, Count, CleanPagesAreSaved, PagerTypeOK
  <2>3. QED
    BY <1>1, <1>3, <2>2, MapFaultShape DEF tableVars, storeVars
<1>4. CASE WriteFault
  BY <1>4 DEF WriteFault, CleanPagesAreSaved, storeVars
<1>5. QED
  BY <1>1, <1>2, <1>3, <1>4
     DEF VMNext, Fault, Issue, MapFaultUndefined, AccessFault, Tick, vmem_cleanup,
         vmVars, tableVars, storeVars

(* What unmap_page throws away is never the only copy of a page.            *)
THEOREM SavedAlways == VMSpec => []CleanPagesAreSaved
<1>1. VMSpec => []PagerInv
  <2>1. VMInit => PagerInv
    BY InitPagerType, InitMirrors, InitSaved DEF PagerInv
  <2>2. PagerInv /\ [VMNext]_vmVars => PagerInv'
    BY NextPagerType, NextMirrors, NextSaved DEF PagerInv
  <2>3. QED
    BY <2>1, <2>2, PTL DEF VMSpec
<1>2. QED
  BY <1>1, PTL DEF PagerInv

-----------------------------------------------------------------------------
(* The pager implements plain memory. *)

(* Making room moves pages between memory and swap file, and the contents   *)
(* the program sees stay what they are.                                     *)
LEMMA RemapKeepsContents ==
    ASSUME PagerInv, ~ShortWrites,
           NEW page \in Page \ resident, NEW out \in SUBSET resident,
           NEW saved \in Saved(out), Remap(page, out, saved)
    PROVE  UNCHANGED Contents
<1>1. saved = out \cap dirty
  BY DEF Saved
<1>2. ASSUME NEW p \in Page
      PROVE  (IF p \in resident' THEN frame'[p] ELSE swap'[p])
               = (IF p \in resident THEN frame[p] ELSE swap[p])
  BY <1>1 DEF Remap, Count, PagerInv, CleanPagesAreSaved
<1>3. QED
  BY <1>2 DEF Contents

(* A swap file of zeros is a memory of zeros. *)
LEMMA InitMemory == VMInit => Mem!MemoryInit
BY DEF VMInit, vmem_init, Mem!MemoryInit, Contents

(* Performing an access is a step of the memory; nothing else shows. *)
LEMMA StepMemory ==
    ASSUME ~ShortWrites
    PROVE  PagerInv /\ [VMNext]_vmVars => [Mem!MemoryNext]_Mem!memoryVars
<1> SUFFICES ASSUME PagerInv, [VMNext]_vmVars
             PROVE  [Mem!MemoryNext]_Mem!memoryVars
  OBVIOUS
<1> USE DEF Mem!memoryVars
<1>1. CASE UNCHANGED <<resident, frame, swap, access, got>>
  BY <1>1 DEF Contents
<1>2. CASE Issue
  <2>1. UNCHANGED Contents
    BY <1>2 DEF Issue, Contents, tableVars, storeVars
  <2>2. QED
    BY <1>2, <2>1 DEF Issue, Busy, Mem!MemoryNext, Mem!Issue, Access, Mem!Access
<1>3. CASE Perform
  <2>1. access.page \in Page /\ access.kind \in {"read", "write"}
    BY <1>3, AccessType DEF Perform, PagerInv
  <2>2. access.page \in resident
    BY <1>3, <2>1, UnmappedNotResident DEF Perform, Allowed, PagerInv
  <2>3. CASE access.kind = "read"
    <3>1. UNCHANGED Contents
      BY <1>3, <2>3 DEF Perform, Contents, tableVars
    <3>2. got' = Contents[access.page]
      BY <1>3, <2>1, <2>2, <2>3 DEF Perform, Contents
    <3>3. QED
      BY <1>3, <2>3, <3>1, <3>2 DEF Perform, Busy, Mem!MemoryNext, Mem!Read
  <2>4. CASE access.kind = "write"
    <3>1. Contents' = [Contents EXCEPT ![access.page] = access.val]
      BY <1>3, <2>1, <2>2, <2>4
         DEF Perform, Contents, tableVars, PagerInv, PagerTypeOK
    <3>2. QED
      BY <1>3, <2>4, <3>1 DEF Perform, Busy, Mem!MemoryNext, Mem!Write
  <2>5. QED
    BY <2>1, <2>3, <2>4
<1>4. CASE MapFault
  <2>1. access.page \in Page \ resident /\ UNCHANGED <<access, got>>
    BY <1>4, MapFaultShape, UnmappedNotResident DEF PagerInv
  <2>2. UNCHANGED Contents
    <3>1. CASE UNCHANGED <<tableVars, storeVars>>
      BY <3>1 DEF Contents, tableVars, storeVars
    <3>2. CASE \E out \in SUBSET resident : \E saved \in Saved(out) :
                 Remap(access.page, out, saved)
      BY <2>1, <3>2, RemapKeepsContents
    <3>3. QED
      BY <1>4, <3>1, <3>2, MapFaultShape DEF PagerInv
  <2>3. QED
    BY <2>1, <2>2
<1>5. QED
  BY <1>1, <1>2, <1>3, <1>4
     DEF VMNext, Fault, MapFaultUndefined, AccessFault, WriteFault, Tick,
         vmem_cleanup, vmVars, tableVars, storeVars, programVars, Faulting

(* Every behaviour of the pager is a behaviour of plain memory: the program *)
(* cannot tell that its pages come and go.                                  *)
THEOREM PagerImplementsMemory ==
    ASSUME ~ShortWrites
    PROVE  VMSpec => ImplementsMemory
<1>1. VMSpec => []PagerInv
  BY PagerTypeCorrect, MirrorsAlways, SavedAlways, PTL DEF PagerInv
<1>2. PagerInv /\ [VMNext]_vmVars => [Mem!MemoryNext]_Mem!memoryVars
  BY StepMemory
<1>3. QED
  BY <1>1, <1>2, InitMemory, PTL DEF VMSpec, ImplementsMemory, Mem!MemorySpec

-----------------------------------------------------------------------------
(* The number of faults of an access is bounded. *)

FaultInv ==
    /\ FaultsBounded
    /\ ~Busy => faults = 0 /\ ticks = 0

(* Every fault raises the page's permission by one level. *)
LEMMA NextFaults ==
    PagerTypeOK /\ TableMirrorsKernel /\ FaultInv /\ [VMNext]_vmVars => FaultInv'
<1> SUFFICES ASSUME PagerTypeOK, TableMirrorsKernel, FaultInv, [VMNext]_vmVars
             PROVE  FaultInv'
  OBVIOUS
<1> USE DEF FaultInv
<1>1. CASE UNCHANGED <<hw, access, faults, ticks, status>>
  BY <1>1 DEF FaultsBounded, FaultsToGo, Goal, Busy, Live
<1>2. CASE Issue
  <2>1. access' \in Access /\ faults' = 0 /\ ticks' = 0
    BY <1>2 DEF Issue
  <2>2. Goal' \in {2, 3}
    BY DEF Goal
  <2>3. FaultsToGo' <= Goal'
    <3>1. hw'[access'.page] \in Perm \cup {"UNMAPPED"}
      BY <1>2, <2>1 DEF Issue, PagerTypeOK, Access, tableVars
    <3>2. QED
      BY <2>2, <3>1 DEF FaultsToGo, Level, Perm
  <2>4. FaultsToGo' \in Nat
    <3>1. hw'[access'.page] \in Perm \cup {"UNMAPPED"}
      BY <1>2, <2>1 DEF Issue, PagerTypeOK, Access, tableVars
    <3>2. QED
      BY <2>2, <3>1 DEF FaultsToGo, Level, Perm
  <2>5. Busy'
    BY <2>1, VirtualMemAssumption DEF Busy
  <2>6. faults' + FaultsToGo' <= Goal' + (Goal' - 1) * ticks'
    <3>1. ASSUME NEW g \in Int, NEW x \in Nat, x <= g
          PROVE  0 + x <= g + (g - 1) * 0
      BY <3>1
    <3>2. Goal' \in Int
      BY <2>2
    <3>3. 0 + FaultsToGo' <= Goal' + (Goal' - 1) * 0
      BY ONLY <2>3, <2>4, <3>1, <3>2
    <3>4. QED
      BY ONLY <2>1, <3>3
  <2>7. FaultsBounded'
    BY ONLY <2>6 DEF FaultsBounded
  <2>8. QED
    BY <2>5, <2>7
<1>3. CASE Perform
  BY <1>3 DEF Perform, FaultsBounded, Busy
<1>4. CASE MapFault
  <2>1. Busy /\ Live /\ access.page \in Page /\ hw[access.page] = "UNMAPPED"
    BY <1>4, MapFaultShape DEF MapFault, Faulting
  <2>2. faults' = faults + 1 /\ UNCHANGED <<access, ticks>>
    BY <1>4, MapFaultShape
  <2>3. CASE status' = "aborted"
    BY <2>1, <2>2, <2>3 DEF FaultsBounded, Live, Busy
  <2>4. CASE hw'[access.page] = "NONE"
    BY <2>1, <2>2, <2>4 DEF FaultsBounded, FaultsToGo, Goal, Level, PagerTypeOK, Busy
  <2>5. QED
    BY <1>4, <2>1, <2>3, <2>4, MapFaultShape DEF Remap, Count, PagerTypeOK
<1>5. CASE MapFaultUndefined
  BY <1>5 DEF MapFaultUndefined, Faulting, FaultsBounded, Live, Busy, programVars
<1>6. CASE AccessFault
  <2>1. Busy /\ Live /\ faults' = faults + 1 /\ UNCHANGED <<access, ticks, status>>
    BY <1>6 DEF AccessFault, Faulting, programVars
  <2>2. access.page \in Page
    BY <2>1, AccessType
  <2>3. hw[access.page] = "NONE" /\ hw'[access.page] = "READ"
    BY <1>6, <2>2 DEF AccessFault, SetPermission, TableMirrorsKernel, PagerTypeOK
  <2>4. QED
    BY <2>1, <2>3 DEF FaultsBounded, FaultsToGo, Goal, Level, PagerTypeOK, Busy, Live
<1>7. CASE WriteFault
  <2>1. Busy /\ Live /\ faults' = faults + 1 /\ UNCHANGED <<access, ticks, status>>
    BY <1>7 DEF WriteFault, Faulting, programVars
  <2>2. access.page \in Page
    BY <2>1, AccessType
  <2>3. hw[access.page] = "READ" /\ hw'[access.page] = "RDWR"
    BY <1>7, <2>2 DEF WriteFault, SetPermission, TableMirrorsKernel, PagerTypeOK
  <2>4. access.kind # "read"
    BY <1>7, <2>3 DEF WriteFault, Faulting, Allowed
  <2>5. QED
    BY <2>1, <2>3, <2>4 DEF FaultsBounded, FaultsToGo, Goal, Level, PagerTypeOK, Busy, Live
<1>8. CASE Tick
  <2>1. UNCHANGED <<access, faults>> /\ ticks' = IF Busy THEN ticks + 1 ELSE ticks
    BY <1>8 DEF Tick, programVars
  <2>2. CASE ~Busy
    BY <2>1, <2>2 DEF FaultsBounded, Busy
  <2>3. CASE Busy /\ Live'
    <3>1. access.page \in Page /\ Live
      BY <1>8, <2>3, AccessType DEF Tick
    <3>2. \/ hw'[access.page] = hw[access.page]
          \/ hw'[access.page] = "NONE" /\ hw[access.page] \in {"READ", "RDWR"}
      BY <1>8, <2>3, <3>1 DEF Tick, Touched, TableMirrorsKernel, PagerTypeOK
    <3>3. hw[access.page] \in Perm \cup {"UNMAPPED"}
      BY <3>1 DEF PagerTypeOK
    <3>4. QED
      BY <2>1, <2>3, <3>1, <3>2, <3>3
         DEF FaultsBounded, FaultsToGo, Goal, Level, PagerTypeOK, Busy, Perm
  <2>4. QED
    BY <2>1, <2>2, <2>3 DEF FaultsBounded, Busy
<1>9. CASE vmem_cleanup
  BY <1>9 DEF vmem_cleanup, FaultsBounded, Busy, programVars
<1>10. QED
  BY <1>1, <1>2, <1>3, <1>4, <1>5, <1>6, <1>7, <1>8, <1>9
     DEF VMNext, Fault, vmVars, tableVars, programVars

(* No access faults in a loop, whatever the policy and the timer do.        *)
THEOREM FaultsAlwaysBounded == VMSpec => []FaultsBounded
<1>1. VMInit => FaultInv
  BY DEF VMInit, FaultInv, FaultsBounded, Busy
<1>2. VMSpec => []FaultInv
  BY <1>1, NextFaults, PagerTypeCorrect, MirrorsAlways, PTL DEF VMSpec
<1>3. QED
  BY <1>2, PTL DEF FaultInv

-----------------------------------------------------------------------------
(* A list of pages, none of them twice. *)
IsList(list) == list \in Seq(Page) /\ IsInjective(list)

(* Entries are equal only at equal places. *)
LEMMA ListEntries ==
    ASSUME NEW list, IsList(list)
    PROVE  /\ Len(list) \in Nat /\ DOMAIN list = 1 .. Len(list)
           /\ Range(list) = {list[i] : i \in 1 .. Len(list)}
           /\ \A i \in 1 .. Len(list) : list[i] \in Page /\ list[i] \in Range(list)
           /\ \A i, j \in 1 .. Len(list) : list[i] = list[j] => i = j
BY LenProperties, ElementOfSeq DEF IsList, IsInjective, Range

(* What a list of pages has to satisfy to be one. *)
LEMMA ListFromEntries ==
    ASSUME NEW list, NEW n \in Nat, list \in [1 .. n -> Page],
           \A i, j \in 1 .. n : list[i] = list[j] => i = j
    PROVE  IsList(list) /\ Len(list) = n
<1>1. list \in Seq(Page)
  BY SeqDef
<1>2. DOMAIN list = 1 .. n
  OBVIOUS
<1>3. QED
  BY <1>1, <1>2 DEF IsList, IsInjective

-----------------------------------------------------------------------------
(* A page mapped, a page evicted. *)

(* policy_page_mapped adds the page at the tail. *)
LEMMA MappedIsTracked ==
    ASSUME NEW list, IsList(list), NEW page \in Page \ Range(list)
    PROVE  LET after == policy_page_mapped(list, page)
           IN  /\ IsList(after)
               /\ Range(after) = Range(list) \cup {page}
               /\ Len(after) = Len(list) + 1
               /\ \A i \in 1 .. Len(list) : after[i] = list[i]
               /\ after[Len(list) + 1] = page
<1> DEFINE after == policy_page_mapped(list, page)
           n == Len(list)
<1>1. /\ after \in Seq(Page) /\ Len(after) = n + 1 /\ n \in Nat
      /\ \A i \in 1 .. n : after[i] = list[i]
      /\ after[n + 1] = page
  BY AppendProperties, LenProperties DEF policy_page_mapped, IsList
<1>2. DOMAIN after = 1 .. n + 1
  BY <1>1, LenProperties
<1> HIDE DEF after
<1>3. IsInjective(after)
  BY <1>1, <1>2, ListEntries DEF IsInjective
<1>4. Range(after) = Range(list) \cup {page}
  <2>1. Range(after) = {after[i] : i \in 1 .. n + 1}
    BY <1>2 DEF Range
  <2>2. 1 .. n + 1 = (1 .. n) \cup {n + 1}
    BY <1>1
  <2>3. QED
    BY <1>1, <2>1, <2>2, ListEntries
<1>5. QED
  BY <1>1, <1>3, <1>4 DEF IsList, after

(* FIFO and CLRU evict the head. *)
LEMMA TailIsTracked ==
    ASSUME NEW list, IsList(list), list # <<>>
    PROVE  /\ Head(list) \in Range(list)
           /\ IsList(Tail(list))
           /\ Len(Tail(list)) = Len(list) - 1
           /\ Range(Tail(list)) = Range(list) \ {Head(list)}
           /\ \A i \in 1 .. Len(list) - 1 : Tail(list)[i] = list[i + 1]
<1> DEFINE n == Len(list)
           rest == Tail(list)
<1>1. /\ n \in Nat \ {0} /\ Head(list) = list[1]
      /\ rest \in Seq(Page) /\ Len(rest) = n - 1
      /\ \A i \in 1 .. n - 1 : rest[i] = list[i + 1]
  BY HeadTailProperties, EmptySeq DEF IsList
<1>2. DOMAIN rest = 1 .. n - 1
  BY <1>1, LenProperties
<1> HIDE DEF rest
<1>3. IsInjective(rest)
  <2> SUFFICES ASSUME NEW i \in 1 .. n - 1, NEW j \in 1 .. n - 1, rest[i] = rest[j]
               PROVE  i = j
    BY <1>2 DEF IsInjective
  <2>1. i + 1 \in 1 .. n /\ j + 1 \in 1 .. n /\ list[i + 1] = list[j + 1]
    BY <1>1
  <2>2. i + 1 = j + 1
    BY <2>1, ListEntries
  <2>3. QED
    BY <2>2
<1>4. Range(rest) = Range(list) \ {Head(list)}
  <2>1. Range(rest) = {list[i + 1] : i \in 1 .. n - 1}
    BY <1>1, <1>2 DEF Range
  <2>2. ASSUME NEW i \in 1 .. n, i # 1 PROVE i - 1 \in 1 .. n - 1 /\ (i - 1) + 1 = i
    BY <1>1, <2>2
  <2>3. ASSUME NEW i \in 1 .. n - 1
        PROVE  i + 1 \in 1 .. n /\ i + 1 # 1 /\ 1 \in 1 .. n
    BY <1>1, <2>3
  <2>4. Range(rest) \subseteq Range(list) \ {Head(list)}
    BY <1>1, <2>1, <2>3, ListEntries
  <2>5. ASSUME NEW i \in 1 .. n, i # 1 PROVE list[i] \in Range(rest)
    BY <2>1, <2>2, <2>5
  <2>6. QED
    BY <1>1, <2>4, <2>5, ListEntries
<1>5. 1 \in 1 .. n
  BY <1>1
<1>6. QED
  BY <1>1, <1>3, <1>4, <1>5, ListEntries DEF IsList, rest

(* RANDOM evicts the entry at any place, and the last one fills the place.  *)
LEMMA FillPlaceIsTracked ==
    ASSUME NEW list, IsList(list), NEW k \in 1 .. Len(list)
    PROVE  /\ IsList(FillPlace(list, k))
           /\ Len(FillPlace(list, k)) = Len(list) - 1
           /\ Range(FillPlace(list, k)) = Range(list) \ {list[k]}
<1> DEFINE n == Len(list)
           rest == FillPlace(list, k)
<1>1. n \in Nat /\ n - 1 \in Nat /\ n \in 1 .. n
  BY ListEntries
<1>2. rest = [j \in 1 .. n - 1 |-> IF j = k THEN list[n] ELSE list[j]]
  BY DEF FillPlace
<1>3. \A j \in 1 .. n - 1 : j \in 1 .. n /\ j # n
  BY <1>1
<1>4. rest \in [1 .. n - 1 -> Page]
  BY <1>1, <1>2, <1>3, ListEntries
<1>5. \A j \in 1 .. n - 1 : rest[j] = IF j = k THEN list[n] ELSE list[j]
  BY <1>2
<1> HIDE DEF rest, n
<1>6. \A i, j \in 1 .. n - 1 : rest[i] = rest[j] => i = j
  BY <1>1, <1>3, <1>5, ListEntries DEF n
<1>7. IsList(rest) /\ Len(rest) = n - 1
  BY <1>1, <1>4, <1>6, ListFromEntries
<1>8. Range(rest) = {rest[j] : j \in 1 .. n - 1}
  BY <1>4 DEF Range
<1>9. Range(rest) \subseteq Range(list) \ {list[k]}
  <2> SUFFICES ASSUME NEW j \in 1 .. n - 1 PROVE rest[j] \in Range(list) \ {list[k]}
    BY <1>8
  <2>1. CASE j = k
    BY <1>1, <1>3, <1>5, <2>1, ListEntries DEF n
  <2>2. CASE j # k
    BY <1>1, <1>3, <1>5, <2>2, ListEntries DEF n
  <2>3. QED
    BY <2>1, <2>2
<1>10. ASSUME NEW i \in 1 .. n, i # k PROVE list[i] \in Range(rest)
  <2>1. CASE i # n
    <3>1. i \in 1 .. n - 1
      BY <1>1, <2>1
    <3>2. QED
      BY <1>5, <1>8, <1>10, <3>1
  <2>2. CASE i = n
    <3>1. k \in 1 .. n - 1
      BY <1>1, <1>10, <2>2 DEF n
    <3>2. QED
      BY <1>5, <1>8, <2>2, <3>1
  <2>3. QED
    BY <2>1, <2>2
<1>11. QED
  BY <1>7, <1>9, <1>10, ListEntries DEF n, rest

(* Whichever victim a policy chooses was in the list and is no longer, and  *)
(* the rest stays.                                                          *)
LEMMA EvictionIsTracked ==
    ASSUME NEW list, IsList(list), EvictionDefined(list), NEW e \in Evictions(list)
    PROVE  /\ e.victim \in Range(list)
           /\ IsList(e.rest)
           /\ Len(e.rest) = Len(list) - 1
           /\ Range(e.rest) = Range(list) \ {e.victim}
<1>1. CASE policy = "RANDOM"
  <2>1. PICK k \in 1 .. Len(list) : e = [victim |-> list[k], rest |-> FillPlace(list, k)]
    BY <1>1, ListEntries DEF Evictions
  <2>2. e.victim = list[k] /\ e.rest = FillPlace(list, k)
    BY <2>1
  <2>3. QED
    BY <2>2, FillPlaceIsTracked, ListEntries
<1>2. CASE policy # "RANDOM"
  <2>1. e.victim = Head(list) /\ e.rest = Tail(list)
    BY <1>2 DEF Evictions
  <2>2. list # <<>>
    BY <1>2, EmptySeq DEF EvictionDefined
  <2>3. QED
    BY <2>1, <2>2, TailIsTracked
<1>3. QED
  BY <1>1, <1>2

-----------------------------------------------------------------------------
(* The walk of CLRU's tick. *)

(* The accessed entries among the first k. *)
Passed(list, acc, k) == Cardinality({j \in 1 .. k : list[j] \in acc})

(* Between two places there are at most as many accessed entries as entries. *)
LEMMA PassedBounds ==
    ASSUME NEW list, NEW acc, NEW i \in Nat, NEW k \in Nat, i <= k
    PROVE  /\ Passed(list, acc, i) \in Nat /\ Passed(list, acc, k) \in Nat
           /\ Passed(list, acc, i) <= Passed(list, acc, k)
           /\ Passed(list, acc, k) <= Passed(list, acc, i) + (k - i)
<1> DEFINE A == {j \in 1 .. i : list[j] \in acc}
           B == {j \in 1 .. k : list[j] \in acc}
           C == (i + 1) .. k
<1>1. IsFiniteSet(1 .. i) /\ IsFiniteSet(1 .. k) /\ IsFiniteSet(C) /\ Cardinality(C) = k - i
  <2>1. 1 \in Int /\ i \in Int /\ k \in Int /\ i + 1 \in Int
    OBVIOUS
  <2>2. IsFiniteSet(1 .. i) /\ IsFiniteSet(1 .. k)
    BY <2>1, FS_Interval
  <2>3. /\ IsFiniteSet((i + 1) .. k)
        /\ Cardinality((i + 1) .. k) = IF i + 1 > k THEN 0 ELSE k - (i + 1) + 1
    BY ONLY <2>1, FS_Interval
  <2>4. QED
    BY <2>2, <2>3
<1>2. A \in SUBSET (1 .. i) /\ B \in SUBSET (1 .. k) /\ A \in SUBSET B /\ B \in SUBSET (A \cup C)
  OBVIOUS
<1>3. Passed(list, acc, i) = Cardinality(A) /\ Passed(list, acc, k) = Cardinality(B)
  BY DEF Passed
<1> HIDE DEF A, B, C
<1>4. IsFiniteSet(A) /\ IsFiniteSet(B)
  BY <1>1, <1>2, FS_Subset
<1>5. Cardinality(A) \in Nat /\ Cardinality(B) \in Nat /\ Cardinality(A \cap C) \in Nat
  BY <1>4, FS_CardinalityType, FS_Intersection
<1>6. Cardinality(A) <= Cardinality(B)
  BY <1>2, <1>4, FS_Subset
<1>7. IsFiniteSet(A \cup C)
      /\ Cardinality(A \cup C) = Cardinality(A) + Cardinality(C) - Cardinality(A \cap C)
  BY <1>1, <1>4, FS_Union
<1>8. Cardinality(B) <= Cardinality(A \cup C)
  BY <1>2, <1>7, FS_Subset
<1>9. QED
  BY <1>1, <1>3, <1>5, <1>6, <1>7, <1>8

(* An accessed entry counts itself, another one does not. *)
LEMMA PassedStep ==
    ASSUME NEW list, NEW acc, NEW k \in Nat \ {0}
    PROVE  Passed(list, acc, k)
             = IF list[k] \in acc THEN Passed(list, acc, k - 1) + 1
                                  ELSE Passed(list, acc, k - 1)
<1> DEFINE A == {j \in 1 .. k - 1 : list[j] \in acc}
           B == {j \in 1 .. k : list[j] \in acc}
<1>1. IsFiniteSet(1 .. k - 1) /\ A \in SUBSET (1 .. k - 1)
  BY FS_Interval
<1>2. 1 .. k = (1 .. k - 1) \cup {k} /\ k \notin 1 .. k - 1
  OBVIOUS
<1>3. B = IF list[k] \in acc THEN A \cup {k} ELSE A
  BY <1>2
<1>4. k \notin A
  BY <1>2
<1>5. Passed(list, acc, k - 1) = Cardinality(A) /\ Passed(list, acc, k) = Cardinality(B)
  BY DEF Passed
<1> HIDE DEF A, B
<1>6. IsFiniteSet(A)
  BY <1>1, FS_Subset
<1>7. QED
  BY <1>3, <1>4, <1>5, <1>6, FS_AddElement

(* The walk leaves no two entries at one place, none outside the list, and  *)
(* the accessed ones behind the others.                                     *)
LEMMA PlacesAreDistinct ==
    ASSUME NEW list, Len(list) \in Nat, NEW acc
    PROVE  LET place(k) == PlaceAfterTick(list, acc, k)
               n == Len(list)
           IN  /\ \A k \in 1 .. n : place(k) \in 1 .. n
               /\ \A i, k \in 1 .. n : place(i) = place(k) => i = k
               /\ \A i, k \in 1 .. n :
                    list[i] \in acc /\ list[k] \notin acc => place(k) < place(i)
<1> DEFINE n == Len(list)
           A(k) == Passed(list, acc, k)
           place(k) == PlaceAfterTick(list, acc, k)
<1>1. \A k : place(k) = IF list[k] \in acc THEN n + 1 - A(k) ELSE k - A(k)
  BY DEF PlaceAfterTick, Passed
<1>2. \A i, k \in Nat : i <= k => /\ A(i) \in Nat /\ A(k) \in Nat
                                  /\ A(i) <= A(k) /\ A(k) <= A(i) + (k - i)
  BY PassedBounds
<1>3. \A k \in Nat \ {0} : A(k) = IF list[k] \in acc THEN A(k - 1) + 1 ELSE A(k - 1)
  BY PassedStep
<1>4. A(0) = 0
  <2>1. {j \in 1 .. 0 : list[j] \in acc} = {}
    OBVIOUS
  <2>2. QED
    BY <2>1, FS_EmptySet DEF Passed
<1>5. n \in Nat
  OBVIOUS
<1> HIDE DEF n, A, place
<1>6. ASSUME NEW k \in 1 .. n
      PROVE  place(k) \in 1 .. n
  <2>1. k \in Nat \ {0} /\ k - 1 \in Nat /\ 0 <= k - 1 /\ 0 <= k /\ k <= n
    BY <1>5
  <2>2. /\ A(k) \in Nat /\ A(k - 1) \in Nat /\ A(k - 1) <= k - 1 /\ A(k) <= k
    <3>1. ASSUME NEW i \in Nat PROVE A(i) \in Nat /\ A(i) <= i
      <4>1. 0 \in Nat /\ 0 <= i
        OBVIOUS
      <4>2. A(i) \in Nat /\ A(i) <= A(0) + (i - 0)
        BY <1>2, <4>1
      <4>3. QED
        BY <1>4, <4>2
    <3>2. QED
      BY <2>1, <3>1
  <2>3. CASE list[k] \in acc
    BY <1>1, <1>3, <1>5, <2>1, <2>2, <2>3
  <2>4. CASE list[k] \notin acc
    BY <1>1, <1>3, <1>5, <2>1, <2>2, <2>4
  <2>5. QED
    BY <2>3, <2>4
<1>7. ASSUME NEW i \in 1 .. n, NEW k \in 1 .. n, i < k
      PROVE  place(i) # place(k)
  <2>1. /\ i \in Nat /\ k \in Nat \ {0} /\ k - 1 \in Nat
        /\ i <= k /\ i <= k - 1 /\ k <= n
    BY <1>5, <1>7
  <2>2. /\ A(i) \in Nat /\ A(k - 1) \in Nat /\ A(k) \in Nat
        /\ A(i) <= A(k - 1) /\ A(k - 1) <= A(i) + (k - 1 - i)
    BY <1>2, <2>1
  <2>3. A(n) \in Nat /\ A(k) <= A(n) /\ A(n) <= A(k) + (n - k)
    BY <1>2, <1>5, <2>1
  <2>4. A(k) = IF list[k] \in acc THEN A(k - 1) + 1 ELSE A(k - 1)
    BY <1>3, <2>1
  <2>5. CASE list[i] \in acc /\ list[k] \in acc
    <3>1. place(i) = n + 1 - A(i) /\ place(k) = n + 1 - A(k)
      BY <1>1, <2>5
    <3>2. QED
      BY <1>5, <2>2, <2>4, <2>5, <3>1
  <2>6. CASE list[i] \in acc /\ list[k] \notin acc
    <3>1. place(i) = n + 1 - A(i) /\ place(k) = k - A(k)
      BY <1>1, <2>6
    <3>2. QED
      BY <1>5, <2>1, <2>2, <2>3, <2>4, <2>6, <3>1
  <2>7. CASE list[i] \notin acc /\ list[k] \in acc
    <3>1. place(i) = i - A(i) /\ place(k) = n + 1 - A(k)
      BY <1>1, <2>7
    <3>2. QED
      BY <1>5, <2>1, <2>2, <2>3, <2>4, <2>7, <3>1
  <2>8. CASE list[i] \notin acc /\ list[k] \notin acc
    <3>1. place(i) = i - A(i) /\ place(k) = k - A(k)
      BY <1>1, <2>8
    <3>2. QED
      BY <2>1, <2>2, <2>4, <2>8, <3>1
  <2>9. QED
    BY <2>5, <2>6, <2>7, <2>8
<1>8. ASSUME NEW i \in 1 .. n, NEW k \in 1 .. n, list[i] \in acc, list[k] \notin acc
      PROVE  place(k) < place(i)
  <2>1. i \in Nat /\ k \in Nat /\ i <= n /\ k <= n
    BY <1>5
  <2>2. /\ A(i) \in Nat /\ A(k) \in Nat /\ A(n) \in Nat
        /\ A(i) <= A(n) /\ A(n) <= A(k) + (n - k)
    BY <1>2, <1>5, <2>1
  <2>3. QED
    BY <1>1, <1>5, <1>8, <2>1, <2>2
<1>9. \A i, k \in 1 .. n : place(i) = place(k) => i = k
  <2> SUFFICES ASSUME NEW i \in 1 .. n, NEW k \in 1 .. n, place(i) = place(k)
               PROVE  i = k
    OBVIOUS
  <2>1. ~(i < k) /\ ~(k < i)
    BY <1>7
  <2>2. QED
    BY <1>5, <2>1
<1>10. QED
  BY <1>6, <1>8, <1>9 DEF n, place

(* The walk is a rearrangement of the list that puts the accessed entries   *)
(* behind the others.                                                       *)
LEMMA WalkIsTracked ==
    ASSUME NEW list, IsList(list), NEW acc, Walks(list)
    PROVE  LET after == policy_timer_tick(list, acc)
           IN  /\ IsList(after)
               /\ Len(after) = Len(list)
               /\ Range(after) = Range(list)
               /\ \A i, j \in 1 .. Len(list) :
                    i < j /\ after[j] \notin acc => after[i] \notin acc
<1> DEFINE n == Len(list)
           place == [k \in 1 .. n |-> PlaceAfterTick(list, acc, k)]
           from(i) == CHOOSE k \in 1 .. n : PlaceAfterTick(list, acc, k) = i
           after == policy_timer_tick(list, acc)
<1>1. n \in Nat
  BY ListEntries
<1>2. /\ \A k \in 1 .. n : place[k] \in 1 .. n
      /\ \A i, k \in 1 .. n : place[i] = place[k] => i = k
      /\ \A i, k \in 1 .. n :
           list[i] \in acc /\ list[k] \notin acc => place[k] < place[i]
  BY <1>1, PlacesAreDistinct
<1>3. \A i \in 1 .. n : \E k \in 1 .. n : place[k] = i
  <2>1. place \in Injection(1 .. n, 1 .. n)
    BY <1>2 DEF Injection, IsInjective
  <2>2. IsFiniteSet(1 .. n)
    BY <1>1, FS_Interval
  <2>3. place \in Surjection(1 .. n, 1 .. n)
    BY <2>1, <2>2, FS_Injection
  <2>4. QED
    BY <2>3 DEF Surjection
<1>4. \A i \in 1 .. n : from(i) \in 1 .. n /\ place[from(i)] = i
  BY <1>3
<1>5. after = [i \in 1 .. n |-> list[from(i)]]
  <2>1. DOMAIN list = 1 .. n
    BY ListEntries
  <2>2. after = [i \in DOMAIN list |->
                   list[CHOOSE k \in DOMAIN list : PlaceAfterTick(list, acc, k) = i]]
    BY DEF policy_timer_tick
  <2>3. QED
    BY ONLY <2>1, <2>2
<1> HIDE DEF from, place, n
<1>6. \A i \in 1 .. n : after[i] = list[from(i)]
  BY <1>5
<1>7. after \in [1 .. n -> Page]
  BY <1>4, <1>5, ListEntries DEF n
<1> HIDE DEF after
<1>8. \A i, j \in 1 .. n : after[i] = after[j] => i = j
  <2> SUFFICES ASSUME NEW i \in 1 .. n, NEW j \in 1 .. n, after[i] = after[j]
               PROVE  i = j
    OBVIOUS
  <2>1. \A k, l \in 1 .. n : list[k] = list[l] => k = l
    BY ListEntries DEF n
  <2>2. from(i) = from(j)
    BY <1>4, <1>6, <2>1
  <2>3. QED
    BY <1>4, <2>2
<1>9. IsList(after) /\ Len(after) = n
  BY <1>1, <1>7, <1>8, ListFromEntries
<1>10. Range(after) = Range(list)
  <2>1. Range(after) = {after[i] : i \in 1 .. n}
    BY <1>7 DEF Range
  <2>2. \A i \in 1 .. n : after[i] \in Range(list)
    BY <1>4, <1>6, ListEntries DEF n
  <2>3. ASSUME NEW k \in 1 .. n PROVE list[k] \in Range(after)
    <3>1. place[k] \in 1 .. n /\ from(place[k]) = k
      BY <1>2, <1>4
    <3>2. after[place[k]] = list[k]
      BY <1>6, <3>1
    <3>3. QED
      BY <2>1, <3>1, <3>2
  <2>4. QED
    BY <2>1, <2>2, <2>3, ListEntries DEF n
<1>11. ASSUME NEW i \in 1 .. n, NEW j \in 1 .. n, i < j, after[j] \notin acc
       PROVE  after[i] \notin acc
  <2>1. from(i) \in 1 .. n /\ from(j) \in 1 .. n
    BY <1>4
  <2>2. ~(place[from(j)] < place[from(i)])
    BY <1>1, <1>4, <1>11
  <2>3. QED
    BY <1>2, <1>6, <1>11, <2>1, <2>2
<1>12. QED
  BY <1>9, <1>10, <1>11 DEF n, after

-----------------------------------------------------------------------------
(* The list and the pager together. *)

(* While the pager runs its list is one of pages.                           *)
PolicyInv ==
    /\ PolicyTracksResident
    /\ status = "running" => loaded \in Seq(Page)
    /\ max_resident \in Nat \ {0}
    /\ NoAbort

(* At first nothing is resident and the list is empty. *)
LEMMA InitPolicy == VMInit => PolicyInv
<1> SUFFICES ASSUME VMInit PROVE PolicyInv
  OBVIOUS
<1>1. /\ resident = {} /\ loaded = <<>> /\ num_resident = 0 /\ status = "running"
      /\ max_resident \in Nat \ {0}
  BY PolicyAssumption DEF VMInit, vmem_init, policy_init
<1>2. loaded \in Seq(Page) /\ Len(loaded) = 0
  BY <1>1, EmptySeq
<1>3. DOMAIN loaded = {}
  BY <1>2, LenProperties
<1>4. QED
  BY <1>1, <1>2, <1>3 DEF PolicyInv, PolicyTracksResident, NoAbort, Range, IsInjective

(* Making room on a fault of an unmapped page: the assertions hold, and the *)
(* list that remains is that of the resident pages that remain.             *)
LEMMA RoomIsTracked ==
    ASSUME PagerTypeOK, PolicyInv, status = "running",
           NEW page \in Page \ resident,
           num_resident = max_resident => EvictionDefined(loaded),
           NEW room \in Room
    PROVE  /\ num_resident <= max_resident
           /\ room.out \subseteq resident
           /\ IsList(room.rest)
           /\ Range(room.rest) = resident \ room.out
           /\ Len(room.rest) + 1 = Count(room.out)
           /\ Len(room.rest) < max_resident
<1>1. /\ IsList(loaded) /\ Range(loaded) = resident /\ Len(loaded) = num_resident
      /\ num_resident <= max_resident /\ max_resident \in Nat /\ num_resident \in Nat
  BY DEF PolicyInv, PolicyTracksResident, IsList, PagerTypeOK
<1>2. CASE num_resident = max_resident
  <2>1. PICK e \in Evictions(loaded) : room = [out |-> {e.victim}, rest |-> e.rest]
    BY <1>2 DEF Room
  <2>2. room.out = {e.victim} /\ room.rest = e.rest
    BY <2>1
  <2>3. EvictionDefined(loaded)
    BY <1>2
  <2>4. /\ e.victim \in resident /\ IsList(e.rest)
        /\ Len(e.rest) = num_resident - 1 /\ Range(e.rest) = resident \ {e.victim}
    BY <1>1, <2>3, EvictionIsTracked
  <2>5. Count(room.out) = num_resident
    BY <2>2 DEF Count
  <2>6. QED
    BY <1>1, <1>2, <2>2, <2>4, <2>5
<1>3. CASE num_resident # max_resident
  <2>1. room.out = {} /\ room.rest = loaded
    BY <1>3 DEF Room
  <2>2. QED
    BY <1>1, <1>3, <2>1 DEF Count
<1>4. QED
  BY <1>2, <1>3

(* A fault of an unmapped page goes through: every assertion of the handler *)
(* holds, and the list has the page behind what remains of it.              *)
LEMMA MapFaultTracks ==
    ASSUME PagerTypeOK, TableMirrorsKernel, PolicyInv, MapFault
    PROVE  \E room \in Room :
             /\ IsList(room.rest) /\ Range(room.rest) = resident \ room.out
             /\ access.page \in Page \ resident
             /\ resident' = (resident \ room.out) \cup {access.page}
             /\ num_resident' = Len(room.rest) + 1 /\ num_resident' <= max_resident
             /\ loaded' = policy_page_mapped(room.rest, access.page)
             /\ status' = "running"
<1>1. access.page \in Page \ resident
  BY MapFaultShape, UnmappedNotResident
<1>2. status = "running" /\ (num_resident = max_resident => EvictionDefined(loaded))
  BY DEF MapFault
<1>3. PICK room \in Room :
         IF AssertionsHold(room.out, room.rest)
           THEN /\ \E saved \in Saved(room.out) :
                      Remap(access.page, room.out, saved)
                /\ loaded' = policy_page_mapped(room.rest, access.page)
                /\ status' = status
           ELSE /\ status' = "aborted"
                /\ UNCHANGED <<tableVars, storeVars, num_resident, loaded>>
  BY DEF MapFault
<1>4. /\ num_resident <= max_resident
      /\ room.out \subseteq resident
      /\ IsList(room.rest)
      /\ Range(room.rest) = resident \ room.out
      /\ Len(room.rest) + 1 = Count(room.out)
      /\ Len(room.rest) < max_resident
  BY <1>1, <1>2, RoomIsTracked
<1>5. AssertionsHold(room.out, room.rest)
  BY <1>1, <1>4 DEF AssertionsHold, HasRoom
<1>6. /\ resident' = (resident \ room.out) \cup {access.page}
      /\ num_resident' = Count(room.out)
      /\ loaded' = policy_page_mapped(room.rest, access.page)
      /\ status' = "running"
  BY <1>2, <1>3, <1>5 DEF Remap
<1>7. Len(room.rest) \in Nat /\ max_resident \in Nat
  BY <1>4, ListEntries DEF PolicyInv
<1>8. num_resident' = Len(room.rest) + 1 /\ num_resident' <= max_resident
  BY <1>4, <1>6, <1>7
<1>9. QED
  BY <1>1, <1>4, <1>6, <1>8

(* Every step keeps the list in step with the page table. *)
LEMMA NextPolicy ==
    PagerTypeOK /\ TableMirrorsKernel /\ PolicyInv /\ [VMNext]_vmVars => PolicyInv'
<1> SUFFICES ASSUME PagerTypeOK, TableMirrorsKernel, PolicyInv, [VMNext]_vmVars
             PROVE  PolicyInv'
  OBVIOUS
<1>1. UNCHANGED max_resident
  BY DEF VMNext, Issue, Perform, Fault, MapFault, MapFaultUndefined, AccessFault,
         WriteFault, Faulting, Tick, vmem_cleanup, vmVars, policyVars
<1>2. CASE UNCHANGED <<resident, num_resident, loaded, status>>
  BY <1>1, <1>2 DEF PolicyInv, PolicyTracksResident, NoAbort
<1>3. CASE status' \notin {"running", "aborted"}
  BY <1>1, <1>3 DEF PolicyInv, PolicyTracksResident, NoAbort
<1>4. CASE MapFault
  <2>1. PICK room \in Room :
             /\ IsList(room.rest) /\ Range(room.rest) = resident \ room.out
             /\ access.page \in Page \ resident
             /\ resident' = (resident \ room.out) \cup {access.page}
             /\ num_resident' = Len(room.rest) + 1 /\ num_resident' <= max_resident
             /\ loaded' = policy_page_mapped(room.rest, access.page)
             /\ status' = "running"
    BY <1>4, MapFaultTracks
  <2>2. access.page \in Page \ Range(room.rest)
    BY <2>1
  <2>3. /\ IsList(loaded') /\ Range(loaded') = resident' /\ Len(loaded') = num_resident'
    BY <2>1, <2>2, MappedIsTracked
  <2>4. QED
    BY <1>1, <2>1, <2>3 DEF PolicyInv, PolicyTracksResident, NoAbort, IsList
<1>5. CASE Tick /\ status' = "running"
  <2>1. /\ status = "running" /\ UNCHANGED <<resident, num_resident>>
        /\ loaded' = policy_timer_tick(loaded, accessed)
    BY <1>5 DEF Tick
  <2>2. /\ IsList(loaded) /\ Range(loaded) = resident /\ Len(loaded) = num_resident
        /\ num_resident <= max_resident
    BY <2>1 DEF PolicyInv, PolicyTracksResident, IsList
  <2>3. IsList(loaded') /\ Range(loaded') = resident /\ Len(loaded') = num_resident
    <3>1. CASE Walks(loaded)
      BY <2>1, <2>2, <3>1, WalkIsTracked
    <3>2. CASE ~Walks(loaded)
      BY <2>1, <2>2, <3>2 DEF policy_timer_tick
    <3>3. QED
      BY <3>1, <3>2
  <2>4. QED
    BY <1>1, <1>5, <2>1, <2>2, <2>3 DEF PolicyInv, PolicyTracksResident, NoAbort, IsList
<1>6. CASE Tick /\ status' # "running"
  BY <1>1, <1>6 DEF Tick, PolicyInv, PolicyTracksResident, NoAbort
<1>7. QED
  BY <1>1, <1>2, <1>3, <1>4, <1>5, <1>6
     DEF VMNext, Fault, Issue, Perform, MapFaultUndefined, AccessFault, WriteFault,
         vmem_cleanup, vmVars, tableVars, Live

(* The policy's list and the pager's invariants hold together. *)
LEMMA PolicyInvariant == VMSpec => [](PagerTypeOK /\ TableMirrorsKernel /\ PolicyInv)
BY InitPolicy, NextPolicy, PagerTypeCorrect, MirrorsAlways, PTL DEF VMSpec

(* The victim a policy picks is always resident, every resident page can be *)
(* picked, and physical memory is never exceeded.                           *)
THEOREM PolicyAlwaysTracks == VMSpec => []PolicyTracksResident
BY PolicyInvariant, PTL DEF PolicyInv

(* No assertion of the handler, of unmap_page, map_page or a policy fails.  *)
THEOREM NeverAborts == VMSpec => []NoAbort
BY PolicyInvariant, PTL DEF PolicyInv

-----------------------------------------------------------------------------
(* What CLRU's walk is for. *)

(* The idle pages are in the list, in front of the others, and there are    *)
(* none under another policy.                                               *)
IdleInFront ==
    status = "running" =>
        /\ idle \subseteq resident
        /\ \A i, j \in 1 .. Len(loaded) : i < j /\ loaded[j] \in idle => loaded[i] \in idle
        /\ policy # "CLRU" => idle = {}

(* What holds of the pager whenever it runs with the history. *)
ClockInv == PagerTypeOK /\ TableMirrorsKernel /\ PolicyInv /\ IdleInFront

(* The history leaves the pager's steps alone. *)
LEMMA ClockStep == [ClockNext]_clockVars => [VMNext]_vmVars
BY DEF ClockNext, clockVars, VMNext

(* At first no page is idle. *)
LEMMA InitClock == ClockInit => ClockInv
BY InitPagerType, InitMirrors, InitPolicy DEF ClockInit, ClockInv, IdleInFront

(* A tick that walks leaves the idle pages in front. *)
LEMMA TickIdle ==
    ASSUME ClockInv, Tick, status' = "running",
           idle' = IF Walks(loaded) THEN resident \ accessed ELSE idle
    PROVE  IdleInFront'
<1>1. /\ status = "running" /\ UNCHANGED <<policy, resident>>
      /\ loaded' = policy_timer_tick(loaded, accessed)
  BY DEF Tick, policyVars
<1>2. IsList(loaded) /\ Range(loaded) = resident
  BY <1>1 DEF ClockInv, PolicyInv, PolicyTracksResident, IsList
<1>3. CASE Walks(loaded)
  <2>1. /\ Len(loaded') = Len(loaded) /\ IsList(loaded') /\ Range(loaded') = resident
        /\ \A i, j \in 1 .. Len(loaded) :
             i < j /\ loaded'[j] \notin accessed => loaded'[i] \notin accessed
    BY <1>1, <1>2, <1>3, WalkIsTracked
  <2>2. \A i \in 1 .. Len(loaded) : loaded'[i] \in resident
    BY <2>1, ListEntries
  <2>3. idle' = resident \ accessed /\ policy = "CLRU"
    BY <1>3 DEF Walks
  <2>4. QED
    BY <1>1, <2>1, <2>2, <2>3 DEF IdleInFront
<1>4. CASE ~Walks(loaded)
  <2>1. UNCHANGED <<loaded, idle>>
    BY <1>1, <1>4 DEF policy_timer_tick
  <2>2. QED
    BY <1>1, <2>1 DEF ClockInv, IdleInFront
<1>5. QED
  BY <1>3, <1>4

(* A page mapped goes behind the idle ones, and the head is evicted.        *)
LEMMA MapFaultIdle ==
    ASSUME ClockInv, MapFault, idle' = idle \cap resident'
    PROVE  /\ IdleInFront'
           /\ \A p \in resident \ resident' : idle # {} => p \in idle
<1>1. PICK room \in Room :
             /\ IsList(room.rest) /\ Range(room.rest) = resident \ room.out
             /\ access.page \in Page \ resident
             /\ resident' = (resident \ room.out) \cup {access.page}
             /\ num_resident' = Len(room.rest) + 1 /\ num_resident' <= max_resident
             /\ loaded' = policy_page_mapped(room.rest, access.page)
             /\ status' = "running"
  BY MapFaultTracks DEF ClockInv
<1>2. /\ status = "running" /\ UNCHANGED policy
      /\ num_resident = max_resident => EvictionDefined(loaded)
  BY DEF MapFault, Faulting, policyVars
<1>3. /\ IsList(loaded) /\ Range(loaded) = resident
      /\ idle \subseteq resident
      /\ \A i, j \in 1 .. Len(loaded) : i < j /\ loaded[j] \in idle => loaded[i] \in idle
      /\ policy # "CLRU" => idle = {}
  BY <1>2 DEF ClockInv, PolicyInv, PolicyTracksResident, IsList, IdleInFront
<1>4. CASE idle = {}
  BY <1>1, <1>2, <1>4 DEF IdleInFront
<1>5. CASE idle # {}
  <2>1. policy = "CLRU"
    BY <1>3, <1>5
  <2> DEFINE rest == room.rest
             n == Len(rest)
  <2>2. n \in Nat
    BY <1>1, ListEntries
  <2>3. /\ \A i, j \in 1 .. n : i < j /\ rest[j] \in idle => rest[i] \in idle
        /\ room.out \subseteq idle
    <3>1. CASE num_resident = max_resident
      <4>1. PICK e \in Evictions(loaded) : room = [out |-> {e.victim}, rest |-> e.rest]
        BY <3>1 DEF Room
      <4>2. e = [victim |-> Head(loaded), rest |-> Tail(loaded)]
        BY <2>1 DEF Evictions
      <4>3. room.out = {Head(loaded)} /\ rest = Tail(loaded)
        BY <4>1, <4>2
      <4>4. Len(loaded) > 1 /\ Len(loaded) \in Nat
        BY <1>2, <1>3, <2>1, <3>1, ListEntries DEF EvictionDefined
      <4>5. loaded # <<>> /\ Head(loaded) = loaded[1]
        BY <4>4, EmptySeq
      <4>6. n = Len(loaded) - 1 /\ \A i \in 1 .. Len(loaded) - 1 : rest[i] = loaded[i + 1]
        BY <1>3, <4>3, <4>5, TailIsTracked
      <4>7. ASSUME NEW i \in 1 .. n, NEW j \in 1 .. n, i < j, rest[j] \in idle
            PROVE  rest[i] \in idle
        <5>1. i + 1 \in 1 .. Len(loaded) /\ j + 1 \in 1 .. Len(loaded) /\ i + 1 < j + 1
          BY <4>4, <4>6, <4>7
        <5>2. rest[i] = loaded[i + 1] /\ rest[j] = loaded[j + 1]
          BY <4>6
        <5>3. QED
          BY <1>3, <4>7, <5>1, <5>2
      <4>8. loaded[1] \in idle
        <5>1. PICK k \in 1 .. Len(loaded) : loaded[k] \in idle
          BY <1>3, <1>5, ListEntries
        <5>2. k = 1 \/ (1 < k /\ 1 \in 1 .. Len(loaded))
          BY <4>4
        <5>3. QED
          BY <1>3, <5>1, <5>2
      <4>9. QED
        BY <4>3, <4>5, <4>7, <4>8
    <3>2. CASE num_resident # max_resident
      <4>1. room.out = {} /\ rest = loaded
        BY <3>2 DEF Room
      <4>2. QED
        BY <1>3, <4>1
    <3>3. QED
      BY <3>1, <3>2
  <2> HIDE DEF rest, n
  <2>4. /\ Len(loaded') = n + 1
        /\ \A i \in 1 .. n : loaded'[i] = rest[i]
        /\ loaded'[n + 1] = access.page
    BY <1>1, MappedIsTracked DEF rest, n
  <2>5. access.page \notin idle
    BY <1>1, <1>3
  <2>6. \A i \in 1 .. n : rest[i] \in idle' <=> rest[i] \in idle
    <3>1. \A i \in 1 .. n : rest[i] \in resident \ room.out
      BY <1>1, ListEntries DEF rest, n
    <3>2. QED
      BY <1>1, <3>1
  <2>7. ASSUME NEW i \in 1 .. n + 1, NEW j \in 1 .. n + 1, i < j, loaded'[j] \in idle'
        PROVE  loaded'[i] \in idle'
    <3>1. j # n + 1
      BY <2>4, <2>5, <2>7
    <3>2. i \in 1 .. n /\ j \in 1 .. n
      BY <2>2, <2>7, <3>1
    <3>3. QED
      BY <2>3, <2>4, <2>6, <2>7, <3>2
  <2>8. QED
    BY <1>1, <1>2, <2>1, <2>3, <2>4, <2>7 DEF IdleInFront
<1>6. QED
  BY <1>4, <1>5

(* Every step keeps the idle pages in front and evicts none before them.    *)
LEMMA NextClock ==
    ASSUME ClockInv, [ClockNext]_clockVars
    PROVE  /\ ClockInv'
           /\ \A p \in resident \ resident' : idle # {} => p \in idle
<1>1. [VMNext]_vmVars
  BY ClockStep
<1>2. PagerTypeOK' /\ TableMirrorsKernel' /\ PolicyInv'
  BY <1>1, NextPagerType, NextMirrors, NextPolicy DEF ClockInv
<1>3. CASE Tick /\ idle' = IF Walks(loaded) THEN resident \ accessed ELSE idle
  <2>1. UNCHANGED resident
    BY <1>3 DEF Tick
  <2>2. IdleInFront'
    BY <1>3, TickIdle DEF IdleInFront
  <2>3. QED
    BY <1>2, <2>1, <2>2 DEF ClockInv
<1>4. CASE MapFault /\ idle' = idle \cap resident'
  BY <1>2, <1>4, MapFaultIdle DEF ClockInv
<1>5. CASE UNCHANGED clockVars
  BY <1>2, <1>5 DEF clockVars, vmVars, ClockInv, IdleInFront, policyVars, tableVars
<1>6. CASE /\ Issue \/ Perform \/ MapFaultUndefined \/ AccessFault \/ WriteFault
              \/ vmem_cleanup
           /\ idle' = idle \cap resident'
  <2>1. /\ UNCHANGED <<resident, policy>>
        /\ status' = "running" => status = "running" /\ UNCHANGED loaded
    BY <1>6 DEF Issue, Perform, MapFaultUndefined, AccessFault, WriteFault,
                vmem_cleanup, Faulting, policyVars, tableVars
  <2>2. status' = "running" => UNCHANGED idle
    BY <1>6, <2>1 DEF ClockInv, IdleInFront
  <2>3. IdleInFront'
    BY <2>1, <2>2 DEF ClockInv, IdleInFront
  <2>4. QED
    BY <1>2, <2>1, <2>3 DEF ClockInv
<1>7. QED
  BY <1>3, <1>4, <1>5, <1>6 DEF ClockNext, Fault

(* Under CLRU, however long the list and whenever the timer falls, a page   *)
(* that the last tick found idle is evicted before any it found accessed    *)
(* and before any mapped since.                                             *)
THEOREM IdleAlwaysEvictedFirst == ClockSpec => EvictsIdleFirst
<1> DEFINE First == \A p \in resident \ resident' : idle # {} => p \in idle
<1>1. ClockSpec => []ClockInv
  BY InitClock, NextClock, PTL DEF ClockSpec
<1>2. ClockInv /\ [ClockNext]_clockVars => [First]_clockVars
  BY NextClock
<1>3. QED
  BY <1>1, <1>2, PTL DEF ClockSpec, EvictsIdleFirst
==============================================================================
