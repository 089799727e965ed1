------------------------------ MODULE MCPrograms ------------------------------
(* The sequential components of the assignments in one model: a behaviour is *)
(* a run of one of them, its subject, and leaves the variables of the others *)
(* at their first values.                                                    *)
EXTENDS CExcept, CoopThread, BranchStats, PtrVector, Heap, MyAlloc, MmImpl

CONSTANTS Width, SignBit, MaxExecuteTime,           \* processor
          Number, MaxLength, Weight, INFINITY, Nodes, MaxCount, \* algorithms
          Employees, Dates                          \* stored functions

ASSUME ProgramsAssumption ==
    /\ {Width, MaxExecuteTime, FirstCapacity} \subseteq Nat \ {0}
    /\ SignBit = Width - 1

VARIABLES subject,
          arr, pairs,
          program, pc, rf, t, outcome, initial,
          input, tables

OptMm == INSTANCE OptMmImpl WITH added <- pairs
Proc == INSTANCE Processor
Algo == INSTANCE Algorithms
Stored == INSTANCE StoredFunctions

optMmVars == <<arr, pairs>>
procVars == <<program, pc, rf, t, outcome, initial>>
vars == <<subject, mmVars, optMmVars, vectorVars, exceptVars, coopVars,
          heapVars, procVars, statsVars, input, tables, allocVars>>

Init ==
    /\ subject \in {"multimap", "array multimap", "vector", "exceptions",
                    "threads", "heap", "processor", "statistics",
                    "algorithms", "functions", "allocator"}
    /\ init_multimap /\ OptMm!init_multimap /\ pv_init
    /\ ExceptInit /\ CoopInit /\ init_heap
    /\ IF subject = "processor" THEN Proc!Init
       ELSE /\ program = NULL /\ pc = NULL /\ rf = NULL
            /\ t = NULL /\ outcome = NULL /\ initial = NULL
    /\ IF subject = "statistics" THEN StatsInit
       ELSE account = << >> /\ mv = << >> /\ changes = 0
    /\ IF subject = "algorithms" THEN Algo!Init ELSE input = NULL
    /\ IF subject = "functions" THEN Stored!Init ELSE tables = NULL
    /\ IF subject = "allocator" THEN AllocInit
       ELSE /\ MEMORY_SIZE = 0 /\ mem = NULL /\ live = << >>
            /\ used_memory = 0 /\ total_allocated = 0 /\ wanted = NULL /\ failed = FALSE

Next ==
    /\ UNCHANGED <<subject, input, tables>>
    /\ \/ subject = "multimap" /\ MmNext
          /\ UNCHANGED <<optMmVars, vectorVars, exceptVars, coopVars, heapVars,
                         procVars, statsVars, allocVars>>
       \/ subject = "array multimap" /\ OptMm!Next
          /\ UNCHANGED <<mmVars, vectorVars, exceptVars, coopVars, heapVars,
                         procVars, statsVars, allocVars>>
       \/ subject = "vector" /\ VectorNext
          /\ UNCHANGED <<mmVars, optMmVars, exceptVars, coopVars, heapVars,
                         procVars, statsVars, allocVars>>
       \/ subject = "exceptions" /\ ExceptNext
          /\ UNCHANGED <<mmVars, optMmVars, vectorVars, coopVars, heapVars,
                         procVars, statsVars, allocVars>>
       \/ subject = "threads" /\ CoopNext
          /\ UNCHANGED <<mmVars, optMmVars, vectorVars, exceptVars, heapVars,
                         procVars, statsVars, allocVars>>
       \/ subject = "heap" /\ HeapNext
          /\ UNCHANGED <<mmVars, optMmVars, vectorVars, exceptVars, coopVars,
                         procVars, statsVars, allocVars>>
       \/ subject = "processor" /\ Proc!Next
          /\ UNCHANGED <<mmVars, optMmVars, vectorVars, exceptVars, coopVars,
                         heapVars, statsVars, allocVars>>
       \/ subject = "statistics" /\ StatsNext
          /\ UNCHANGED <<mmVars, optMmVars, vectorVars, exceptVars, coopVars,
                         heapVars, procVars, allocVars>>
       \/ subject = "allocator" /\ AllocNext
          /\ UNCHANGED <<mmVars, optMmVars, vectorVars, exceptVars, coopVars,
                         heapVars, procVars, statsVars>>

Spec == Init /\ [][Next]_vars

----------------------------------------------------------------------------

\* The array of nodes of opt_mm_impl.c, once it holds a pair, finds every key
\* and pair that was added through all its reallocations, and both multimaps
\* visit their pairs in the order of the keys.
MultimapsAgree ==
    /\ TraversesInOrder
    /\ subject = "array multimap" => OptMm!FindsWhatWasAdded

\* The processor's programs leave the right results, and each pure algorithm
\* and stored function computes what its reference definition says.
ProgramsCompute ==
    /\ subject = "processor" => Proc!ProgramsCompute
    /\ subject = "algorithms" => Algo!AlgorithmsAgree
    /\ subject = "functions" => Stored!FunctionsAgree
=============================================================================
