# A verification project for RAntonello/Projects-and-Classes

The repository collects course and research code: eight assignments of a
systems course in C and assembly (`CS24/cs24hw1` .. `cs24hw8`), database
assignments in SQL and Java (`CS121`), and Python scripts for an image
classification project (`Perona_SURF_2015`).  These TLA+ modules model the
parts with state of their own: threads and semaphores, virtual memory, a cache
simulator, a Scheme interpreter with its collector, banking transactions, and
the smaller programs around them, down to the pure algorithms.

## 1. Inventory

### 1.1 Concurrent and reactive systems

**Preemptive threads** (`cs24hw7/sthread.c`, `glue.s`, `timer.c`).
*State*: the running thread `current`, a ready and a blocked queue, a state per
thread, the flag `scheduler_lock`, and each thread's saved context.
*Operations*: `sthread_create`, `sthread_start`, `sthread_yield`,
`sthread_block`, `sthread_unblock`, `__sthread_finish`, the scheduler itself,
and the SIGALRM handler, which calls the scheduler whenever it can get the lock.
*Hard*: a switch can happen between any two statements of any thread; the lock
is a flag that one thread sets and another clears; the timer is armed before
there is anything to schedule.
*Correct when*: queues and states agree, the scheduler is never entered twice,
a ready thread runs, and the process exits for the reason it prints.

**Semaphores** (`semaphore.c`).  *State*: the count and a list of waiting
threads.  *Operations*: wait and signal.  They use the thread package's lock,
block and unblock.  *Hard*: a waiter queues itself, changes state and yields in
separate statements; a woken thread does not own the unit it was woken for.
*Correct when*: the count never goes negative, no wakeup is lost and none hits
a thread that is not blocked.

**Bounded buffer and fibtest** (`bounded_buffer.c`, `fibtest.c`).  *State*: a
circular array with `first` and `count`, guarded by three semaphores.
*Operations*: add and take, called in endless loops.  *Hard*: two counting
semaphores and a mutex in a certain order; take signals `full` before it moves
`first`.  *Correct when*: it is a bounded first-in first-out queue, and
producers and consumers never all wait.

**Virtual memory** (`cs24hw8/virtualmem.c`).  *State*: a page table (resident,
accessed, dirty, permission), the kernel's mappings, the frames, the swap file,
and a count of resident pages.  *Operations*: init, the SIGSEGV handler (map,
evict, grant read, grant write), the SIGALRM handler, cleanup.  *Hard*: one
access takes up to three faults, ticks take permissions back in between, and
the accessed and dirty bits exist only because accesses fault.  *Correct when*:
the program sees plain memory and every access gets through.

**Page replacement policies** (`vmpolicy_fifo.c`, `vmpolicy_clru.c`,
`vmpolicy_random.c`).  *State*: the list of loaded pages.  *Operations*: page
mapped, choose and evict a victim, timer tick, cleanup.  Called by the pager's
handlers; they call back to read and clear accessed bits.  *Correct when*: the
list holds each resident page once, and CLRU evicts idle pages first.

**Cache simulator** (`cs24hw5/cachesim`).  *State*: per level, sets of lines
with tag, valid and dirty bits, a block and a time of access; the memory; every
level's counters.  *Operations*: read and write a byte, flush, reset the
statistics.  A level calls the next one byte by byte, so a miss may make the
next level evict in turn.  *Hard*: a line is written back to an address rebuilt
from its tag, before it is reused; the last block of the memory may be cut off.
*Correct when*: the chain is plain memory, whatever the geometry, and its
counters describe the same accesses at every level.

**Scheme interpreter** (`cs24hw4/scheme24`).  *State*: values, lambdas and
environments on a collected heap, a stack of evaluation contexts whose
registered C locals are the collector's roots.  *Operations*: read, evaluate
(with special forms, native and interpreted procedures), print, collect.
*Hard*: every evaluation ends in a collection, and whatever only a C local
holds is gone afterwards; every exit, early or not, must pop what it pushed.
*Correct when*: whether the interpreter collects makes no difference to what it
prints, and nothing leaks.

**Banking procedures** (`CS121/set8/cs121hw8/bank-procs.sql`).  *State*: the
accounts' balances, row locks, open transactions.  *Operations*: deposit,
withdraw and transfer, called by concurrent sessions.  *Hard*: a transfer
writes back two balances it read before, and two opposite transfers lock two
rows in opposite orders.  *Correct when*: each call takes effect in one step or
not at all, nothing is overdrawn, every call returns.

### 1.2 Sequential programs

| Part | State and operations | What makes it correct |
|---|---|---|
| Multimaps (hw5) | a tree of nodes by pointer or by index; add, contains, traverse, clear | both answer as the pairs added |
| Explicit allocator (hw3) | the bytes of a pool, in them blocks with header and footer; allocate with splitting, free with coalescing | blocks tile the pool between tags that agree, the client's data stay, the abstract pool is implemented |
| Pointer vector (hw4) | a growing and shrinking array; add, set, pop, compact | elements inside, NULL behind them |
| Exceptions (hw4) | a stack of jump buffers; TRY, CATCH, THROW, RETHROW, END_TRY | the innermost block that catches handles, no jump into a block that is gone |
| Cooperative threads (hw6) | two queues through one pair of links per thread; create, yield, block, unblock, finish | the links form the queues, nobody is lost, the exit code is true |
| Heap (hw5) | an array in simulated memory; add, take the least | a least value comes out |
| Branching processor (hw1) | registers, program counter; fetch, decode, execute, branch | its programs compute quotients and Fibonacci numbers |
| Branch statistics (CS121) | a table kept by triggers on another | equals the view |
| Stored functions (CS121), quicksort, shortest paths, run-length coding, assembly and bit functions | none | each equals a reference definition |

### 1.3 Not modelled

- *Floats, shapes, matrices* (`hw1/floats`, `hw4/classes`, `hw8/matrix.c`):
  formulas on IEEE numbers, which TLC has not.
- *`cpuinfo.c`, `myids.c`, usage texts, timing drivers*: pure output.
- *`vmalloc.c`, `unacceptable_myalloc.c`*: one pointer that only grows;
  *`myalloc_no_footers.c`* does not compile.
- *`passwords.sql`*: its point is hashing and salting of text.
- *Schemas, queries, the JDBC driver*: data, single queries, vendored classes.
- *`Perona_SURF_2015`*: calls of machine-learning libraries and generated pages.

`PROJECT.json` lists every component with its sources, and under `hazards`
everything in this code that is hard to test, at the line where it bites.

## 2. Modules

| Module | What it models |
|---|---|
| `SThread` | the thread package and its timer |
| `Semaphore` | extends it with wait and signal; `SemSpec` runs threads that call anything in any order |
| `BoundedBuffer` | extends it with add and take |
| `FibTest` | extends it with fibtest's producers and consumers |
| `BoundedQueue` | the abstract queue that `FibTest` implements |
| `PagePolicy` | the three policies as operators on a sequence |
| `VirtualMem` | extends it with the program, the handlers and the swap file |
| `ClockHistory` | adds a history variable to it, to state what CLRU is for |
| `Memory` | the abstract memory that `VirtualMem` implements |
| `Collector` | mark and sweep, on any heap of objects that point to others |
| `SchemeHeap` | extends it with values, environments and the evaluation stack |
| `SchemeNatives` | extends it with the procedures written in C |
| `SchemeEval` | extends it with reader, evaluator, special forms and top loop |
| `Scheme` | extends it with sessions: two builds read the same lines |
| `CacheSim` | a chain of caches over a memory, under any program |
| `PlainMemory` | the abstract memory that `CacheSim` implements |
| `BankProcs` | the banking procedures, one step per SQL statement |
| `Bank` | the abstract bank that `BankProcs` implements |
| `MyAlloc`, `Pool` | the allocator, and the abstract pool it implements |
| `MmImpl`, `OptMmImpl`, `PtrVector`, `CExcept`, `CoopThread`, `Heap`, `Processor`, `BranchStats` | one sequential program each |
| `Algorithms`, `StoredFunctions` | pure algorithms as operators on every input of a bound |
| `SchedulerProofs`, `FibTestProofs` | theorems about the threads: semaphores, queues and wakeups; the bounded buffer (extends the former) |
| `PolicyProofs` | theorems about the pager and its policies |
| `CacheProofs` | theorems about the chain of caches |
| `Loops` | the loop rule that `StructureProofs` and `CacheProofs` use |
| `StructureProofs` | theorems about the vector, the heap, the allocator, the multimap's tree and the collector |
| `ProgramProofs` | theorems about the branch statistics, the exceptions and the cooperative threads |
| `BankProofs` | theorems about the banking procedures |
| `MCSemaphore`, `MCFibTest`, `MCScheme`, `MCCacheSim`, `MCBank`, `MCPrograms` | instances for TLC |

### 2.1 Threads: how code becomes steps

There is one CPU, so two threads interleave only where the timer switches
them.  `code[t]` is what thread `t` still has to execute inside the library:
a sequence of instructions, one for each C statement or assembly routine that
touches shared state.  `semaphore_wait(s)` is
`lock; while; dec; unlock`; when the `while` finds the count zero it puts
`append; block; lock; schedule; unlock; lock` in front of itself, which is the
body of the C loop with `sthread_block` expanded.  A thread with an empty
`code` is in its own code and may call the library (`Calls` says which of yield
and return; `Client` adds wait and signal).

A `Tick` can come before any instruction.  It does what `timer_action` does: if
the lock is free, take it and put `schedule` in front of what the current
thread has left.  Nothing releases the lock when that thread resumes, because
nothing does in `glue.s`; the next unlock of some library call does.  A tick
that finds the lock held changes nothing and so is not a step.

Start-up is modelled statement by statement (`Create`, `StartTimer`,
`SetSchedulerContext`, `FirstSchedule`), with a tick in between ending the
process as the code would (`crashed` or `assert_failed`).

`fib(n)` is a function of `n`, so an element is the pair of producer and `n`.

### 2.2 Virtual memory: how handlers become steps

The SIGSEGV handler masks SIGALRM, and the SIGALRM handler touches no page of
the pool, so each is one atomic action.  The program issues an access
(`Issue`), faults until the kernel's mapping allows it (`MapFault`,
`AccessFault`, `WriteFault`), and performs it.  `MapFault` is the whole branch
of the handler, eviction, write-back, unmap, map, read from swap and the
policy's bookkeeping included, with every assertion on the way
(`AssertionsHold`).  Where the code reads memory nobody wrote, the step leads
to a status of its own: `MapFaultUndefined` for the list of one node,
`vmem_cleanup` for FIFO's last `next`, which ends either way.  A policy is
linked into a program, and a limit passed to `vmem_init`, once: the variables
`policy` and `max_resident` never change.

### 2.3 Caches: a state within a state

The simulator is sequential, and one access of the program runs through all
levels before it returns, so an access is one action.  A cache's state holds
the state of its next memory, and a C function is an operator on the cache's
geometry, its state and the functions of its next memory: a level is a record
of functions (`cache_base`, `memory_base`), as a `membase_t` is a struct of
function pointers that the level above calls through.  `make_cached_memory`
stacks the records from the memory up.  Loops over the bytes of a block call
the next level once per byte.  A failed assertion leaves the machine aborted.
Of the access times only the order in a set matters (`last_time_accessed` is a
place in it).  Every operation starts from cleared counters (`Uncounted`), because the totals
only grow; `StatisticsAgree` is linear in them, so it holds of totals when it
holds of what every operation adds.

### 2.4 Scheme: functions from machine to machine

The interpreter is sequential too.  A machine is a record of heap, stack,
global environment and what stopped it; each C function is an operator that
returns the next machine and a value.  An address is never used twice, so
freed memory is an address outside the heap, and touching it is the fault
`freed`.  Only the context locals through which the collector can learn
something are kept.  One turn of the top loop is one action, and the same line
is read by the machine that collects after every evaluation and by one that
never collects: what they print is compared.  A lambda's child environment
that is freed under a body of several expressions has a fault of its own,
`body`, because the code has that error (see the findings).

### 2.5 Bank: one step per statement

`SELECT ... FOR UPDATE` waits for the row and locks it, an `UPDATE` writes it,
`COMMIT` and `ROLLBACK` release it.  The database also rolls back one session
of a cycle of waiting ones (`DeadlockVictim`) and the session of a client that
goes away (`Disconnect`).  All of that is external and modelled by what the
procedures rely on.  `committed` is what the last commits left, and the
refinement maps it to the abstract accounts.

### 2.6 Small programs: one run for all

`MCPrograms` is a sum, not a composition: the initial state picks the
`subject`, and only that program's variables ever move.  One TLC run then
checks them all, each against its own properties, which name the subject they
are about where the others' variables would not satisfy them.  `Algorithms`
and `StoredFunctions` have no steps: their initial states are the inputs.

A C loop whose rounds change several variables is a recursive function on
records of those variables (`flush_cache` of `CacheSim`, `Compacted` of `PtrVector`, `sift_up` and
`sift_down` of `Heap`, `Split` of `MyAlloc`, `Descend` of `MmImpl`, `MarkRounds` of
`Collector`): the function calls itself last, on the next round's record.
Written this way they can be proved about, which RECURSIVE operators cannot.

The pool of `MyAlloc` is an array of bytes, because nothing in `myalloc.c` is
aligned and halving makes blocks of any size: a header or a footer is four
bytes that lie at any place, and a byte says which byte of which integer it
is, so that a store over part of a tag is seen.  `init_myalloc` counts the
place of the first footer in headers (`MEMORY_SIZE / sizeof(header)`,
`myalloc.c:85`).  When the pool's size is no multiple of four, as most sizes
are that the search of `testalloc.c` tries, that footer is up to three bytes early and
does not mirror the header at the pool's end.  Nothing reads it: a free looks
only at a footer in front of it, and the first allocation writes the tags of
the last block again.  `BlocksTilePool` says exactly this: every header is whole, and
every footer mirrors its header unless nothing was ever allocated in such a pool.

In every module, a definition whose name ends in `Mistaken` is not part of the
model: it is the definition after it with one plausible mistake, kept to show
that some property notices the difference.

## 3. Runs

| Run | Instance | Shows |
|---|---|---|
| `Semaphore_clients` | 3 threads, 2 semaphores (initially 1 and 0), counts up to 2 | atomic library, queues agree with states, truthful exits, waiters blocked, no lost wakeup |
| `FibTest_producers` | 2 producers, 1 consumer, 2 slots, arguments modulo 3 | mutual exclusion, refinement of `BoundedQueue`, consumers go on for ever (so no deadlock), ready threads run |
| `FibTest_consumers` | 1 producer, 2 consumers, 2 slots | the refinement with consumers racing |
| `VirtualMem_policies` | 4 pages, limit 2 or 3, all policies, 2 ticks per access | pager, kernel, swap and policy agree; fault bound; no abort; idle pages go first |
| `VirtualMem_memory` | 3 pages, limit 2 or 3, all policies, 1 tick per access | refinement of `Memory`; every access completes |
| `Scheme_sessions` | sessions of up to 3 of the lines in `MCScheme` | collection is invisible, nothing in use is freed, nothing leaks |
| `CacheSim_chains` | five machines of one and two levels, two byte values | refinement of `PlainMemory`, flush, least recently used, statistics |
| `Bank_sessions` | 2 sessions, 2 accounts and a missing one, amounts -1 to 2 | refinement of `Bank`, no overdraft, every call returns |
| `Programs` | the small programs of section 2.6 | the vector keeps its elements (`VectorKeepsElements`), the tree finds its pairs (`MapFindsItsPairs`) and both multimaps answer alike (`MultimapsAgree`), the heap hands out a least value, blocks keep their data and the pool of `Pool` is implemented, exceptions go to the innermost handler, links form queues, the triggers keep the view, and what is computed without steps of interest (`ProgramsCompute`: the processor's programs, the algorithms, the stored functions) equals its reference |

Three runs end in a counterexample, each for a sentence of the repository that
the code does not keep:

| Run | Finding |
|---|---|
| `SThread_timer` | a thread preempted in its own code resumes with the lock taken: unless somebody calls the library, `timer.c:4`'s "called periodically" ends with the first preemption |
| `VirtualMem_short_write` | a short write to the swap file goes unnoticed (`virtualmem.c:563`) |
| `Scheme_body` | the environment of a lambda with two body expressions is freed after the first, which `evaluator.c:527` hopes not to happen |

### 3.1 Findings without a run of their own

To keep the number of runs at a dozen, four properties that the code violates
have no run.  Their definitions remain, and a small change of a configuration
shows each counterexample again:

| Property | Change | Finding |
|---|---|---|
| `CurrentIsNeverNull` of `SThread` | an INVARIANT with `SThread_timer.cfg` | the timer is armed before a current thread exists; an interrupt then fails the assertion at `sthread.c:241` |
| `EachProducerAdds` of `FibTest` | a PROPERTY with `FibTest_producers.cfg` under `FibTimerSpec` | a signalled producer can lose the slot to the other one for ever |
| `FaultIsAnswered` of `VirtualMem` | an INVARIANT with `VirtualMem_short_write.cfg`, `Limits = {1}`, `ShortWrites = FALSE` | with a limit of one page, eviction goes through a `next` pointer that leads nowhere (`vmpolicy_clru.c:184`) |
| `CleanupReturns` of `VirtualMem` | a PROPERTY with `VirtualMem_short_write.cfg`, `Policies = {"FIFO"}`, `ShortWrites = FALSE` | FIFO's cleanup follows a pointer that was never written (`vmpolicy_fifo.c:73`) |

`SelfTransfers = TRUE` in `Bank_sessions.cfg` shows that a transfer from an
account to itself creates money (`bank-procs.sql:126`).  The other findings in
`PROJECT.json` are steps of the models that a run reaches and that its
properties allow for: a let without bindings pops its caller's context, a let
with three bindings and a binding of `display`'s NULL end in an assertion, a
block that reaches past the end of the memory aborts, a transfer of zero is
refused.  `BranchStats` keeps the table's average as the triggers compute it,
rounding at every statement; it drifts from the view's, so `StatsMatchView`
compares the other columns.

### 3.2 Bounds, and why they are enough

- *Three threads.*  A race on a semaphore needs a signaller, a waiter that was
  woken, and one that barges in.  `ThreadSymmetry` is sound there: no
  definition orders threads and no temporal property is checked in that run.
- *`MaxValue` = 2* bounds the counts that clients signal to; a count of two is
  what a waiter that looks only at the first unit would get wrong.
- *`Length` = 2*: the index wraps after two additions, and the buffer is empty,
  partly full and full.  *`Modulus` = 3* tells an element from its neighbours
  in a buffer of two.  (`FIB_MODULUS` itself is larger.)
- *Four pages, limits 2 and 3*: CLRU's walk starts at three loaded pages, and a
  fourth page is what forces it to evict.  A limit of one is the finding above.
- *`MaxTicks`* bounds the ticks that fall within one access.  The timer's
  period is 10 ms; an access that took several ticks would be an access whose
  few system calls each took longer than that.  Without any bound, ticks could
  take the permissions back for ever.
- *Two values* distinguish a page's old contents, or a byte's, from new ones.
- *`MaxTurns` = 3* lets a session define something, use or redefine it, and
  look at it again, with two collections of the prompt in between.  The lines
  are chosen so that every special form, every native procedure, every kind of
  error and a lambda of each shape occurs, and the files that they evaluate
  end in an error, are cut short inside a list or do not exist; a closure that keeps state (`c`)
  lives across turns.
- *Caches*: blocks larger and smaller than the next level's, one and two sets,
  one and two lines; four addresses make every set evict.  The memory of three
  bytes ends inside a block.
- *`MaxBalance`* stops deposits from growing the balances; each account may
  still be overdrawn by one call and by two together.  Two sessions and two
  accounts are what opposite transfers need to wait for each other.
- *`Programs`*: four threads put one between two others in a queue; three nested
  TRY blocks leave one to throw over; seven values fill three levels of a heap, and six leave a parent
  with one child; six elements over a capacity of one make the vector double three times and halve (16 and 17 in the code);
  pools of 14 to 77 bytes, three of them no multiple of a header, hold one to
  several blocks, with and without a rest too small to split, and the larger
  two are split into odd halves; the client has up to `MaxUsed` = 8 bytes in
  use, in blocks of one or two, and a sequence ends at `MaxAllocated` = 10 bytes
  asked for, so that it frees blocks and allocates again (a sequence of the
  program ends at ten times its memory); sequences of six are sorted and coded; five employees
  make every tree with a fork below a chain.  With registers of 5 bits every
  dividend and divisor of the divider, zero and the greatest included, and
  every argument of the Fibonacci program is run; `MaxExecuteTime` = 100 lets
  some of them terminate and cuts others short.
- Deadlock checking is off: the programs end, by completing, by being declared
  deadlocked or by an assertion, and the modules make the wrong endings
  properties of their own (`NoAbort`, `ExitsAreTruthful`, `KeepsConsuming`,
  `EveryCallReturns`).

### 3.3 Fairness

- `WF(Run)`, `WF(FibRun)`: the CPU executes the current thread's next
  instruction.  Which thread is current is the scheduler's doing, so no
  fairness per thread is assumed.
- `SF(Interrupt)`, only in `SThreadSpec` and `FibTimerSpec`: the interval timer
  keeps firing, so a lock that is free again and again is at some time found
  free.  The properties of `FibSpec` hold without it.  The starvation findings
  are made with it, so they do not rest on a timer that stopped.
- `WF(Perform \/ Fault)`: a faulting instruction is retried and the kernel
  delivers the signal.
- `SF(Step(s))`, `WF(DeadlockVictim(s))` in `BankProcs`: the database executes
  the statements of a session that does not wait, hands a released row to a
  waiting session in turn, and breaks deadlocks.  Strong fairness is for the
  turn: a row may be released and taken by another session again and again.
  Nothing is assumed of clients.

## 4. What is proved

The proofs hold for every set of threads, semaphores, producers, consumers,
pages, values, accounts, branches and sessions, every buffer length, every limit, every
policy, every size of vector, heap and pool, every tree, and every chain of caches of any
geometry that `make_cached_memory` accepts.  They assume the modules' named assumptions (`SThreadAssumption`,
`SemaphoreAssumption`, `BufferAssumption`, `FibAssumption`, `PolicyAssumption`,
`VirtualMemAssumption`, `BankAssumption`, `StatsAssumption`,
`VectorAssumption`, `HeapAssumption`, `AllocAssumption`, `KeyAssumption`,
`CacheAssumption`), for the memory theorem
`~ShortWrites`, for the bank's refinement `SelfTransfers = FALSE`, and for the
cooperative threads that `NULL` is neither a thread nor an exit code.
`SemaphoreAssumption` only says that the names of the clients' own statements
(`ClientOps`) are not names of the library's instructions, so that the theorems
about semaphores hold in whatever program uses them.

| Property | Checked by | Theorem |
|---|---|---|
| `OperationsAreAtomic`, `SemTypeOK` | `Semaphore_clients` | `OperationsAlwaysAtomic`, `SemaphoreTypeCorrect` |
| `QueuesMatchStates`, `ExitsAreTruthful` | `Semaphore_clients` | `QueuesAlwaysMatch`, `ExitsAlwaysTruthful` |
| `WaitersAreBlocked`, `NoLostWakeup`, `DeadlockedOnZero` | `Semaphore_clients` | `WaitersAlwaysBlocked`, `WakeupsNeverLost`, `DeadlockOnlyOnZero` |
| `OneThreadInSection`, `ImplementsQueue` | `FibTest_producers`, `FibTest_consumers` | `OneThreadAlwaysInSection`, `BufferImplementsQueue` |
| `TableMirrorsKernel`, `CleanPagesAreSaved`, `ImplementsMemory`, `FaultsBounded` | `VirtualMem_policies`, `VirtualMem_memory` | `MirrorsAlways`, `SavedAlways`, `PagerImplementsMemory`, `FaultsAlwaysBounded` |
| `PolicyTracksResident`, `NoAbort`, `EvictsIdleFirst` | `VirtualMem_policies` | `PolicyAlwaysTracks`, `NeverAborts`, `IdleAlwaysEvictedFirst` |
| `NoOverdraft`, `ImplementsBank` | `Bank_sessions` | `NeverOverdrawn`, `ProceduresImplementBank` |
| `HandledInnermost` | `Programs` | `AlwaysHandledInnermost` |
| `ThreadsKeepTheirPlaces` | `Programs` | `ThreadsAlwaysKeepTheirPlaces` |
| `StatsMatchView` | `Programs` | `StatisticsMatch` |
| `VectorKeepsElements` | `Programs` | `VectorAlwaysKeeps` |
| `HandsOutLeast` | `Programs` | `HeapHandsOutLeast` |
| `AllocatorKeepsBlocks`, `AllocatorImplementsPool` | `Programs` | `AllocatorIsCorrect`, `AllocatorIsAPool` |
| `MapFindsItsPairs` | `Programs` | `MapAlwaysFinds` |
| `ImplementsPlainMemory`, `FlushReachesNextLevel` | `CacheSim_chains` | `ChainIsPlainMemory`, `FlushAlwaysReaches` |
| `StatisticsAgree`, `KeepsRecentBlocks` | `CacheSim_chains` | `StatisticsAlwaysAgree`, `AlwaysKeepsRecent` |

`AssertionsHold` (`SchedulerProofs`) has no run of its own: once the threads
run, no step ends in a failed assertion.  `CollectsExactlyGarbage`
(`StructureProofs`) is about the collector's operators and has none either: a
collection keeps exactly the objects that can be reached from the roots, and
leaves those as they were.

**`OperationsAlwaysAtomic`, `SemaphoreTypeCorrect`** (`SchedulerProofs`).
`OperationsAreAtomic` says a step on the queues or on a semaphore is only ever
next in the running thread, with the lock held; `SemTypeOK` includes that no
count goes negative.  Neither is inductive: both depend on what threads will
execute later, because a context switch happens in the middle of a call.
`SemInv` adds `Programs`: in every thread's remaining code, a critical
instruction follows one that leaves the lock held, and a decrement follows the
look at the same semaphore (`WellFormed`).  Three lemmas carry the argument:
tails and concatenations of well-formed programs are well formed, and executing
an instruction leaves the other threads outside any critical step, since the
lock was held by this one.  `DecrementsPositive` (a decrement about to happen
has a positive count) then gives `SemTypeOK`.  The interesting case is the
timer: the lock was free, so the preempted thread's next step was not critical
and may have the scheduler put in front.

**Queues and wakeups** (`SchedulerProofs`).  None of the properties of the
queues and of the waiting lists is inductive, and they need one another, so
that one invariant, `SchedInv`, carries them all.  Its parts:
- `QueueInv`: `QueuesMatchStates` and the exits, with the fact that the program
  has created all its threads before the scheduler starts.
- `Shapes`: what a thread still has to execute in the library is the tail of one
  of three programs (a wait, a signal, the end of a thread), perhaps with a
  preemption in front.  A thread between two statements can then only be at one
  of a handful of places.
- `ListInv`: a thread on a semaphore's list is about to block with the lock
  held, on its way into the scheduler with the lock held, or switched out and
  blocked; a thread past its `append` is on the list, once.
- `AppendsAtZero`: a thread that will append itself has seen zero and still
  holds the lock.  Without it the timer could seem to slip a signal in between.
- `LeavingInv`: a thread that has finished only has the way into the scheduler
  left, so that a freed thread is never resumed.
- `WakeupInv`: a count.  While anyone waits, value plus signals that will still
  be added is at most the number of those who will look at the semaphore again
  or wake someone who will.  `NoLostWakeup` follows; counting the pending
  signals makes it inductive.

The proof goes through the instructions of `Run`, `Interrupt` and
`SemaphoreStep` one at a time, one lemma for each part an instruction disturbs.
`DeadlockedOnZero` is then arithmetic: in a deadlock nobody is left to look or
wake, so the value is zero.

**`OneThreadAlwaysInSection`, `BufferImplementsQueue`** (`FibTestProofs`).  The
invariant `FibInv` accounts for every slot and element of the buffer:
- `FibShapes`: a producer is at one of the places of its 19 instructions, a
  consumer too, perhaps with library code in front.
- `MutexInv`: the value of `buff_protect` plus the threads inside is one.
- `CreditInv`: the value of `full`, the producers that have taken a slot and not
  counted it, `count`, and the consumers that have emptied a slot and not given
  it back make `Length`; likewise `empty` against `count`.  So the slot written
  is free and the element read is there.
- `ElementsInv`: what a producer inside has stored is still in its slot.

Seen through `queue` (the counted slots from `first` on, less one that has been
read but not uncounted), `CountUp` is `Put`, `GetElement` is `Take`, and every
other step, of any thread and of the timer, is a stutter; in particular moving
`first` only after the slot was given back is not seen, because the mutex is
still held and the view already starts at the next slot.

**`MirrorsAlways`, `SavedAlways`, `PagerImplementsMemory`,
`FaultsAlwaysBounded`** (`PolicyProofs`).  `PagerTypeOK` and
`TableMirrorsKernel` are inductive together: each handler changes table and
mapping alike.  `CleanPagesAreSaved` needs them (a page becomes dirty before it
can be written).  From the three follows that each step, seen through
`Contents` (the frame of a resident page, the swap copy of another), is a step
of `Memory` or a stutter: unmapping throws away only what the swap file has.
The fault bound is a counting argument over the permission levels.  None of the
four needs the policy's list: the handler's assertions stop the program before
a wrong victim is unmapped.

**`PolicyAlwaysTracks`, `NeverAborts`, `IdleAlwaysEvictedFirst`**
(`PolicyProofs`).  The list holds each resident page once: an eviction removes
the entry that the handler then unmaps, a mapping appends a page that was not
resident.  For RANDOM the victim's place takes the last entry.  The hard step is
CLRU's walk over the list: `PlaceAfterTick` gives each page its place after the
walk by counting the pages it passes.  That this is a permutation is shown by
counting: the places are within the list, two pages never get the same one, and
an injection of a finite set into itself misses nothing.  `NoAbort` follows
since the only assertions left ask for a list that is not empty and a victim
that is resident.  `EvictsIdleFirst` needs `IdleInFront`: the pages the last
walk found idle form a front part of the list, until the next walk.

**`NeverOverdrawn`, `ProceduresImplementBank`** (`BankProofs`).  Neither
follows from the balances alone: a transfer writes `current_balance_1 - amount`
long after it read `current_balance_1`.  The invariant `BankInv` says what the
row locks are for.  `ReadsAreLocked`: what a session has read, it has locked,
and it is still the committed balance.  `RowsAreAccounted`: a row nobody has
locked holds its committed balance, and a locked one what its session's updates
so far have made of it (`Pending`).  `UpdatesAreTested`: a session updates only
after its tests passed.  `LocksAreWanted` and `CallsAreProper` bound whose
locks and calls there are.  Every conjunct has a step per statement.  The
balance written is then the committed one less an amount it covers, and the
commit, seen on `committed`, is one `Deposit`, `Withdraw` or `Transfer` of
`Bank`; every other statement is a stutter, a call or a failed return.  A
transfer to the same account breaks exactly this: its second update writes a
balance that its first has changed, hence the assumption.

**`AlwaysHandledInnermost`** (`ProgramProofs`).  `ExceptInv` says that the stack
of jump buffers is exactly the frames still trying, in order
(`StackMatchesTries`), that only the last frame can just have caught something
(`OnlyLastCaught`), that a frame past its TRY knows its exception
(`ExceptionsKnown`), and that an exception rethrown on its way is on its way to
the innermost frame able to take it (`OnItsWay`).  The step that needs all of
them is a throw: the frames it unwinds are those above the buffer it pops, and
none of those that remain has caught anything.

**`ThreadsAlwaysKeepTheirPlaces`** (`ProgramProofs`).  `Makes` says that the
pointers of a queue make a given list in both directions.  Three lemmas show
that `queue_append`, `queue_take` and `queue_remove` turn the pointers of a list
into those of the list with a thread appended, its head gone or a thread gone
from anywhere, and touch the links of that list's threads only
(`Elsewhere`).  The two queues share one pair of links per thread, but no thread
is in both (`Consistent`), so each operation leaves the other queue as it was,
whatever stale links the moved thread carries.

**`StatisticsMatch`** (`ProgramProofs`).  The view's columns are sums,
minima and maxima over the accounts of a branch, the table's are changed by one
account at a time.  The lemmas say what adding, removing or changing one
account does to a sum over a finite set and to its least and greatest member;
the triggers' cases (the last account of a branch, the least one removed, an
account that moves) are then one step each.

**Loops** (`Loops`).  A recursive function is known to the provers
only once it is shown to exist.  `LoopDefined` shows it for every function that
calls itself last on a state of a smaller measure, whatever the states are, and
`LoopRule` is the loop rule of program proofs: an invariant that the first state
has and that each round keeps holds when the loop stops.  Both go by the least
counterexample among the measures.  The theorems below are loop invariants
placed inside inductive invariants.

**`VectorAlwaysKeeps`**.  `VectorInv`: the elements are within the capacity and
NULL behind the size.  Halving stops before it would cut an element off.  The
two indices of compaction either move on or exchange a gap for a pointer;
`CompactInv` says that nothing in front of the first is empty, nothing behind
the size is not, and that every pointer is there as often as before.

**`HeapHandsOutLeast`**.  `HeapInv`: no value is less than its parent's, and the
array's values are those added and not taken, as often as they were.  During
`sift_up` and `sift_down` the order holds everywhere but at one place, and the
place's parent is no greater than its children; the place moves until nothing
is wrong with it.  `RootIsLeast` climbs from any value to the root.

**`AllocatorIsCorrect`, `AllocatorIsAPool`**.  `AllocInv`: the headers, read
from the start of the pool, are a set of places that tile it (`Tiles`), each
with all its bytes and its footer (`Mirrored`), or the pool is as
`init_myalloc` left it, one free block with the footer where that put it; every block the client holds is one of them, allocated and with the
client's data in it, and no other is allocated (`Serves`).  `Carve` and `Join`
show that replacing one tile by two, or two neighbours by one, leaves a tiling;
everything that splitting and coalescing do is one of the two, repeated.  That a
store of four bytes disturbs no other tag and no client's data is arithmetic
on their distances, which the sizes of the blocks give.  Seen through the blocks in use, an allocation is a `Malloc` of `Pool` of some place that is
free there, and a failed one happens only where the pool may fail.

**`MapAlwaysFinds`**.  That a search tree is ordered is a statement about whole
subtrees, and would need induction over the tree.  The invariant used instead
is what the order is for: the search for its key, started at the root, reaches
every node (`AllFound`).  A new node is hung where the search for its key ended,
so that it is found, and any other search passes that place or goes the same
way as before.

**`CollectsExactlyGarbage`**.  Between two rounds of marking, everything a
marked object points to is marked or among the next to be; what is marked is in
every closed set that contains the roots.  When nothing is left to mark, the
marked set is the least such set.

**`ChainIsPlainMemory`, `FlushAlwaysReaches`, `StatisticsAlwaysAgree`**
(`CacheProofs`).  The argument is modular, as the code is.  `Serves(A, b, q)` is
the contract between a level with the functions `b` and whoever calls it, about
the addresses `A` of the memory: `q` names the level's sound states and the
bytes that it shows in each (`view`); a read returns the byte shown and shows
the same afterwards, a write changes that byte only, a failed assertion happens
only at an address out of reach, and a read is counted once.
- `MemoryServes`: the memory keeps the contract, showing its bytes.
- `CacheServes`: a cache keeps it if its next level does.  Its sound states are
  those in which no block is in two lines (`Unique`), every block in a line is
  within reach (`Fitting`), a clean line has the bytes that the next level shows
  (`CleanIsSame`), the next level is in a sound state, and the counters agree
  (`Balanced`).  It shows the byte of the line that holds an address, or what
  the next level shows.  A load, an eviction and a write back change lines and
  next level, but not what is shown: a line can be given up because it is clean
  or was just written back.
- `LevelsServe`: so every level of every chain does, by induction from the
  memory upwards.

The invariant of the program, `CacheInv`, is only that the first level is in a
sound state; the levels below are in it.  The bytes shown by level 1 are then
the abstract memory, and a flush is a loop after which every byte in a line is
also what the next level shows (`FlushedTo`), seen from the levels above as no
change at all (`FlushesLevel`).  A flush writes only blocks in lines, which are
within reach, so it fails no assertion.

**`AlwaysKeepsRecent`** (`CacheProofs`).  `HistoryInv`, added to `CacheInv`, says
of each set of the first cache that no two lines have the same place in the
order, that the history remembers exactly the blocks in lines, and that the
tags remembered as accessed since a block are those of the lines whose place
is later (`Recalls`).  An access moves one line to the end of the order.  A
block is forgotten when as many others were accessed since as the set has
lines; since all tags differ, counting shows that this is the one block that
was accessed longest ago, and only when all lines were valid: the victim.

**Only model-checked**, and why:
- all liveness (`KeepsConsuming`, `ReadyThreadRuns`, `AccessCompletes`,
  `EveryCallReturns`), which is out of the prover's reach;
- the properties of the Scheme sessions, whose evaluator calls itself from
  everywhere (RECURSIVE operators); the collector under it is proved;
- `MultimapsAgree`: the order of a traversal is an induction over trees, and
  `OptMmImpl` is recursive;
- `ProgramsCompute`: `Processor` uses `Bitwise`, `Algorithms` compares recursive
  definitions with references, an induction over data, and `StoredFunctions`
  walks trees of employees.

## 5. What the models leave out

- A tick after `current` is set and before the first thread's context is
  restored; it saves the start-up stack as that thread's context.
- The non-reentrant C library calls (`printf`, `malloc`, `free`) that a thread
  may be preempted in.
- The doubly linked queues of hw7 and of the policies.  They are sequences
  there; the same links are modelled in `CoopThread`.
- Failures of `mmap`, `mprotect` and `read`, which the code answers by
  aborting, and the SIGSEGV for an address outside the pool, which it reports
  before aborting.
- A limit of zero pages; a tick inside `vmem_cleanup`'s loop.
- `sthread_create` after the scheduler has started: no program here does so.
- Scheme: characters (a text is a sequence of tokens), floating point (numbers
  are integers), failed allocation and failed reads of an open file, the rest of a
  line after its first expression, C stack overflow.
- Caches: `print_stats` and freeing a chain.
- Bank: the OUT parameter `status`, which only names the reason of a call that
  did nothing.
- `setjmp`'s saved registers: a frame number stands for the frame they restore.
- The array multimap's behaviour while it is empty and one past a value list,
  which depends on memory nobody wrote (findings).

## 6. What is left

1. *Theorems*: the order of the multimap's traversal.
2. *Links of the policies' lists*, so that a tick inside cleanup can be a step.
3. *A second level of detail for the collector*: marking and sweeping as steps
   over the vectors, with compaction from `PtrVector`.
