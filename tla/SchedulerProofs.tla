--------------------------- MODULE SchedulerProofs ---------------------------
(****************************************************************************)
(* Theorems about the threads and semaphores of CS24/cs24hw7, for every set *)
(* of threads and semaphores and every initial value: the operations on a   *)
(* semaphore are atomic under preemption and drive none below zero; the     *)
(* queues and lists match the states of the threads, the scheduler's exits  *)
(* are truthful, and no wakeup is lost.                                     *)
(****************************************************************************)
EXTENDS Semaphore, SequenceTheorems, FiniteSetTheorems, TLAPS

(* The operations after which the lock is held. *)
Cover == (Critical \ {"schedule"}) \cup {"lock"}

(* What a thread has left to execute: every critical step comes right after *)
(* a step that leaves the lock held, every decrement after the look at the  *)
(* same semaphore.                                                          *)
WellFormed(c) ==
    /\ c \in Seq(Instruction)
    /\ \A k \in 2 .. Len(c) : c[k][1] \in Critical => c[k - 1][1] \in Cover
    /\ \A k \in 2 .. Len(c) : c[k][1] = "dec" => c[k - 1] = <<"while", c[k][2]>>

-----------------------------------------------------------------------------
(* Sequences of instructions. *)

(* Only the operations of a semaphore have an operand, and they all have.   *)
LEMMA OperandOfInstruction ==
    ASSUME NEW i \in Instruction
    PROVE  /\ i[1] \in SemaphoreOps => i[2] \in Semaphores /\ i = <<i[1], i[2]>>
           /\ i[1] \notin SemaphoreOps => i = <<i[1]>>
<1>1. CASE \E op \in ThreadOps \cup ClientOps : i = <<op>>
  <2>1. i[1] \notin SemaphoreOps /\ i = <<i[1]>>
    BY <1>1, SemaphoreAssumption DEF ThreadOps, SemaphoreOps
  <2>2. QED
    BY <2>1
<1>2. CASE \E op \in SemaphoreOps, s \in Semaphores : i = <<op, s>>
  BY <1>2
<1>3. QED
  BY <1>1, <1>2 DEF Instruction

(* Taking off the first instruction shifts the others. *)
LEMMA TailWellFormed ==
    ASSUME NEW c, WellFormed(c), c # <<>>
    PROVE  /\ WellFormed(Tail(c))
           /\ Tail(c) # <<>> => Len(c) > 1 /\ Head(Tail(c)) = c[2]
<1> DEFINE d == Tail(c)
<1>1. c \in Seq(Instruction) /\ d \in Seq(Instruction)
  BY HeadTailProperties DEF WellFormed
<1>2. Len(d) = Len(c) - 1 /\ \A k \in 1 .. Len(d) : d[k] = c[k + 1]
  BY <1>1, HeadTailProperties
<1>3. \A k \in 2 .. Len(d) : k + 1 \in 2 .. Len(c) /\ d[k] = c[k + 1] /\ d[k - 1] = c[k]
  BY <1>1, <1>2, LenProperties
<1>4. WellFormed(d)
  <2>1. \A k \in 2 .. Len(d) : d[k][1] \in Critical => d[k - 1][1] \in Cover
    <3> SUFFICES ASSUME NEW k \in 2 .. Len(d), d[k][1] \in Critical
                 PROVE  d[k - 1][1] \in Cover
      OBVIOUS
    <3>1. k + 1 \in 2 .. Len(c) /\ c[k + 1][1] \in Critical /\ (k + 1) - 1 = k
      BY <1>3
    <3>2. c[k][1] \in Cover
      BY <3>1 DEF WellFormed
    <3>3. QED
      BY <3>2, <1>3
  <2>2. \A k \in 2 .. Len(d) : d[k][1] = "dec" => d[k - 1] = <<"while", d[k][2]>>
    <3> SUFFICES ASSUME NEW k \in 2 .. Len(d), d[k][1] = "dec"
                 PROVE  d[k - 1] = <<"while", d[k][2]>>
      OBVIOUS
    <3>1. k + 1 \in 2 .. Len(c) /\ c[k + 1][1] = "dec" /\ (k + 1) - 1 = k
      BY <1>3
    <3>2. c[k] = <<"while", c[k + 1][2]>>
      BY <3>1 DEF WellFormed
    <3>3. QED
      BY <3>2, <1>3
  <2>3. QED
    BY <1>1, <2>1, <2>2 DEF WellFormed
<1>5. d # <<>> => Len(c) > 1 /\ Head(d) = c[2]
  <2> SUFFICES ASSUME d # <<>> PROVE Len(c) > 1 /\ Head(d) = c[2]
    OBVIOUS
  <2>1. 1 \in 1 .. Len(d)
    BY <1>1, EmptySeq, LenProperties
  <2>2. QED
    BY <1>1, <1>2, <2>1, HeadTailProperties
<1>6. QED
  BY <1>4, <1>5

(* Two programs in a row, when the second does not begin with a critical    *)
(* step or the first leaves the lock held for it.                           *)
LEMMA ConcatWellFormed ==
    ASSUME NEW c, NEW d, WellFormed(c), WellFormed(d), c # <<>>,
           d # <<>> => d[1][1] # "dec"
                         /\ (d[1][1] \in Critical => c[Len(c)][1] \in Cover)
    PROVE  /\ WellFormed(c \o d)
           /\ c \o d # <<>> /\ (c \o d)[1] = c[1]
           /\ d # <<>> => (c \o d)[Len(c \o d)] = d[Len(d)]
<1> DEFINE e == c \o d
<1>1. c \in Seq(Instruction) /\ d \in Seq(Instruction) /\ e \in Seq(Instruction)
  BY ConcatProperties DEF WellFormed
<1>2. Len(c) \in Nat \ {0} /\ Len(d) \in Nat /\ Len(e) = Len(c) + Len(d)
  BY <1>1, LenProperties, EmptySeq, ConcatProperties
<1>3. \A k \in 1 .. Len(e) : e[k] = IF k <= Len(c) THEN c[k] ELSE d[k - Len(c)]
  BY <1>1, ConcatProperties
<1>4. ASSUME NEW k \in 2 .. Len(e)
      PROVE  /\ e[k][1] \in Critical => e[k - 1][1] \in Cover
             /\ e[k][1] = "dec" => e[k - 1] = <<"while", e[k][2]>>
  <2>1. CASE k <= Len(c)
    <3>1. k \in 2 .. Len(c) /\ e[k] = c[k] /\ e[k - 1] = c[k - 1]
      BY <1>2, <1>3, <2>1
    <3>2. QED
      BY <3>1 DEF WellFormed
  <2>2. CASE k = Len(c) + 1
    <3>1. e[k] = d[1] /\ e[k - 1] = c[Len(c)] /\ d # <<>>
      BY <1>1, <1>2, <1>3, <2>2, EmptySeq
    <3>2. QED
      BY <3>1
  <2>3. CASE k > Len(c) + 1
    <3> DEFINE j == k - Len(c)
    <3>1. j \in 2 .. Len(d) /\ e[k] = d[j] /\ e[k - 1] = d[j - 1]
      BY <1>2, <1>3, <2>3
    <3>2. QED
      BY <3>1 DEF WellFormed
  <2>4. QED
    BY <1>2, <2>1, <2>2, <2>3
<1>5. e # <<>> /\ e[1] = c[1]
  BY <1>1, <1>2, <1>3, EmptySeq
<1>6. d # <<>> => e[Len(e)] = d[Len(d)]
  <2>1. d # <<>> => Len(d) > 0
    BY <1>1, <1>2, EmptySeq
  <2>2. QED
    BY <1>1, <1>2, <1>3, <2>1
<1>7. QED
  BY <1>1, <1>4, <1>5, <1>6 DEF WellFormed

(* The functions of the library are programs of that form. *)
LEMMA ProgramsWellFormed ==
    /\ WellFormed(yield) /\ WellFormed(finish)
    /\ WellFormed(block) /\ block # <<>> /\ block[1] = <<"block">>
    /\ \A s \in Semaphores :
          WellFormed(semaphore_wait(s)) /\ WellFormed(semaphore_signal(s))
<1> USE DEF Instruction, ThreadOps, SemaphoreOps, Critical, Cover
<1>1. WellFormed(yield)
  BY DEF WellFormed, yield
<1>2. WellFormed(finish)
  BY DEF WellFormed, finish, yield
<1>3. ASSUME NEW s \in Semaphores
      PROVE  WellFormed(semaphore_wait(s)) /\ WellFormed(semaphore_signal(s))
  BY DEF WellFormed, semaphore_wait, semaphore_signal
<1>4. WellFormed(block) /\ block # <<>> /\ block[1] = <<"block">>
  BY DEF WellFormed, block, yield
<1>5. QED
  BY <1>1, <1>2, <1>3, <1>4

-----------------------------------------------------------------------------
(* The inductive invariant. *)

(* There is somebody to run when main enters the scheduler, and nobody runs *)
(* before.                                                                  *)
StartTypeOK ==
    /\ status = "created" /\ (\E t \in Thread : state[t] = "Ready") => ready # <<>>
    /\ status \in {"armed", "context_set"} => ready # <<>>
    /\ status \in Starting => current = NoThread

(* A decrement is only ever about to happen to a positive value. *)
DecrementsPositive ==
    \A t \in Thread :
        code[t] # <<>> /\ Head(code[t])[1] = "dec" => value[Head(code[t])[2]] > 0

Programs == \A t \in Thread : WellFormed(code[t])

SemInv ==
    /\ SemTypeOK
    /\ StartTypeOK
    /\ Programs
    /\ OperationsAreAtomic
    /\ DecrementsPositive

(* The invariant holds before main creates a thread. *)
LEMMA InitInv == SemInit => SemInv
<1> SUFFICES ASSUME SemInit PROVE SemInv
  OBVIOUS
<1> USE SThreadAssumption, SemaphoreAssumption DEF SemInit, SThreadInit, new_semaphore
<1>1. SemTypeOK
  BY DEF SemTypeOK, ThreadTypeOK, Starting, States
<1>2. StartTypeOK
  BY DEF StartTypeOK, Starting
<1>3. Programs
  BY DEF Programs, WellFormed
<1>4. OperationsAreAtomic /\ DecrementsPositive
  BY DEF OperationsAreAtomic, DecrementsPositive
<1>5. QED
  BY <1>1, <1>2, <1>3, <1>4 DEF SemInv

(* The step of an instruction: it is the current thread's first, it is      *)
(* taken off, and the next one is critical only if the lock stays held.     *)
LEMMA InstructionStep ==
    ASSUME SemInv, NEW op, Executing(op), Done
    PROVE  /\ current \in Thread
           /\ <<op>> = Head(code[current]) \/ <<op, Operand>> = Head(code[current])
           /\ Head(code[current]) \in Instruction
           /\ code' \in [Thread -> Seq(Instruction)]
           /\ Programs'
           /\ \A t \in Thread \ {current} :
                 /\ code'[t] = code[t]
                 /\ code[t] # <<>> => Head(code[t])[1] \notin Critical
           /\ op \in Critical => lock = 1
           /\ code'[current] # <<>> /\ Head(code'[current])[1] \in Critical
                 => op \in Cover
           /\ code'[current] # <<>> /\ Head(code'[current])[1] = "dec"
                 => op = "while" /\ Head(code'[current])[2] = Operand
<1>1. current \in Thread
  BY DEF SemInv, SemTypeOK, ThreadTypeOK, Executing
<1> DEFINE c == code[current]
<1>2. c # <<>> /\ Head(c)[1] = op /\ WellFormed(c) /\ c \in Seq(Instruction)
  BY <1>1 DEF Executing, SemInv, Programs, WellFormed
<1>3. Head(c) = c[1] /\ c[1] \in Instruction
  BY <1>2, HeadTailProperties, EmptySeq, ElementOfSeq
<1>4. code' \in [Thread -> Seq(Instruction)] /\ code'[current] = Tail(c)
        /\ \A t \in Thread \ {current} : code'[t] = code[t]
  BY <1>1, <1>2, HeadTailProperties DEF Done, SemInv, SemTypeOK
<1>5. Programs'
  BY <1>2, <1>4, TailWellFormed DEF Programs, SemInv
<1>6. \A t \in Thread \ {current} :
          code[t] # <<>> => Head(code[t])[1] \notin Critical
  BY DEF SemInv, OperationsAreAtomic
<1>7. op \in Critical => lock = 1
  BY <1>1, <1>2 DEF SemInv, OperationsAreAtomic
<1>8. ASSUME code'[current] # <<>>
      PROVE  /\ Head(code'[current])[1] \in Critical => op \in Cover
             /\ Head(code'[current])[1] = "dec"
                   => op = "while" /\ Head(code'[current])[2] = Operand
  <2>1. Len(c) > 1 /\ Head(code'[current]) = c[2]
    BY <1>2, <1>4, <1>8, TailWellFormed
  <2>2. 2 \in 2 .. Len(c)
    BY <1>2, <2>1, LenProperties
  <2>3. c[2][1] \in Critical => c[1][1] \in Cover
    BY <1>2, <2>2 DEF WellFormed
  <2>4. c[2][1] = "dec" => c[1] = <<"while", c[2][2]>>
    BY <1>2, <2>2 DEF WellFormed
  <2>5. QED
    BY <1>2, <1>3, <2>1, <2>3, <2>4 DEF Operand
<1>9. <<op>> = Head(c) \/ <<op, Operand>> = Head(c)
  BY <1>2, <1>3 DEF Instruction, Operand
<1>10. QED
  BY <1>1, <1>3, <1>4, <1>5, <1>6, <1>7, <1>8, <1>9

(* An instruction keeps the operations atomic if the lock stays held across *)
(* those that need it and the look at a semaphore found it positive.        *)
LEMMA InstructionKeepsAtomic ==
    ASSUME SemInv, NEW op, Executing(op), Done,
           op \in Cover => lock' = 1 /\ current' = current,
           op = "while" => value' = value /\ value[Operand] > 0
    PROVE  Programs' /\ OperationsAreAtomic' /\ DecrementsPositive'
<1>1. OperationsAreAtomic'
  BY InstructionStep DEF OperationsAreAtomic
<1>2. DecrementsPositive'
  <2> SUFFICES ASSUME NEW t \in Thread, code'[t] # <<>>, Head(code'[t])[1] = "dec"
               PROVE  value'[Head(code'[t])[2]] > 0
    BY DEF DecrementsPositive
  <2>1. t = current
    BY InstructionStep DEF Critical, SemaphoreOps
  <2>2. QED
    BY <2>1, InstructionStep
<1>3. QED
  BY <1>1, <1>2, InstructionStep

-----------------------------------------------------------------------------
(* Every step keeps the invariant. *)

(* Unlinking a thread from a queue leaves a queue of threads. *)
LEMMA QueueRemoveType ==
    ASSUME NEW queue \in Seq(Thread), NEW t
    PROVE  queue_remove(queue, t) \in Seq(Thread)
<1>1. CASE t \in Range(queue)
  <2> DEFINE k == CHOOSE j \in 1 .. Len(queue) : queue[j] = t
  <2>1. \E j \in 1 .. Len(queue) : queue[j] = t
    BY <1>1, LenProperties DEF Range
  <2>2. k \in 1 .. Len(queue)
    BY <2>1
  <2>3. SubSeq(queue, 1, k - 1) \in Seq(Thread)
          /\ SubSeq(queue, k + 1, Len(queue)) \in Seq(Thread)
    <3>1. Len(queue) \in Nat /\ k \in Int /\ k - 1 \in Int /\ k + 1 \in Int
            /\ 1 \in Int /\ Len(queue) \in Int /\ k \in 1 .. Len(queue)
      BY <2>2, LenProperties
    <3>2. \A j \in 1 .. Len(queue) : queue[j] \in Thread
      BY ElementOfSeq
    <3>3. \A j \in 1 .. k - 1 : queue[j] \in Thread
      BY <3>1, <3>2
    <3>4. \A j \in k + 1 .. Len(queue) : queue[j] \in Thread
      BY <3>1, <3>2
    <3> HIDE DEF k
    <3>5. SubSeq(queue, 1, k - 1) \in Seq(Thread)
      BY <3>1, <3>3, SubSeqProperties, Zenon
    <3>6. SubSeq(queue, k + 1, Len(queue)) \in Seq(Thread)
      BY <3>1, <3>4, SubSeqProperties, Zenon
    <3>7. QED
      BY <3>5, <3>6
  <2>4. QED
    BY <1>1, <2>3, ConcatProperties DEF queue_remove, RemoveAt
<1>2. QED
  BY <1>1 DEF queue_remove

(* A thread put on a queue leaves a queue of threads. *)
LEMMA QueueAppendType ==
    ASSUME NEW queue \in Seq(Thread), NEW t \in Thread
    PROVE  queue_append(queue, t) \in Seq(Thread) /\ queue_append(queue, t) # <<>>
BY AppendProperties, EmptySeq DEF queue_append

(* A call starts with a step that needs no lock. *)
LEMMA CallKeepsInv ==
    ASSUME SemInv, NEW program, Call(program), UNCHANGED semaphoreVars,
           WellFormed(program), program # <<>>, Head(program)[1] \notin Critical
    PROVE  SemInv'
<1>1. current \in Thread /\ status = "running"
  BY DEF Call, SemInv, SemTypeOK, ThreadTypeOK
<1>2. code' = [code EXCEPT ![current] = program] /\ program \in Seq(Instruction)
  BY DEF Call, WellFormed
<1>3. SemTypeOK'
  BY <1>1, <1>2 DEF Call, SemInv, SemTypeOK, ThreadTypeOK, semaphoreVars
<1>4. \A t \in Thread : code'[t] = IF t = current THEN program ELSE code[t]
  BY <1>1, <1>2 DEF SemInv, SemTypeOK
<1>5. Programs'
  BY <1>4 DEF Programs, SemInv
<1>6. OperationsAreAtomic'
  BY <1>4 DEF OperationsAreAtomic, SemInv, Call
<1>7. DecrementsPositive'
  BY <1>4 DEF DecrementsPositive, SemInv, semaphoreVars, Critical, SemaphoreOps
<1>8. StartTypeOK'
  BY <1>1 DEF StartTypeOK, Call, Starting
<1>9. QED
  BY <1>3, <1>5, <1>6, <1>7, <1>8 DEF SemInv

(* The steps of main keep the invariant: they run no instruction. *)
LEMMA StartUpKeepsInv == SemInv /\ StartUp /\ UNCHANGED semaphoreVars => SemInv'
<1> SUFFICES ASSUME SemInv, StartUp, UNCHANGED semaphoreVars PROVE SemInv'
  OBVIOUS
<1>1. code' = code /\ value' = value /\ waiters' = waiters /\ lock' = lock
  BY DEF StartUp, Create, StartTimer, SetSchedulerContext, FirstSchedule, semaphoreVars
<1>2. SemTypeOK' /\ StartTypeOK' /\ (status = "running" => status' = "running")
  <2> USE DEF SemInv, SemTypeOK, ThreadTypeOK, StartTypeOK, Starting, Ended, States
  <2>1. ASSUME NEW t \in Thread, Create(t) PROVE SemTypeOK' /\ StartTypeOK'
    BY <1>1, <2>1, QueueAppendType DEF Create
  <2>2. CASE StartTimer
    BY <1>1, <2>2, SThreadAssumption DEF StartTimer
  <2>3. CASE SetSchedulerContext
    BY <1>1, <2>3 DEF SetSchedulerContext
  <2>4. CASE FirstSchedule
    <3>1. Head(ready) \in Thread /\ Tail(ready) \in Seq(Thread)
      BY <2>4, HeadTailProperties DEF FirstSchedule
    <3>2. QED
      BY <1>1, <2>4, <3>1 DEF FirstSchedule
  <2>5. QED
    BY <2>1, <2>2, <2>3, <2>4
       DEF StartUp, Create, StartTimer, SetSchedulerContext, FirstSchedule
<1>3. Programs' /\ DecrementsPositive'
  BY <1>1 DEF SemInv, Programs, DecrementsPositive
<1>4. OperationsAreAtomic'
  <2>1. status \in Starting
    BY DEF StartUp, Create, StartTimer, SetSchedulerContext, FirstSchedule, Starting
  <2>2. \A t \in Thread : code[t] # <<>> => Head(code[t])[1] \notin Critical
    BY <2>1, SThreadAssumption DEF SemInv, StartTypeOK, OperationsAreAtomic
  <2>3. QED
    BY <1>1, <2>2 DEF OperationsAreAtomic
<1>5. QED
  BY <1>2, <1>3, <1>4 DEF SemInv

(* An interrupt puts the scheduler in front of what the current thread has  *)
(* left, which cannot begin with a critical step, because the lock was free.*)
LEMMA InterruptKeepsInv == SemInv /\ Interrupt /\ UNCHANGED semaphoreVars => SemInv'
<1> SUFFICES ASSUME SemInv, Interrupt, UNCHANGED semaphoreVars PROVE SemInv'
  OBVIOUS
<1>1. CASE Tick
  <2> DEFINE c == code[current]
             d == << <<"schedule">> >> \o c
  <2>1. current \in Thread /\ lock = 0 /\ lock' = 1
    BY <1>1 DEF Tick, SemInv, SemTypeOK, ThreadTypeOK
  <2>2. WellFormed(c) /\ c \in Seq(Instruction)
    BY <2>1 DEF SemInv, Programs, WellFormed
  <2>3. c # <<>> => c[1][1] \notin Critical
    <3>1. c # <<>> => Head(c)[1] \notin Critical
      BY <2>1 DEF SemInv, OperationsAreAtomic
    <3>2. c # <<>> => Head(c) = c[1]
      BY <2>2
    <3>3. QED
      BY <3>1, <3>2
  <2>4. WellFormed(<< <<"schedule">> >>)
    BY DEF WellFormed, Instruction, ThreadOps
  <2>5. WellFormed(d) /\ d \in Seq(Instruction) /\ Head(d) = <<"schedule">>
    <3>1. c # <<>> => c[1][1] # "dec" /\ c[1][1] \notin Critical
      BY <2>3 DEF Critical, SemaphoreOps
    <3>2. WellFormed(d)
      BY <2>2, <2>4, <3>1, ConcatWellFormed
    <3>3. Len(d) = 1 + Len(c) /\ d[1] = <<"schedule">>
      BY <2>2
    <3>4. QED
      BY <3>2, <3>3, <2>2 DEF WellFormed
  <2>6. code' = [code EXCEPT ![current] = d]
    BY <1>1 DEF Tick
  <2>7. \A t \in Thread : code'[t] = IF t = current THEN d ELSE code[t]
    BY <2>1, <2>6 DEF SemInv, SemTypeOK
  <2> HIDE DEF d
  <2>8. SemTypeOK' /\ StartTypeOK'
    BY <1>1, <2>1, <2>5, <2>6
       DEF Tick, SemInv, SemTypeOK, ThreadTypeOK, StartTypeOK, Starting, semaphoreVars
  <2>9. Programs'
    BY <2>5, <2>7 DEF SemInv, Programs
  <2>10. OperationsAreAtomic'
    BY <1>1, <2>1, <2>7 DEF SemInv, OperationsAreAtomic, Tick
  <2>11. DecrementsPositive'
    BY <2>5, <2>7 DEF SemInv, DecrementsPositive, semaphoreVars
  <2>12. QED
    BY <2>8, <2>9, <2>10, <2>11 DEF SemInv
<1>2. CASE TickWhileStarting
  <2>1. \A t \in Thread : code[t] # <<>> => Head(code[t])[1] \notin Critical
    BY <1>2 DEF TickWhileStarting, SemInv, OperationsAreAtomic
  <2>2. SemTypeOK' /\ StartTypeOK'
    BY <1>2 DEF TickWhileStarting, SemInv, SemTypeOK, ThreadTypeOK, StartTypeOK,
                Starting, Ended, semaphoreVars
  <2>3. Programs' /\ OperationsAreAtomic' /\ DecrementsPositive'
    BY <1>2, <2>1 DEF TickWhileStarting, SemInv, Programs, OperationsAreAtomic,
                      DecrementsPositive, semaphoreVars
  <2>4. QED
    BY <2>2, <2>3 DEF SemInv
<1>3. QED
  BY <1>1, <1>2 DEF Interrupt

(* The steps of the thread library keep the invariant. *)
LEMMA LibraryKeepsInv == SemInv /\ LibraryStep /\ UNCHANGED semaphoreVars => SemInv'
<1> SUFFICES ASSUME SemInv, LibraryStep, UNCHANGED semaphoreVars PROVE SemInv'
  OBVIOUS
<1> USE DEF Cover, Critical, SemaphoreOps
<1>1. CASE Schedule
  <2>1. Executing("schedule") /\ Done /\ lock' = lock
    BY <1>1 DEF Schedule
  <2>2. Programs' /\ OperationsAreAtomic' /\ DecrementsPositive'
    BY <2>1, InstructionKeepsAtomic
  <2>3. current \in Thread /\ code' \in [Thread -> Seq(Instruction)]
    BY <2>1, InstructionStep
  <2> DEFINE saved == SavedState(current)
             queue == IF saved = "Ready" THEN queue_append(ready, current) ELSE ready
  <2>4. saved \in States
    BY <2>3 DEF SavedState, States, SemInv, SemTypeOK, ThreadTypeOK
  <2>5. queue \in Seq(Thread)
    BY <2>3, QueueAppendType DEF SemInv, SemTypeOK, ThreadTypeOK
  <2>6. blocked' \in Seq(Thread)
    BY <1>1, <2>3, QueueAppendType DEF Schedule, SemInv, SemTypeOK, ThreadTypeOK
  <2> HIDE DEF saved
  <2>7. CASE queue = <<>>
    <3>1. /\ status' \in {"completed", "deadlocked"} /\ current' = NoThread
          /\ ready' = queue /\ state' = [state EXCEPT ![current] = saved]
      BY <1>1, <2>7 DEF Schedule, saved
    <3> HIDE DEF queue
    <3>2. QED
      BY <2>1, <2>2, <2>3, <2>4, <2>5, <2>6, <3>1
         DEF SemInv, SemTypeOK, ThreadTypeOK, StartTypeOK, Starting, Ended, semaphoreVars
  <2>8. CASE queue # <<>>
    <3>1. /\ status' = status /\ current' = Head(queue) /\ ready' = Tail(queue)
          /\ state' = [state EXCEPT ![current] = saved, ![Head(queue)] = "Running"]
      BY <1>1, <2>8 DEF Schedule, saved
    <3>2. status = "running"
      BY <2>1 DEF Executing
    <3> HIDE DEF queue
    <3>3. Head(queue) \in Thread /\ Tail(queue) \in Seq(Thread)
      BY <2>5, <2>8, HeadTailProperties
    <3>4. SemTypeOK'
      BY <2>1, <2>3, <2>4, <2>6, <3>1, <3>2, <3>3
         DEF SemInv, SemTypeOK, ThreadTypeOK, States, semaphoreVars
    <3>5. StartTypeOK'
      BY <3>1, <3>2 DEF StartTypeOK, Starting
    <3>6. QED
      BY <2>2, <3>4, <3>5 DEF SemInv
  <2>9. QED
    BY <2>7, <2>8
<1>2. CASE Lock \/ Unlock
  <2>1. \E op \in {"lock", "unlock"} :
          Executing(op) /\ Done /\ (op = "lock" => lock' = 1) /\ lock' \in {0, 1}
    BY <1>2 DEF Lock, Unlock
  <2>2. UNCHANGED <<status, current, state, ready, blocked>>
    BY <1>2 DEF Lock, Unlock
  <2>3. Programs' /\ OperationsAreAtomic' /\ DecrementsPositive'
    BY <2>1, <2>2, InstructionKeepsAtomic
  <2>4. code' \in [Thread -> Seq(Instruction)]
    BY <2>1, InstructionStep
  <2>5. QED
    BY <2>1, <2>2, <2>3, <2>4
       DEF SemInv, SemTypeOK, ThreadTypeOK, StartTypeOK, semaphoreVars
<1>3. ASSUME NEW op \in {"block", "finish"}, NEW s \in States, SetState(op, s)
      PROVE  SemInv'
  <2>1. Executing(op) /\ Done /\ UNCHANGED <<status, current, ready, blocked, lock>>
    BY <1>3 DEF SetState
  <2>2. op \in Cover => lock' = 1
    BY <2>1, InstructionStep
  <2>3. Programs' /\ OperationsAreAtomic' /\ DecrementsPositive'
    BY <2>1, <2>2, InstructionKeepsAtomic
  <2>4. current \in Thread /\ code' \in [Thread -> Seq(Instruction)] /\ status = "running"
    BY <2>1, InstructionStep DEF Executing
  <2>5. state' \in [Thread -> States]
    BY <1>3, <2>4 DEF SetState, SemInv, SemTypeOK, ThreadTypeOK
  <2>6. QED
    BY <2>1, <2>3, <2>4, <2>5
       DEF SemInv, SemTypeOK, ThreadTypeOK, StartTypeOK, Starting, semaphoreVars
<1>4. QED
  BY <1>1, <1>2, <1>3 DEF LibraryStep, Block, Finish, States

(* A thread that finds the semaphore zero has the way to the queue, the     *)
(* block and the next look put in front; one that finds it positive goes on *)
(* to the decrement.                                                        *)
LEMMA WhileKeepsInv == SemInv /\ While => SemInv'
<1> SUFFICES ASSUME SemInv, While PROVE SemInv'
  OBVIOUS
<1> DEFINE s == Operand
           c == code[current]
           d == << <<"append", s>> >> \o block \o << <<"lock">> >>
<1>1. /\ Executing("while") /\ status = "running" /\ current \in Thread
      /\ UNCHANGED <<status, current, state, ready, blocked, lock, value, waiters>>
  BY DEF While, Executing, SemInv, SemTypeOK, ThreadTypeOK
<1>2. WellFormed(c) /\ c \in Seq(Instruction) /\ c # <<>> /\ Head(c)[1] = "while"
  BY <1>1 DEF SemInv, Programs, WellFormed, Executing
<1>3. lock = 1
  BY <1>1, <1>2 DEF SemInv, OperationsAreAtomic, Critical, SemaphoreOps
<1>4. Head(c) = c[1] /\ c[1] \in Instruction
  BY <1>2, HeadTailProperties, EmptySeq, ElementOfSeq
<1>5. c[1] = <<"while", s>> /\ s \in Semaphores
  BY <1>2, <1>4, OperandOfInstruction DEF SemaphoreOps, Operand
<1>6. value[s] \in Nat
  BY <1>5 DEF SemInv, SemTypeOK
<1>7. CASE value[s] = 0
  <2> DEFINE a == << <<"append", s>> >>
             l == << <<"lock">> >>
  <2>1. /\ WellFormed(a) /\ a # <<>> /\ Len(a) = 1 /\ a[1] = <<"append", s>>
        /\ WellFormed(l) /\ l # <<>> /\ Len(l) = 1 /\ l[1] = <<"lock">>
    BY <1>5 DEF WellFormed, Instruction, ThreadOps, SemaphoreOps
  <2>2. WellFormed(block) /\ block # <<>> /\ block[1] = <<"block">>
    BY ProgramsWellFormed
  <2> HIDE DEF a, l
  <2>3. WellFormed(d) /\ d # <<>> /\ d[1] = <<"append", s>> /\ d[Len(d)] = <<"lock">>
    <3>1. WellFormed(a \o block) /\ a \o block # <<>> /\ (a \o block)[1] = a[1]
      BY <2>1, <2>2, ConcatWellFormed DEF Cover, Critical, SemaphoreOps
    <3>2. l[1][1] # "dec" /\ l[1][1] \notin Critical
      BY <2>1 DEF Critical, SemaphoreOps
    <3>3. /\ WellFormed((a \o block) \o l) /\ (a \o block) \o l # <<>>
          /\ ((a \o block) \o l)[1] = (a \o block)[1]
          /\ ((a \o block) \o l)[Len((a \o block) \o l)] = l[Len(l)]
      BY <2>1, <3>1, <3>2, ConcatWellFormed
    <3>4. d = (a \o block) \o l
      BY DEF a, l
    <3>5. QED
      BY <2>1, <3>1, <3>3, <3>4
  <2> HIDE DEF d
  <2>4. WellFormed(d \o c)
    <3>1. d[Len(d)][1] \in Cover /\ c[1][1] # "dec"
      BY <1>5, <2>3 DEF Cover
    <3>2. QED
      BY <1>2, <2>3, <3>1, ConcatWellFormed
  <2>5. d \o c \in Seq(Instruction) /\ Head(d \o c) = <<"append", s>>
    <3>1. d \in Seq(Instruction) /\ (d \o c)[1] = d[1] /\ d \o c # <<>>
      BY <1>2, <2>3, <2>4, <1>5, ConcatWellFormed DEF Cover, WellFormed
    <3>2. QED
      BY <1>2, <2>3, <3>1, ConcatProperties, HeadTailProperties
  <2>6. code' = [code EXCEPT ![current] = d \o c]
    BY <1>7 DEF While, d
  <2>7. \A t \in Thread : code'[t] = IF t = current THEN d \o c ELSE code[t]
    BY <1>1, <2>6 DEF SemInv, SemTypeOK
  <2>8. SemTypeOK'
    BY <1>1, <2>5, <2>6 DEF SemInv, SemTypeOK, ThreadTypeOK
  <2>9. Programs' /\ OperationsAreAtomic' /\ DecrementsPositive'
    <3>1. Programs'
      BY <2>4, <2>7 DEF SemInv, Programs
    <3>2. OperationsAreAtomic'
      BY <1>1, <1>3, <2>7 DEF SemInv, OperationsAreAtomic
    <3>3. Head(d \o c)[1] = "append"
      <4> DEFINE p == d \o c
      <4>1. Head(p) = <<"append", s>>
        BY <2>5
      <4> HIDE DEF p, s
      <4>2. Head(p)[1] = "append"
        BY <4>1
      <4>3. QED
        BY <4>2 DEF p
    <3> HIDE DEF c
    <3>4. \A t \in Thread :
             code'[t] # <<>> /\ Head(code'[t])[1] = "dec"
               => code[t] # <<>> /\ Head(code[t])[1] = "dec" /\ code'[t] = code[t]
      BY <2>7, <3>3
    <3>5. DecrementsPositive'
      BY <1>1, <3>4 DEF SemInv, DecrementsPositive
    <3>6. QED
      BY <3>1, <3>2, <3>5
  <2>10. QED
    BY <1>1, <2>8, <2>9 DEF SemInv, StartTypeOK
<1>8. CASE value[s] # 0
  <2>1. Done
    BY <1>1, <1>8 DEF While, Done
  <2>2. Programs' /\ OperationsAreAtomic' /\ DecrementsPositive'
    BY <1>1, <1>3, <1>6, <1>8, <2>1, InstructionKeepsAtomic
  <2>3. code' \in [Thread -> Seq(Instruction)]
    BY <1>1, <2>1, InstructionStep
  <2>4. QED
    BY <1>1, <2>2, <2>3 DEF SemInv, SemTypeOK, ThreadTypeOK, StartTypeOK
<1>9. QED
  BY <1>7, <1>8

(* The other steps of a wait or a signal change one semaphore and, when     *)
(* somebody waits, the queues.                                              *)
LEMMA SemaphoreKeepsInv == SemInv /\ SemaphoreStep => SemInv'
<1> SUFFICES ASSUME SemInv, SemaphoreStep PROVE SemInv'
  OBVIOUS
<1> USE DEF Critical, SemaphoreOps
<1>1. ASSUME NEW op \in {"append", "dec", "inc", "wake"}, Executing(op), Done,
             UNCHANGED <<current, lock>>
      PROVE  /\ Programs' /\ OperationsAreAtomic' /\ DecrementsPositive'
             /\ code' \in [Thread -> Seq(Instruction)]
             /\ current \in Thread /\ status = "running" /\ Operand \in Semaphores
             /\ op = "dec" => value[Operand] > 0
  <2>1. op \in Critical /\ lock = 1
    BY <1>1, InstructionStep
  <2>2. Programs' /\ OperationsAreAtomic' /\ DecrementsPositive'
    BY <1>1, <2>1, InstructionKeepsAtomic
  <2>3. Operand \in Semaphores
    BY <1>1, InstructionStep, OperandOfInstruction DEF Operand, Executing
  <2>4. op = "dec" => value[Operand] > 0
    BY <1>1, InstructionStep DEF SemInv, DecrementsPositive, Executing, Operand
  <2>5. QED
    BY <1>1, <2>2, <2>3, <2>4, InstructionStep DEF Executing
<1>2. CASE While
  BY <1>2, WhileKeepsInv
<1>3. CASE semp_append
  <2>1. Executing("append") /\ Done /\ UNCHANGED <<current, lock>>
    BY <1>3 DEF semp_append
  <2>2. waiters' \in [Semaphores -> Seq(Thread)]
    <3>1. Append(waiters[Operand], current) \in Seq(Thread)
      BY <1>1, <2>1, AppendProperties DEF SemInv, SemTypeOK
    <3>2. QED
      BY <1>3, <3>1 DEF semp_append, SemInv, SemTypeOK
  <2>3. QED
    BY <1>1, <1>3, <2>1, <2>2
       DEF semp_append, SemInv, SemTypeOK, ThreadTypeOK, StartTypeOK
<1>4. CASE Decrement
  <2>1. Executing("dec") /\ Done /\ UNCHANGED <<current, lock>>
    BY <1>4 DEF Decrement
  <2>2. value' \in [Semaphores -> Nat]
    BY <1>1, <1>4, <2>1 DEF Decrement, SemInv, SemTypeOK
  <2>3. QED
    BY <1>1, <1>4, <2>1, <2>2
       DEF Decrement, SemInv, SemTypeOK, ThreadTypeOK, StartTypeOK
<1>5. CASE Increment
  <2>1. Executing("inc") /\ Done /\ UNCHANGED <<current, lock>>
    BY <1>5 DEF Increment
  <2>2. value' \in [Semaphores -> Nat]
    BY <1>1, <1>5, <2>1 DEF Increment, SemInv, SemTypeOK
  <2>3. QED
    BY <1>1, <1>5, <2>1, <2>2
       DEF Increment, SemInv, SemTypeOK, ThreadTypeOK, StartTypeOK
<1>6. CASE Wake
  <2>1. Executing("wake") /\ Done /\ UNCHANGED <<current, lock, value>>
    BY <1>6 DEF Wake
  <2>2. CASE waiters[Operand] = <<>>
    BY <1>1, <1>6, <2>1, <2>2
       DEF Wake, SemInv, SemTypeOK, ThreadTypeOK, StartTypeOK
  <2>3. CASE waiters[Operand] # <<>>
    <3> DEFINE t == Head(waiters[Operand])
    <3>1. t \in Thread /\ Tail(waiters[Operand]) \in Seq(Thread)
      BY <1>1, <2>1, <2>3, HeadTailProperties DEF SemInv, SemTypeOK
    <3>2. waiters' = [waiters EXCEPT ![Operand] = Tail(@)] /\ Unblock(t)
      BY <1>6, <2>3 DEF Wake
    <3> HIDE DEF t
    <3>3. waiters' \in [Semaphores -> Seq(Thread)]
      BY <3>1, <3>2 DEF SemInv, SemTypeOK
    <3>4. blocked' \in Seq(Thread) /\ ready' \in Seq(Thread)
      <4>1. blocked \in Seq(Thread) /\ ready \in Seq(Thread)
        BY DEF SemInv, SemTypeOK, ThreadTypeOK
      <4>2. queue_remove(blocked, t) \in Seq(Thread)
              /\ queue_append(ready, t) \in Seq(Thread)
        BY <3>1, <4>1, QueueRemoveType, QueueAppendType
      <4>3. QED
        BY <3>2, <4>1, <4>2 DEF Unblock
    <3>5. state' \in [Thread -> States] /\ status' \in {"running", "assert_failed"}
      BY <1>1, <2>1, <3>1, <3>2
         DEF Unblock, SemInv, SemTypeOK, ThreadTypeOK, States
    <3>6. SemTypeOK'
      BY <1>1, <2>1, <3>3, <3>4, <3>5
         DEF SemInv, SemTypeOK, ThreadTypeOK, Ended
    <3>7. StartTypeOK'
      BY <3>5 DEF StartTypeOK, Starting
    <3>8. QED
      BY <1>1, <2>1, <3>6, <3>7 DEF SemInv
  <2>4. QED
    BY <2>2, <2>3
<1>7. QED
  BY <1>2, <1>3, <1>4, <1>5, <1>6 DEF SemaphoreStep

(* No step of the program, and no interrupt, breaks the invariant. *)
LEMMA NextInv == SemInv /\ [SemNext]_semVars => SemInv'
<1> SUFFICES ASSUME SemInv, [SemNext]_semVars PROVE SemInv'
  OBVIOUS
<1>1. ASSUME NEW program, Call(program), UNCHANGED semaphoreVars,
             \/ program \in {yield, finish}
             \/ \E s \in Semaphores :
                   program \in {semaphore_wait(s), semaphore_signal(s)}
      PROVE  SemInv'
  <2>1. WellFormed(program)
    BY <1>1, ProgramsWellFormed
  <2>2. program # <<>> /\ Head(program)[1] \in {"lock", "finish"}
    BY <1>1 DEF yield, finish, semaphore_wait, semaphore_signal
  <2>3. QED
    BY <1>1, <2>1, <2>2, CallKeepsInv DEF Critical, SemaphoreOps
<1>2. CASE SThreadNext /\ UNCHANGED semaphoreVars
  BY <1>1, <1>2, StartUpKeepsInv, LibraryKeepsInv, InterruptKeepsInv
     DEF SThreadNext, Run
<1>3. CASE Client /\ UNCHANGED semaphoreVars
  BY <1>1, <1>3 DEF Client
<1>4. CASE SemaphoreStep
  BY <1>4, SemaphoreKeepsInv
<1>5. CASE UNCHANGED semVars
  BY <1>5 DEF SemInv, SemTypeOK, ThreadTypeOK, StartTypeOK, Programs,
              OperationsAreAtomic, DecrementsPositive,
              semVars, threadVars, semaphoreVars
<1>6. QED
  BY <1>2, <1>3, <1>4, <1>5 DEF SemNext

-----------------------------------------------------------------------------

(* Whatever the threads call and wherever the timer falls, a semaphore is   *)
(* never driven below zero and the queues hold threads.                     *)
THEOREM SemaphoreTypeCorrect == SemSpec => []SemTypeOK
<1>1. SemInv => SemTypeOK
  BY DEF SemInv
<1>2. QED
  BY InitInv, NextInv, <1>1, PTL DEF SemSpec

(* A step on the queues or on a semaphore is only ever about to happen in   *)
(* the running thread, with the lock held.                                  *)
THEOREM OperationsAlwaysAtomic == SemSpec => []OperationsAreAtomic
<1>1. SemInv => OperationsAreAtomic
  BY DEF SemInv
<1>2. QED
  BY InitInv, NextInv, <1>1, PTL DEF SemSpec

-----------------------------------------------------------------------------
-----------------------------------------------------------------------------
(* Queues.  A queue is a sequence; which threads it holds is its range.     *)

(* Appending adds one member, and leaves a queue without repetitions so.    *)
LEMMA AppendMembers ==
    ASSUME NEW S, NEW q \in Seq(S), NEW t \in S
    PROVE  /\ Range(Append(q, t)) = Range(q) \cup {t}
           /\ IsInjective(q) /\ t \notin Range(q) => IsInjective(Append(q, t))
<1> DEFINE a == Append(q, t)
<1>1. /\ a \in Seq(S) /\ Len(a) = Len(q) + 1 /\ Len(q) \in Nat
      /\ \A k \in 1 .. Len(q) : a[k] = q[k]
      /\ a[Len(q) + 1] = t
  BY AppendProperties, LenProperties
<1>2. Range(q) = {q[k] : k \in 1 .. Len(q)} /\ Range(a) = {a[k] : k \in 1 .. Len(a)}
  BY <1>1, RangeEquality
<1> HIDE DEF a
<1>3. Range(a) = Range(q) \cup {t}
  <2>1. 1 .. Len(a) = (1 .. Len(q)) \cup {Len(q) + 1}
    BY <1>1
  <2>2. QED
    BY <1>1, <1>2, <2>1
<1>4. ASSUME IsInjective(q), t \notin Range(q) PROVE IsInjective(a)
  <2>1. DOMAIN a = 1 .. Len(a) /\ DOMAIN q = 1 .. Len(q)
    BY <1>1, LenProperties
  <2>2. \A k \in 1 .. Len(q) : q[k] # t
    BY <1>2, <1>4
  <2>3. SUFFICES ASSUME NEW j \in 1 .. Len(a), NEW k \in 1 .. Len(a), a[j] = a[k]
                 PROVE  j = k
    BY <2>1 DEF IsInjective
  <2>4. CASE j \in 1 .. Len(q) /\ k \in 1 .. Len(q)
    BY <1>1, <1>4, <2>1, <2>3, <2>4 DEF IsInjective
  <2>5. QED
    BY <1>1, <2>2, <2>3, <2>4
<1>5. QED
  BY <1>3, <1>4 DEF a

(* Taking the head off a queue without repetitions removes one member.      *)
LEMMA TailMembers ==
    ASSUME NEW S, NEW q \in Seq(S), q # <<>>
    PROVE  /\ Head(q) \in Range(q)
           /\ Range(q) = {Head(q)} \cup Range(Tail(q))
           /\ IsInjective(q) => /\ IsInjective(Tail(q))
                                /\ Range(Tail(q)) = Range(q) \ {Head(q)}
<1> DEFINE d == Tail(q)
<1>1. /\ d \in Seq(S) /\ Len(d) = Len(q) - 1 /\ Len(q) \in Nat \ {0}
      /\ \A k \in 1 .. Len(d) : d[k] = q[k + 1]
      /\ Head(q) = q[1]
  BY HeadTailProperties, EmptySeq
<1>2. Range(q) = {q[k] : k \in 1 .. Len(q)} /\ Range(d) = {d[k] : k \in 1 .. Len(d)}
  BY <1>1, RangeEquality
<1>3. DOMAIN d = 1 .. Len(d) /\ DOMAIN q = 1 .. Len(q)
  BY <1>1, LenProperties
<1> HIDE DEF d
<1>4. Range(q) = {Head(q)} \cup Range(d)
  <2>1. \A k \in 1 .. Len(q) : k = 1 \/ (k - 1 \in 1 .. Len(d) /\ q[k] = d[k - 1])
    BY <1>1
  <2>2. Range(q) \subseteq {Head(q)} \cup Range(d)
    BY <1>1, <1>2, <2>1
  <2>3. \A k \in 1 .. Len(d) : k + 1 \in 1 .. Len(q) /\ d[k] = q[k + 1]
    BY <1>1
  <2>4. {Head(q)} \cup Range(d) \subseteq Range(q)
    BY <1>1, <1>2, <2>3
  <2>5. QED
    BY <2>2, <2>4
<1>5. ASSUME IsInjective(q) PROVE IsInjective(d) /\ Head(q) \notin Range(d)
  <2>1. \A j, k \in 1 .. Len(q) : q[j] = q[k] => j = k
    BY <1>3, <1>5 DEF IsInjective
  <2>2. IsInjective(d)
    <3> SUFFICES ASSUME NEW j \in 1 .. Len(d), NEW k \in 1 .. Len(d), d[j] = d[k]
                 PROVE  j = k
      BY <1>3 DEF IsInjective
    <3>1. j + 1 \in 1 .. Len(q) /\ k + 1 \in 1 .. Len(q) /\ q[j + 1] = q[k + 1]
      BY <1>1
    <3>2. j + 1 = k + 1
      BY <2>1, <3>1
    <3>3. QED
      BY <1>1, <3>2
  <2>3. \A k \in 1 .. Len(d) : d[k] # q[1]
    <3> SUFFICES ASSUME NEW k \in 1 .. Len(d), d[k] = q[1] PROVE FALSE
      OBVIOUS
    <3>1. k + 1 \in 1 .. Len(q) /\ 1 \in 1 .. Len(q) /\ q[k + 1] = q[1]
      BY <1>1
    <3>2. k + 1 = 1
      BY <2>1, <3>1
    <3>3. QED
      BY <1>1, <3>2
  <2>4. QED
    BY <1>1, <1>2, <2>2, <2>3
<1>6. QED
  BY <1>4, <1>5 DEF d

(* A part of a sequence, from m to n.                                       *)
LEMMA SliceProperties ==
    ASSUME NEW S, NEW q \in Seq(S), NEW m \in Int, NEW n \in Int,
           1 <= m, n <= Len(q)
    PROVE  /\ SubSeq(q, m, n) \in Seq(S)
           /\ Len(SubSeq(q, m, n)) = IF m <= n THEN n - m + 1 ELSE 0
           /\ \A k \in 1 .. n - m + 1 : SubSeq(q, m, n)[k] = q[m + k - 1]
<1>1. \A k \in m .. n : q[k] \in S
  BY ElementOfSeq, LenProperties
<1>2. QED
  BY <1>1, SubSeqProperties

(* Unlinking a thread removes just that thread.                             *)
LEMMA RemoveMembers ==
    ASSUME NEW queue \in Seq(Thread), NEW t, IsInjective(queue)
    PROVE  /\ Range(queue_remove(queue, t)) = Range(queue) \ {t}
           /\ IsInjective(queue_remove(queue, t))
<1>1. CASE t \notin Range(queue)
  BY <1>1 DEF queue_remove
<1>2. CASE t \in Range(queue)
  <2> DEFINE n == Len(queue)
             k == CHOOSE j \in 1 .. n : queue[j] = t
             a == SubSeq(queue, 1, k - 1)
             b == SubSeq(queue, k + 1, n)
             r == a \o b
  <2>1. n \in Nat /\ DOMAIN queue = 1 .. n
    BY LenProperties
  <2>2. k \in 1 .. n /\ queue[k] = t
    <3>1. \E j \in 1 .. n : queue[j] = t
      BY <1>2, <2>1 DEF Range
    <3>2. QED
      BY <3>1
  <2> HIDE DEF k, n
  <2>3. k \in Int /\ k - 1 \in Int /\ k + 1 \in Int /\ n \in Int /\ 1 \in Int
    BY <2>1, <2>2
  <2>6. /\ a \in Seq(Thread) /\ Len(a) = k - 1
        /\ \A j \in 1 .. k - 1 : a[j] = queue[j]
    <3>1. 1 <= 1 /\ k - 1 <= Len(queue)
      BY <2>1, <2>2 DEF n
    <3>2. /\ a \in Seq(Thread)
          /\ Len(a) = IF 1 <= k - 1 THEN (k - 1) - 1 + 1 ELSE 0
          /\ \A j \in 1 .. (k - 1) - 1 + 1 : a[j] = queue[1 + j - 1]
      BY <2>3, <3>1, SliceProperties
    <3> HIDE DEF a
    <3>3. QED
      BY <2>1, <2>2, <3>2
  <2>7. /\ b \in Seq(Thread) /\ Len(b) = n - k
        /\ \A j \in 1 .. n - k : b[j] = queue[k + j]
    <3>1. 1 <= k + 1 /\ n <= Len(queue)
      BY <2>1, <2>2 DEF n
    <3>2. /\ b \in Seq(Thread)
          /\ Len(b) = IF k + 1 <= n THEN n - (k + 1) + 1 ELSE 0
          /\ \A j \in 1 .. n - (k + 1) + 1 : b[j] = queue[(k + 1) + j - 1]
      BY <2>3, <3>1, SliceProperties
    <3> HIDE DEF b
    <3>3. QED
      BY <2>1, <2>2, <3>2
  <2> HIDE DEF a, b
  <2>9. /\ r \in Seq(Thread) /\ Len(r) = Len(a) + Len(b)
        /\ \A j \in 1 .. Len(a) + Len(b) : r[j] = IF j <= Len(a) THEN a[j] ELSE b[j - Len(a)]
    BY <2>6, <2>7, ConcatProperties
  <2> HIDE DEF r
  <2>10. Len(r) = n - 1 /\ \A j \in 1 .. n - 1 : r[j] = IF j < k THEN queue[j] ELSE queue[j + 1]
    <3>1. Len(r) = n - 1
      BY <2>1, <2>2, <2>6, <2>7, <2>9
    <3>2. ASSUME NEW j \in 1 .. n - 1, j < k PROVE r[j] = queue[j]
      <4>1. j \in 1 .. Len(a) + Len(b) /\ j <= Len(a) /\ j \in 1 .. k - 1
        BY <2>1, <2>2, <2>6, <2>7, <3>2
      <4>2. QED
        BY <2>6, <2>9, <4>1
    <3>3. ASSUME NEW j \in 1 .. n - 1, ~(j < k) PROVE r[j] = queue[j + 1]
      <4>1. j \in 1 .. Len(a) + Len(b) /\ ~(j <= Len(a))
              /\ j - Len(a) \in 1 .. n - k /\ k + (j - Len(a)) = j + 1
        BY <2>1, <2>2, <2>6, <2>7, <3>3
      <4>2. QED
        BY <2>7, <2>9, <4>1
    <3>4. QED
      BY <3>1, <3>2, <3>3
  <2>11. DOMAIN r = 1 .. n - 1 /\ Range(r) = {r[j] : j \in 1 .. n - 1}
           /\ Range(queue) = {queue[j] : j \in 1 .. n}
    <3>1. DOMAIN r = 1 .. Len(r) /\ Range(r) = {r[j] : j \in 1 .. Len(r)}
      BY <2>9, LenProperties, RangeEquality
    <3>2. Range(queue) = {queue[j] : j \in 1 .. Len(queue)}
      BY RangeEquality
    <3>3. QED
      BY <2>10, <3>1, <3>2 DEF n
  <2>12. \A i, j \in 1 .. n : queue[i] = queue[j] => i = j
    BY <2>1 DEF IsInjective
  <2>13. Range(r) = Range(queue) \ {t}
    <3>1. ASSUME NEW x \in Range(r) PROVE x \in Range(queue) \ {t}
      <4>1. PICK j \in 1 .. n - 1 : x = r[j]
        BY <2>11, <3>1
      <4>2. CASE j < k
        BY <2>1, <2>2, <2>10, <2>11, <2>12, <4>1, <4>2
      <4>3. CASE ~(j < k)
        <5>1. j + 1 \in 1 .. n /\ j + 1 # k /\ x = queue[j + 1]
          BY <2>1, <2>2, <2>10, <4>1, <4>3
        <5>2. QED
          BY <2>2, <2>11, <2>12, <5>1
      <4>4. QED
        BY <4>2, <4>3
    <3>2. ASSUME NEW x \in Range(queue) \ {t} PROVE x \in Range(r)
      <4>1. PICK j \in 1 .. n : x = queue[j]
        BY <2>11, <3>2
      <4>2. j # k
        BY <2>2, <3>2, <4>1
      <4>3. CASE j < k
        <5>1. j \in 1 .. n - 1 /\ r[j] = x
          BY <2>1, <2>2, <2>10, <4>1, <4>3
        <5>2. QED
          BY <2>11, <5>1
      <4>4. CASE j > k
        <5>1. j - 1 \in 1 .. n - 1 /\ ~(j - 1 < k) /\ (j - 1) + 1 = j
          BY <2>1, <2>2, <4>1, <4>4
        <5>2. r[j - 1] = x
          BY <2>10, <4>1, <5>1
        <5>3. QED
          BY <2>11, <5>1, <5>2
      <4>5. QED
        BY <2>1, <2>2, <4>2, <4>3, <4>4
    <3>3. QED
      BY <3>1, <3>2
  <2>14. IsInjective(r)
    <3> SUFFICES ASSUME NEW i \in 1 .. n - 1, NEW j \in 1 .. n - 1, r[i] = r[j]
                 PROVE  i = j
      BY <2>11 DEF IsInjective
    <3> DEFINE at(m) == IF m < k THEN m ELSE m + 1
    <3>1. at(i) \in 1 .. n /\ at(j) \in 1 .. n /\ queue[at(i)] = queue[at(j)]
      BY <2>1, <2>2, <2>10
    <3>2. at(i) = at(j)
      BY <2>12, <3>1
    <3>3. QED
      BY <2>1, <2>2, <3>2
  <2>15. queue_remove(queue, t) = r
    BY <1>2 DEF queue_remove, RemoveAt, r, a, b, k, n
  <2>16. QED
    BY <2>13, <2>14, <2>15
<1>3. QED
  BY <1>1, <1>2

-----------------------------------------------------------------------------
(* What a thread has left to execute.                                       *)

(* The rest of a program from its k-th instruction on. *)
After(program, k) == SubSeq(program, k, Len(program))

(* Executing one instruction of a program moves on to the next. *)
LEMMA AfterStep ==
    ASSUME NEW P \in Seq(Instruction), NEW k \in 1 .. Len(P)
    PROVE  /\ After(P, k) \in Seq(Instruction) /\ After(P, k) # <<>>
           /\ Head(After(P, k)) = P[k]
           /\ Tail(After(P, k)) = After(P, k + 1)
           /\ Len(After(P, k)) = Len(P) - k + 1
           /\ \A j \in 1 .. Len(P) - k + 1 : After(P, k)[j] = P[k + j - 1]
           /\ Range(After(P, k)) = {P[j] : j \in k .. Len(P)}
<1> DEFINE n == Len(P)
           a == After(P, k)
<1>1. n \in Nat /\ k \in Int /\ n \in Int /\ 1 <= k /\ n <= Len(P) /\ k <= n
  BY LenProperties
<1>2. n \in k .. n
  BY <1>1
<1>3. Head(a) = P[k] /\ Tail(a) = After(P, k + 1)
  BY <1>2, HeadTailOfSubSeq DEF After
<1>4. /\ a \in Seq(Instruction)
      /\ Len(a) = IF k <= n THEN n - k + 1 ELSE 0
      /\ \A j \in 1 .. n - k + 1 : a[j] = P[k + j - 1]
  BY <1>1, SliceProperties DEF After
<1> HIDE DEF a, n
<1>5. Len(a) = n - k + 1 /\ Len(a) > 0
  BY <1>1, <1>4
<1>6. a # <<>>
  BY <1>5, EmptySeq
<1>7. Range(a) = {P[j] : j \in k .. n}
  <2>1. Range(a) = {a[j] : j \in 1 .. n - k + 1}
    BY <1>4, <1>5, RangeEquality
  <2>2. \A j \in 1 .. n - k + 1 : k + j - 1 \in k .. n
    BY <1>1
  <2>3. \A j \in k .. n : j - k + 1 \in 1 .. n - k + 1 /\ k + (j - k + 1) - 1 = j
    BY <1>1
  <2>4. QED
    BY <1>4, <2>1, <2>2, <2>3
<1>8. QED
  BY <1>3, <1>4, <1>5, <1>6, <1>7 DEF a, n

(* Nothing is left behind the last instruction. *)
LEMMA AfterEnd ==
    ASSUME NEW P \in Seq(Instruction)
    PROVE  After(P, Len(P) + 1) = <<>> /\ After(P, 1) = P
BY LenProperties, SubSeqEmpty, SubSeqFull DEF After

(* A wait that found its semaphore zero, from where it queues up.           *)
blocked_wait(s) ==
    << <<"append", s>>, <<"block">>, <<"lock">>, <<"schedule">>, <<"unlock">>,
       <<"lock">>, <<"while", s>>, <<"dec", s>>, <<"unlock">> >>

Waits(s, k) == After(blocked_wait(s), k)
Signal(s, k) == After(semaphore_signal(s), k)
Finishes(k) == After(finish, k)

(* Between two instructions a thread is somewhere in one of the functions   *)
(* of the library, and may have been interrupted there.                     *)
Body(c) ==
    \/ c = <<>>
    \/ \E k \in 1 .. 4 : c = Finishes(k)
    \/ \E s \in Semaphores, k \in 1 .. 4 : c = Signal(s, k)
    \/ \E s \in Semaphores, k \in 1 .. 9 : c = Waits(s, k)
Preempted(d) == << <<"schedule">> >> \o d
Shape(c) == Body(c) \/ \E d \in Seq(Instruction) : Body(d) /\ c = Preempted(d)

(* The three programs, instruction by instruction. *)
LEMMA TheThreePrograms ==
    /\ finish \in Seq(Instruction) /\ Len(finish) = 4
    /\ finish[1] = <<"finish">> /\ finish[2] = <<"lock">>
    /\ finish[3] = <<"schedule">> /\ finish[4] = <<"unlock">>
    /\ \A s \in Semaphores :
          /\ semaphore_signal(s) \in Seq(Instruction) /\ Len(semaphore_signal(s)) = 4
          /\ semaphore_signal(s)[1] = <<"lock">> /\ semaphore_signal(s)[2] = <<"inc", s>>
          /\ semaphore_signal(s)[3] = <<"wake", s>> /\ semaphore_signal(s)[4] = <<"unlock">>
    /\ \A s \in Semaphores :
          /\ blocked_wait(s) \in Seq(Instruction) /\ Len(blocked_wait(s)) = 9
          /\ blocked_wait(s)[1] = <<"append", s>> /\ blocked_wait(s)[2] = <<"block">>
          /\ blocked_wait(s)[3] = <<"lock">> /\ blocked_wait(s)[4] = <<"schedule">>
          /\ blocked_wait(s)[5] = <<"unlock">> /\ blocked_wait(s)[6] = <<"lock">>
          /\ blocked_wait(s)[7] = <<"while", s>> /\ blocked_wait(s)[8] = <<"dec", s>>
          /\ blocked_wait(s)[9] = <<"unlock">>
<1> USE DEF Instruction, ThreadOps, SemaphoreOps
<1>1. /\ finish \in Seq(Instruction) /\ Len(finish) = 4
      /\ finish[1] = <<"finish">> /\ finish[2] = <<"lock">>
      /\ finish[3] = <<"schedule">> /\ finish[4] = <<"unlock">>
  BY DEF finish, yield
<1>2. ASSUME NEW s \in Semaphores
      PROVE  /\ semaphore_signal(s) \in Seq(Instruction) /\ Len(semaphore_signal(s)) = 4
             /\ semaphore_signal(s)[1] = <<"lock">> /\ semaphore_signal(s)[2] = <<"inc", s>>
             /\ semaphore_signal(s)[3] = <<"wake", s>> /\ semaphore_signal(s)[4] = <<"unlock">>
  BY DEF semaphore_signal
<1>3. ASSUME NEW s \in Semaphores
      PROVE  /\ blocked_wait(s) \in Seq(Instruction) /\ Len(blocked_wait(s)) = 9
             /\ blocked_wait(s)[1] = <<"append", s>> /\ blocked_wait(s)[2] = <<"block">>
             /\ blocked_wait(s)[3] = <<"lock">> /\ blocked_wait(s)[4] = <<"schedule">>
             /\ blocked_wait(s)[5] = <<"unlock">> /\ blocked_wait(s)[6] = <<"lock">>
             /\ blocked_wait(s)[7] = <<"while", s>> /\ blocked_wait(s)[8] = <<"dec", s>>
             /\ blocked_wait(s)[9] = <<"unlock">>
  BY DEF blocked_wait
<1>4. QED
  BY <1>1, <1>2, <1>3

(* The calls, and the way round the loop of a wait, lead into them. *)
LEMMA CallsAreBodies ==
    /\ finish = Finishes(1) /\ yield = Finishes(2)
    /\ \A s \in Semaphores :
          /\ semaphore_signal(s) = Signal(s, 1)
          /\ semaphore_wait(s) = Waits(s, 6)
          /\ << <<"append", s>> >> \o block \o << <<"lock">> >> \o Waits(s, 7)
                = Waits(s, 1)
<1>1. finish = Finishes(1)
  BY TheThreePrograms, AfterEnd DEF Finishes
<1>2. yield = Finishes(2)
  <2>1. /\ Finishes(2) \in Seq(Instruction) /\ Len(Finishes(2)) = 3
        /\ Finishes(2)[1] = finish[2] /\ Finishes(2)[2] = finish[3]
        /\ Finishes(2)[3] = finish[4]
    <3>1. finish \in Seq(Instruction) /\ Len(finish) = 4 /\ 2 \in 1 .. Len(finish)
      BY TheThreePrograms
    <3>2. /\ Finishes(2) \in Seq(Instruction) /\ Len(Finishes(2)) = Len(finish) - 2 + 1
          /\ \A j \in 1 .. Len(finish) - 2 + 1 : Finishes(2)[j] = finish[2 + j - 1]
      BY <3>1, AfterStep DEF Finishes
    <3>3. QED
      BY <3>1, <3>2
  <2>2. /\ yield \in Seq(Instruction) /\ Len(yield) = 3
        /\ yield[1] = finish[2] /\ yield[2] = finish[3] /\ yield[3] = finish[4]
    BY TheThreePrograms DEF yield, Instruction, ThreadOps
  <2>3. QED
    BY <2>1, <2>2, SeqEqual
<1>3. ASSUME NEW s \in Semaphores
      PROVE  /\ semaphore_signal(s) = Signal(s, 1)
             /\ semaphore_wait(s) = Waits(s, 6)
             /\ << <<"append", s>> >> \o block \o << <<"lock">> >> \o Waits(s, 7)
                = Waits(s, 1)
  <2>1. semaphore_signal(s) = Signal(s, 1)
    BY TheThreePrograms, AfterEnd DEF Signal
  <2>2. semaphore_wait(s) = Waits(s, 6)
    BY DEF Waits, After, blocked_wait, semaphore_wait
  <2>3. /\ Waits(s, 7) \in Seq(Instruction) /\ Len(Waits(s, 7)) = 3
        /\ Waits(s, 7)[1] = blocked_wait(s)[7] /\ Waits(s, 7)[2] = blocked_wait(s)[8]
        /\ Waits(s, 7)[3] = blocked_wait(s)[9]
    <3> DEFINE P == blocked_wait(s)
    <3>1. P \in Seq(Instruction) /\ Len(P) = 9 /\ 7 \in 1 .. Len(P)
      BY TheThreePrograms
    <3>2. /\ Waits(s, 7) \in Seq(Instruction) /\ Len(Waits(s, 7)) = Len(P) - 7 + 1
          /\ \A j \in 1 .. Len(P) - 7 + 1 : Waits(s, 7)[j] = P[7 + j - 1]
      BY <3>1, AfterStep DEF Waits
    <3> HIDE DEF P
    <3>3. /\ Waits(s, 7) \in Seq(Instruction) /\ Len(Waits(s, 7)) = 3
          /\ Waits(s, 7)[1] = P[7] /\ Waits(s, 7)[2] = P[8] /\ Waits(s, 7)[3] = P[9]
      BY <3>1, <3>2
    <3>4. QED
      BY <3>3 DEF P
  <2> DEFINE a == << <<"append", s>> >> \o block \o << <<"lock">> >>
  <2>4. /\ a \in Seq(Instruction) /\ Len(a) = 6
        /\ a[1] = <<"append", s>> /\ a[2] = <<"block">> /\ a[3] = <<"lock">>
        /\ a[4] = <<"schedule">> /\ a[5] = <<"unlock">> /\ a[6] = <<"lock">>
    BY DEF block, yield, Instruction, ThreadOps, SemaphoreOps
  <2> HIDE DEF a
  <2> DEFINE w == Waits(s, 7)
             P == blocked_wait(s)
  <2>5. /\ P \in Seq(Instruction) /\ Len(P) = 9
        /\ \A j \in 1 .. 6 : a[j] = P[j]
        /\ w \in Seq(Instruction) /\ Len(w) = 3
        /\ \A j \in 1 .. 3 : w[j] = P[j + 6]
    <3>1. P \in Seq(Instruction) /\ Len(P) = 9
      BY TheThreePrograms
    <3>2. ASSUME NEW j \in 1 .. 6 PROVE a[j] = P[j]
      <4>1. j = 1 \/ j = 2 \/ j = 3 \/ j = 4 \/ j = 5 \/ j = 6
        OBVIOUS
      <4>2. QED
        BY <2>4, <4>1, TheThreePrograms
    <3>3. ASSUME NEW j \in 1 .. 3 PROVE w[j] = P[j + 6]
      <4>1. (j = 1 /\ j + 6 = 7) \/ (j = 2 /\ j + 6 = 8) \/ (j = 3 /\ j + 6 = 9)
        OBVIOUS
      <4>2. QED
        BY <2>3, <4>1
    <3>4. QED
      BY <2>3, <3>1, <3>2, <3>3
  <2> HIDE DEF w, P
  <2>6. /\ a \o w \in Seq(Instruction) /\ Len(a \o w) = Len(a) + Len(w)
        /\ \A j \in 1 .. Len(a) + Len(w) :
              (a \o w)[j] = IF j <= Len(a) THEN a[j] ELSE w[j - Len(a)]
    <3>1. a \in Seq(Instruction) /\ w \in Seq(Instruction)
      BY <2>4, <2>5
    <3>2. QED
      BY <3>1, ConcatProperties
  <2>7. a \o w = P
    <3>1. Len(a) = 6 /\ Len(w) = 3 /\ Len(P) = 9
      BY <2>4, <2>5
    <3>2. ASSUME NEW j \in 1 .. 9 PROVE (a \o w)[j] = P[j]
      <4>1. CASE j <= 6
        <5>1. j \in 1 .. Len(a) + Len(w) /\ j <= Len(a) /\ j \in 1 .. 6
          BY <3>1, <4>1
        <5>2. (a \o w)[j] = a[j]
          BY <2>6, <5>1
        <5>3. QED
          BY <2>5, <5>1, <5>2
      <4>2. CASE j > 6
        <5>1. /\ j \in 1 .. Len(a) + Len(w) /\ ~(j <= Len(a))
              /\ j - Len(a) \in 1 .. 3 /\ (j - Len(a)) + 6 = j
          BY <3>1, <4>2
        <5>2. (a \o w)[j] = w[j - Len(a)]
          BY <2>6, <5>1
        <5>3. w[j - Len(a)] = P[(j - Len(a)) + 6]
          BY <2>5, <5>1
        <5>4. QED
          BY <5>1, <5>2, <5>3
      <4>3. j <= 6 \/ j > 6
        BY <3>2
      <4>4. QED
        BY <4>1, <4>2, <4>3
    <3>3. a \o w \in Seq(Instruction) /\ P \in Seq(Instruction) /\ Len(a \o w) = Len(P)
      BY <2>5, <2>6, <3>1
    <3>4. QED
      BY <3>1, <3>2, <3>3, SeqEqual
  <2>8. Waits(s, 1) = blocked_wait(s)
    BY TheThreePrograms, AfterEnd DEF Waits
  <2>9. QED
    BY <2>1, <2>2, <2>7, <2>8 DEF a, w, P
<1>4. QED
  BY <1>1, <1>2, <1>3

(* An interrupt puts one instruction in front, for the scheduler to take    *)
(* off again.                                                               *)
LEMMA PreemptedStep ==
    ASSUME NEW d \in Seq(Instruction)
    PROVE  /\ Preempted(d) \in Seq(Instruction) /\ Preempted(d) # <<>>
           /\ Head(Preempted(d)) = <<"schedule">> /\ Tail(Preempted(d)) = d
           /\ Range(Preempted(d)) = {<<"schedule">>} \cup Range(d)
<1> DEFINE a == << <<"schedule">> >>
           p == a \o d
<1>1. a \in Seq(Instruction) /\ Len(a) = 1 /\ a[1] = <<"schedule">>
  BY DEF Instruction, ThreadOps
<1> HIDE DEF a
<1>2. /\ p \in Seq(Instruction) /\ Len(p) = Len(a) + Len(d)
      /\ \A j \in 1 .. Len(a) + Len(d) : p[j] = IF j <= Len(a) THEN a[j] ELSE d[j - Len(a)]
  BY <1>1, ConcatProperties
<1>3. Len(d) \in Nat /\ Len(p) = Len(d) + 1
  BY <1>1, <1>2, LenProperties
<1> HIDE DEF p
<1>4. p[1] = <<"schedule">> /\ \A j \in 1 .. Len(d) : p[j + 1] = d[j]
  <2>1. 1 \in 1 .. Len(a) + Len(d) /\ 1 <= Len(a)
    BY <1>1, <1>3
  <2>2. p[1] = a[1]
    BY <1>2, <2>1
  <2>3. ASSUME NEW j \in 1 .. Len(d) PROVE p[j + 1] = d[j]
    <3>1. j + 1 \in 1 .. Len(a) + Len(d) /\ ~(j + 1 <= Len(a)) /\ (j + 1) - Len(a) = j
      BY <1>1, <1>3
    <3>2. QED
      BY <1>2, <3>1
  <2>4. QED
    BY <1>1, <2>2, <2>3
<1>5. p # <<>>
  BY <1>2, <1>3, EmptySeq
<1>6. /\ Head(p) = p[1] /\ Tail(p) \in Seq(Instruction) /\ Len(Tail(p)) = Len(d)
      /\ \A j \in 1 .. Len(Tail(p)) : Tail(p)[j] = p[j + 1]
  BY <1>2, <1>3, <1>5, HeadTailProperties
<1>7. Tail(p) = d
  BY <1>4, <1>6, SeqEqual
<1>8. Range(p) = {<<"schedule">>} \cup Range(d)
  BY <1>2, <1>4, <1>5, <1>6, <1>7, TailMembers
<1>9. QED
  BY <1>2, <1>4, <1>5, <1>6, <1>7, <1>8 DEF p, a, Preempted

(* Where a thread can be when it is about to execute an instruction, and    *)
(* where that takes it.                                                     *)
LEMMA ShapeStep ==
    ASSUME NEW c, Shape(c), c # <<>>
    PROVE  /\ c \in Seq(Instruction) /\ Shape(Tail(c))
           /\ \/ \E k \in 1 .. 4 : /\ c = Finishes(k) /\ Head(c) = finish[k]
                                   /\ Tail(c) = Finishes(k + 1)
              \/ \E s \in Semaphores, k \in 1 .. 4 :
                     /\ c = Signal(s, k) /\ Head(c) = semaphore_signal(s)[k]
                     /\ Tail(c) = Signal(s, k + 1)
              \/ \E s \in Semaphores, k \in 1 .. 9 :
                     /\ c = Waits(s, k) /\ Head(c) = blocked_wait(s)[k]
                     /\ Tail(c) = Waits(s, k + 1)
              \/ /\ Head(c) = <<"schedule">> /\ c = Preempted(Tail(c))
                 /\ Body(Tail(c))
<1>1. Finishes(5) = <<>> /\ \A s \in Semaphores : Signal(s, 5) = <<>> /\ Waits(s, 10) = <<>>
  <2>1. Finishes(5) = <<>>
    <3>1. finish \in Seq(Instruction) /\ Len(finish) + 1 = 5
      BY TheThreePrograms
    <3>2. After(finish, Len(finish) + 1) = <<>>
      BY <3>1, AfterEnd
    <3>3. QED
      BY <3>1, <3>2 DEF Finishes
  <2>2. ASSUME NEW s \in Semaphores PROVE Signal(s, 5) = <<>> /\ Waits(s, 10) = <<>>
    <3> DEFINE P == semaphore_signal(s)
               Q == blocked_wait(s)
    <3>1. P \in Seq(Instruction) /\ Len(P) = 4 /\ Q \in Seq(Instruction) /\ Len(Q) = 9
      BY TheThreePrograms
    <3> HIDE DEF P, Q
    <3>2. After(P, Len(P) + 1) = <<>> /\ After(Q, Len(Q) + 1) = <<>>
      BY <3>1, AfterEnd
    <3>3. After(P, 5) = <<>> /\ After(Q, 10) = <<>>
      BY <3>1, <3>2
    <3>4. QED
      BY <3>3 DEF Signal, Waits, P, Q
  <2>3. QED
    BY <2>1, <2>2
<1>2. ASSUME NEW k \in 1 .. 4, c = Finishes(k)
      PROVE  /\ c \in Seq(Instruction) /\ Shape(Tail(c))
             /\ Head(c) = finish[k] /\ Tail(c) = Finishes(k + 1)
  <2>1. finish \in Seq(Instruction) /\ k \in 1 .. Len(finish)
    BY TheThreePrograms
  <2>2. c \in Seq(Instruction) /\ Head(c) = finish[k] /\ Tail(c) = Finishes(k + 1)
    BY <1>2, <2>1, AfterStep DEF Finishes
  <2>3. k + 1 = 5 \/ k + 1 \in 1 .. 4
    OBVIOUS
  <2>4. QED
    BY <1>1, <2>2, <2>3 DEF Shape, Body
<1>3. ASSUME NEW s \in Semaphores, NEW k \in 1 .. 4, c = Signal(s, k)
      PROVE  /\ c \in Seq(Instruction) /\ Shape(Tail(c))
             /\ Head(c) = semaphore_signal(s)[k] /\ Tail(c) = Signal(s, k + 1)
  <2>1. semaphore_signal(s) \in Seq(Instruction) /\ k \in 1 .. Len(semaphore_signal(s))
    BY TheThreePrograms
  <2>2. /\ c \in Seq(Instruction) /\ Head(c) = semaphore_signal(s)[k]
        /\ Tail(c) = Signal(s, k + 1)
    BY <1>3, <2>1, AfterStep DEF Signal
  <2>3. k + 1 = 5 \/ k + 1 \in 1 .. 4
    OBVIOUS
  <2>4. QED
    BY <1>1, <2>2, <2>3 DEF Shape, Body
<1>4. ASSUME NEW s \in Semaphores, NEW k \in 1 .. 9, c = Waits(s, k)
      PROVE  /\ c \in Seq(Instruction) /\ Shape(Tail(c))
             /\ Head(c) = blocked_wait(s)[k] /\ Tail(c) = Waits(s, k + 1)
  <2>1. blocked_wait(s) \in Seq(Instruction) /\ k \in 1 .. Len(blocked_wait(s))
    BY TheThreePrograms
  <2>2. /\ c \in Seq(Instruction) /\ Head(c) = blocked_wait(s)[k]
        /\ Tail(c) = Waits(s, k + 1)
    BY <1>4, <2>1, AfterStep DEF Waits
  <2>3. k + 1 = 10 \/ k + 1 \in 1 .. 9
    OBVIOUS
  <2>4. QED
    BY <1>1, <2>2, <2>3 DEF Shape, Body
<1>5. ASSUME NEW d \in Seq(Instruction), Body(d), c = Preempted(d)
      PROVE  /\ c \in Seq(Instruction) /\ Shape(Tail(c))
             /\ Head(c) = <<"schedule">> /\ c = Preempted(Tail(c)) /\ Body(Tail(c))
  BY <1>5, PreemptedStep DEF Shape
<1>6. QED
  BY <1>2, <1>3, <1>4, <1>5 DEF Shape, Body

(* The semaphore operations a thread still has ahead of it in each program. *)
LEMMA OperationsAhead ==
    ASSUME NEW op \in SemaphoreOps, NEW r
    PROVE  /\ \A k \in 1 .. 4 : <<op, r>> \notin Range(Finishes(k))
           /\ \A s \in Semaphores, k \in 1 .. 4 :
                 <<op, r>> \in Range(Signal(s, k)) <=>
                    r = s /\ ((op = "inc" /\ k <= 2) \/ (op = "wake" /\ k <= 3))
           /\ \A s \in Semaphores, k \in 1 .. 9 :
                 <<op, r>> \in Range(Waits(s, k)) <=>
                    r = s /\ \/ op = "append" /\ k <= 1
                             \/ op = "while" /\ k <= 7
                             \/ op = "dec" /\ k <= 8
<1>1. ASSUME NEW k \in 1 .. 4 PROVE <<op, r>> \notin Range(Finishes(k))
  <2>1. Range(Finishes(k)) = {finish[j] : j \in k .. 4}
    BY TheThreePrograms, AfterStep DEF Finishes
  <2>2. \A j \in k .. 4 : j = 1 \/ j = 2 \/ j = 3 \/ j = 4
    OBVIOUS
  <2>3. QED
    BY <2>1, <2>2, TheThreePrograms
<1>2. ASSUME NEW s \in Semaphores, NEW k \in 1 .. 4
      PROVE  <<op, r>> \in Range(Signal(s, k)) <=>
                r = s /\ ((op = "inc" /\ k <= 2) \/ (op = "wake" /\ k <= 3))
  <2> DEFINE P == semaphore_signal(s)
  <2>1. Range(Signal(s, k)) = {P[j] : j \in k .. 4}
    BY TheThreePrograms, AfterStep DEF Signal
  <2>2. /\ P[1] = <<"lock">> /\ P[2] = <<"inc", s>>
        /\ P[3] = <<"wake", s>> /\ P[4] = <<"unlock">>
    BY TheThreePrograms
  <2> HIDE DEF P
  <2>3. \A j \in k .. 4 : j = 1 \/ j = 2 \/ j = 3 \/ j = 4
    OBVIOUS
  <2>4. k <= 2 <=> 2 \in k .. 4
    OBVIOUS
  <2>5. k <= 3 <=> 3 \in k .. 4
    OBVIOUS
  <2>6. <<op, r>> \in {P[j] : j \in k .. 4} <=>
            (2 \in k .. 4 /\ <<op, r>> = <<"inc", s>>)
              \/ (3 \in k .. 4 /\ <<op, r>> = <<"wake", s>>)
    BY <2>2, <2>3
  <2>7. QED
    BY <2>1, <2>4, <2>5, <2>6
<1>3. ASSUME NEW s \in Semaphores, NEW k \in 1 .. 9
      PROVE  <<op, r>> \in Range(Waits(s, k)) <=>
                r = s /\ \/ op = "append" /\ k <= 1
                         \/ op = "while" /\ k <= 7
                         \/ op = "dec" /\ k <= 8
  <2> DEFINE P == blocked_wait(s)
  <2>1. Range(Waits(s, k)) = {P[j] : j \in k .. 9}
    BY TheThreePrograms, AfterStep DEF Waits
  <2>2. /\ P[1] = <<"append", s>> /\ P[2] = <<"block">> /\ P[3] = <<"lock">>
        /\ P[4] = <<"schedule">> /\ P[5] = <<"unlock">> /\ P[6] = <<"lock">>
        /\ P[7] = <<"while", s>> /\ P[8] = <<"dec", s>> /\ P[9] = <<"unlock">>
    BY TheThreePrograms
  <2> HIDE DEF P
  <2>3. \A j \in k .. 9 : \/ j = 1 \/ j = 2 \/ j = 3 \/ j = 4 \/ j = 5
                         \/ j = 6 \/ j = 7 \/ j = 8 \/ j = 9
    OBVIOUS
  <2>4. /\ k <= 1 <=> 1 \in k .. 9
        /\ k <= 7 <=> 7 \in k .. 9
        /\ k <= 8 <=> 8 \in k .. 9
    OBVIOUS
  <2>5. <<op, r>> \in {P[j] : j \in k .. 9} <=>
            \/ 1 \in k .. 9 /\ <<op, r>> = <<"append", s>>
            \/ 7 \in k .. 9 /\ <<op, r>> = <<"while", s>>
            \/ 8 \in k .. 9 /\ <<op, r>> = <<"dec", s>>
    BY <2>2, <2>3
  <2>6. QED
    BY <2>1, <2>4, <2>5
<1>4. QED
  BY <1>1, <1>2, <1>3

(* A signal that has not added to its semaphore has not woken anybody yet.  *)
LEMMA SignalsWake ==
    ASSUME NEW c, Shape(c), NEW s, <<"inc", s>> \in Range(c)
    PROVE  <<"wake", s>> \in Range(c)
<1>1. ASSUME NEW b, Body(b), <<"inc", s>> \in Range(b) PROVE <<"wake", s>> \in Range(b)
  <2>1. b # <<>>
    BY <1>1 DEF Range
  <2>2. \A k \in 1 .. 4 : b # Finishes(k)
    BY <1>1, OperationsAhead DEF SemaphoreOps
  <2>3. \A r \in Semaphores, k \in 1 .. 9 : b # Waits(r, k)
    BY <1>1, OperationsAhead DEF SemaphoreOps
  <2>4. PICK r \in Semaphores, k \in 1 .. 4 : b = Signal(r, k)
    BY <1>1, <2>1, <2>2, <2>3 DEF Body
  <2>5. r = s /\ k <= 2
    BY <1>1, <2>4, OperationsAhead DEF SemaphoreOps
  <2>6. k <= 3
    BY <2>5
  <2>7. QED
    BY <2>4, <2>5, <2>6, OperationsAhead DEF SemaphoreOps
<1>2. CASE \E d \in Seq(Instruction) : Body(d) /\ c = Preempted(d)
  BY <1>1, <1>2, PreemptedStep
<1>3. QED
  BY <1>1, <1>2 DEF Shape

(* Two threads at the same place of a wait are at the same place. *)
LEMMA WaitsDiffer ==
    ASSUME NEW s \in Semaphores, NEW r \in Semaphores,
           NEW k \in 1 .. 7, NEW j \in 1 .. 7, Waits(s, k) = Waits(r, j)
    PROVE  s = r /\ k = j
<1>1. <<"dec", s>> \in Range(Waits(s, k))
  BY OperationsAhead DEF SemaphoreOps
<1>2. s = r
  BY <1>1, OperationsAhead DEF SemaphoreOps
<1>3. Len(Waits(s, k)) = 9 - k + 1 /\ Len(Waits(s, j)) = 9 - j + 1
  <2> DEFINE P == blocked_wait(s)
  <2>1. P \in Seq(Instruction) /\ Len(P) = 9 /\ k \in 1 .. Len(P) /\ j \in 1 .. Len(P)
    BY TheThreePrograms
  <2>2. Len(After(P, k)) = Len(P) - k + 1 /\ Len(After(P, j)) = Len(P) - j + 1
    BY <2>1, AfterStep
  <2>3. QED
    BY <2>1, <2>2 DEF Waits
<1>4. QED
  BY <1>2, <1>3

(* The first instruction of each. *)
LEMMA HeadsOfBodies ==
    /\ \A k \in 1 .. 4 : Finishes(k) # <<>> /\ Head(Finishes(k)) = finish[k]
    /\ \A s \in Semaphores, k \in 1 .. 4 :
          Signal(s, k) # <<>> /\ Head(Signal(s, k)) = semaphore_signal(s)[k]
    /\ \A s \in Semaphores, k \in 1 .. 9 :
          Waits(s, k) # <<>> /\ Head(Waits(s, k)) = blocked_wait(s)[k]
<1>1. ASSUME NEW k \in 1 .. 4 PROVE Finishes(k) # <<>> /\ Head(Finishes(k)) = finish[k]
  <2>1. finish \in Seq(Instruction) /\ k \in 1 .. Len(finish)
    BY TheThreePrograms
  <2>2. QED
    BY <2>1, AfterStep DEF Finishes
<1>2. ASSUME NEW s \in Semaphores, NEW k \in 1 .. 4
      PROVE  Signal(s, k) # <<>> /\ Head(Signal(s, k)) = semaphore_signal(s)[k]
  <2>1. semaphore_signal(s) \in Seq(Instruction) /\ k \in 1 .. Len(semaphore_signal(s))
    BY TheThreePrograms
  <2>2. QED
    BY <2>1, AfterStep DEF Signal
<1>3. ASSUME NEW s \in Semaphores, NEW k \in 1 .. 9
      PROVE  Waits(s, k) # <<>> /\ Head(Waits(s, k)) = blocked_wait(s)[k]
  <2>1. blocked_wait(s) \in Seq(Instruction) /\ k \in 1 .. Len(blocked_wait(s))
    BY TheThreePrograms
  <2>2. QED
    BY <2>1, AfterStep DEF Waits
<1>4. QED
  BY <1>1, <1>2, <1>3

(* Which instruction is first tells where the thread is. *)
LEMMA WhereInstructionIs ==
    ASSUME NEW c, Shape(c), c # <<>>
    PROVE  /\ Head(c)[1] = "finish" => c = Finishes(1) /\ Tail(c) = Finishes(2)
           /\ Head(c)[1] = "append" => \E s \in Semaphores :
                 c = Waits(s, 1) /\ Head(c) = <<"append", s>> /\ Tail(c) = Waits(s, 2)
           /\ Head(c)[1] = "block" => \E s \in Semaphores :
                 c = Waits(s, 2) /\ Tail(c) = Waits(s, 3)
           /\ Head(c)[1] = "while" => \E s \in Semaphores :
                 c = Waits(s, 7) /\ Head(c) = <<"while", s>> /\ Tail(c) = Waits(s, 8)
           /\ Head(c)[1] = "dec" => \E s \in Semaphores :
                 c = Waits(s, 8) /\ Head(c) = <<"dec", s>> /\ Tail(c) = Waits(s, 9)
           /\ Head(c)[1] = "inc" => \E s \in Semaphores :
                 c = Signal(s, 2) /\ Head(c) = <<"inc", s>> /\ Tail(c) = Signal(s, 3)
           /\ Head(c)[1] = "wake" => \E s \in Semaphores :
                 c = Signal(s, 3) /\ Head(c) = <<"wake", s>> /\ Tail(c) = Signal(s, 4)
           /\ Head(c)[1] = "schedule" =>
                 \/ c = Preempted(Tail(c)) /\ Body(Tail(c))
                 \/ c = Finishes(3) /\ Tail(c) = Finishes(4)
                 \/ \E s \in Semaphores : c = Waits(s, 4) /\ Tail(c) = Waits(s, 5)
<1>1. ASSUME NEW k \in 1 .. 4, c = Finishes(k), Head(c) = finish[k], Tail(c) = Finishes(k + 1)
      PROVE  \/ Head(c) = <<"finish">> /\ c = Finishes(1) /\ Tail(c) = Finishes(2)
             \/ Head(c) = <<"lock">> \/ Head(c) = <<"unlock">>
             \/ Head(c) = <<"schedule">> /\ c = Finishes(3) /\ Tail(c) = Finishes(4)
  <2>1. (k = 1 /\ k + 1 = 2) \/ k = 2 \/ (k = 3 /\ k + 1 = 4) \/ k = 4
    OBVIOUS
  <2>2. QED
    BY <1>1, <2>1, TheThreePrograms
<1>2. ASSUME NEW s \in Semaphores, NEW k \in 1 .. 4, c = Signal(s, k),
             Head(c) = semaphore_signal(s)[k], Tail(c) = Signal(s, k + 1)
      PROVE  \/ Head(c) = <<"lock">> \/ Head(c) = <<"unlock">>
             \/ Head(c) = <<"inc", s>> /\ c = Signal(s, 2) /\ Tail(c) = Signal(s, 3)
             \/ Head(c) = <<"wake", s>> /\ c = Signal(s, 3) /\ Tail(c) = Signal(s, 4)
  <2>1. k = 1 \/ (k = 2 /\ k + 1 = 3) \/ (k = 3 /\ k + 1 = 4) \/ k = 4
    OBVIOUS
  <2>2. QED
    BY <1>2, <2>1, TheThreePrograms
<1>3. ASSUME NEW s \in Semaphores, NEW k \in 1 .. 9, c = Waits(s, k),
             Head(c) = blocked_wait(s)[k], Tail(c) = Waits(s, k + 1)
      PROVE  \/ Head(c) = <<"lock">> \/ Head(c) = <<"unlock">>
             \/ Head(c) = <<"append", s>> /\ c = Waits(s, 1) /\ Tail(c) = Waits(s, 2)
             \/ Head(c) = <<"block">> /\ c = Waits(s, 2) /\ Tail(c) = Waits(s, 3)
             \/ Head(c) = <<"schedule">> /\ c = Waits(s, 4) /\ Tail(c) = Waits(s, 5)
             \/ Head(c) = <<"while", s>> /\ c = Waits(s, 7) /\ Tail(c) = Waits(s, 8)
             \/ Head(c) = <<"dec", s>> /\ c = Waits(s, 8) /\ Tail(c) = Waits(s, 9)
  <2>1. \/ (k = 1 /\ k + 1 = 2) \/ (k = 2 /\ k + 1 = 3) \/ k = 3 \/ (k = 4 /\ k + 1 = 5)
        \/ k = 5 \/ k = 6 \/ (k = 7 /\ k + 1 = 8) \/ (k = 8 /\ k + 1 = 9) \/ k = 9
    OBVIOUS
  <2>2. QED
    BY <1>3, <2>1, TheThreePrograms
<1>4. CASE \E k \in 1 .. 4 : /\ c = Finishes(k) /\ Head(c) = finish[k]
                             /\ Tail(c) = Finishes(k + 1)
  BY <1>1, <1>4
<1>5. CASE \E s \in Semaphores, k \in 1 .. 4 :
              /\ c = Signal(s, k) /\ Head(c) = semaphore_signal(s)[k]
              /\ Tail(c) = Signal(s, k + 1)
  BY <1>2, <1>5
<1>6. CASE \E s \in Semaphores, k \in 1 .. 9 :
              /\ c = Waits(s, k) /\ Head(c) = blocked_wait(s)[k]
              /\ Tail(c) = Waits(s, k + 1)
  <2>1. PICK s \in Semaphores, k \in 1 .. 9 :
              /\ c = Waits(s, k) /\ Head(c) = blocked_wait(s)[k]
              /\ Tail(c) = Waits(s, k + 1)
    BY <1>6
  <2>2. \/ Head(c) = <<"lock">> \/ Head(c) = <<"unlock">>
        \/ Head(c) = <<"append", s>> /\ c = Waits(s, 1) /\ Tail(c) = Waits(s, 2)
        \/ Head(c) = <<"block">> /\ c = Waits(s, 2) /\ Tail(c) = Waits(s, 3)
        \/ Head(c) = <<"schedule">> /\ c = Waits(s, 4) /\ Tail(c) = Waits(s, 5)
        \/ Head(c) = <<"while", s>> /\ c = Waits(s, 7) /\ Tail(c) = Waits(s, 8)
        \/ Head(c) = <<"dec", s>> /\ c = Waits(s, 8) /\ Tail(c) = Waits(s, 9)
    BY <1>3, <2>1
  <2>3. QED
    BY <2>2
<1>7. CASE Head(c) = <<"schedule">> /\ c = Preempted(Tail(c)) /\ Body(Tail(c))
  BY <1>7
<1>8. \/ \E k \in 1 .. 4 : /\ c = Finishes(k) /\ Head(c) = finish[k]
                           /\ Tail(c) = Finishes(k + 1)
      \/ \E s \in Semaphores, k \in 1 .. 4 :
             /\ c = Signal(s, k) /\ Head(c) = semaphore_signal(s)[k]
             /\ Tail(c) = Signal(s, k + 1)
      \/ \E s \in Semaphores, k \in 1 .. 9 :
             /\ c = Waits(s, k) /\ Head(c) = blocked_wait(s)[k]
             /\ Tail(c) = Waits(s, k + 1)
      \/ Head(c) = <<"schedule">> /\ c = Preempted(Tail(c)) /\ Body(Tail(c))
  BY ShapeStep
<1>9. QED
  BY <1>4, <1>5, <1>6, <1>7, <1>8, Zenon

(* A thread gets to the block only from queueing up, and nowhere else to    *)
(* the queueing up than by the loop of the wait.                            *)
LEMMA BeforeTheBlock ==
    ASSUME NEW c, Shape(c), WellFormed(c), c # <<>>, NEW r \in Semaphores
    PROVE  /\ Tail(c) # Waits(r, 1)
           /\ Tail(c) = Waits(r, 2) => Head(c)[1] = "append" /\ c = Waits(r, 1)
<1>1. /\ Waits(r, 1) # <<>> /\ Head(Waits(r, 1)) = <<"append", r>>
      /\ Waits(r, 2) # <<>> /\ Head(Waits(r, 2)) = <<"block">>
  BY HeadsOfBodies, TheThreePrograms
<1> SUFFICES ASSUME Tail(c) \in {Waits(r, 1), Waits(r, 2)}
             PROVE  /\ Tail(c) = Waits(r, 2)
                    /\ Head(c)[1] = "append" /\ c = Waits(r, 1)
  OBVIOUS
<1>2. Tail(c) # <<>> /\ Head(Tail(c))[1] \in {"append", "block"}
  BY <1>1
<1>3. ASSUME NEW k \in 1 .. 4, Tail(c) = Finishes(k + 1) PROVE FALSE
  <2>1. finish \in Seq(Instruction) /\ Len(finish) = 4
    BY TheThreePrograms
  <2>2. k + 1 # 5
    <3>1. After(finish, Len(finish) + 1) = <<>>
      BY <2>1, AfterEnd
    <3>2. Finishes(5) = <<>>
      BY <2>1, <3>1 DEF Finishes
    <3>3. QED
      BY <1>2, <1>3, <3>2
  <2>3. k + 1 = 2 \/ k + 1 = 3 \/ k + 1 = 4
    BY <2>2
  <2>4. Head(Finishes(2)) = <<"lock">> /\ Head(Finishes(3)) = <<"schedule">>
          /\ Head(Finishes(4)) = <<"unlock">>
    BY HeadsOfBodies, TheThreePrograms
  <2>5. QED
    BY <1>2, <1>3, <2>3, <2>4
<1>4. ASSUME NEW s \in Semaphores, NEW k \in 1 .. 4, Tail(c) = Signal(s, k + 1) PROVE FALSE
  <2> DEFINE P == semaphore_signal(s)
  <2>1. P \in Seq(Instruction) /\ Len(P) = 4
    BY TheThreePrograms
  <2>2. k + 1 # 5
    <3> HIDE DEF P
    <3>1. After(P, Len(P) + 1) = <<>>
      BY <2>1, AfterEnd
    <3>2. Signal(s, 5) = <<>>
      BY <2>1, <3>1 DEF Signal, P
    <3>3. QED
      BY <1>2, <1>4, <3>2
  <2>3. k + 1 = 2 \/ k + 1 = 3 \/ k + 1 = 4
    BY <2>2
  <2>4. Head(Signal(s, 2)) = <<"inc", s>> /\ Head(Signal(s, 3)) = <<"wake", s>>
          /\ Head(Signal(s, 4)) = <<"unlock">>
    BY HeadsOfBodies, TheThreePrograms
  <2>5. QED
    BY <1>2, <1>4, <2>3, <2>4
<1>5. ASSUME NEW s \in Semaphores, NEW k \in 1 .. 9, c = Waits(s, k),
             Tail(c) = Waits(s, k + 1), Head(c) = blocked_wait(s)[k]
      PROVE  Tail(c) = Waits(r, 2) /\ Head(c)[1] = "append" /\ c = Waits(r, 1)
  <2> DEFINE P == blocked_wait(s)
  <2>1. k + 1 # 10
    <3>1. P \in Seq(Instruction) /\ Len(P) = 9
      BY TheThreePrograms
    <3> HIDE DEF P
    <3>2. After(P, Len(P) + 1) = <<>>
      BY <3>1, AfterEnd
    <3>3. Waits(s, 10) = <<>>
      BY <3>1, <3>2 DEF Waits, P
    <3>4. QED
      BY <1>2, <1>5, <3>3
  <2>2. k \in 1 .. 8 /\ k + 1 \in 1 .. 9
    BY <2>1
  <2>3. blocked_wait(s)[k + 1][1] \in {"append", "block"}
    BY <1>2, <1>5, <2>2, HeadsOfBodies
  <2>4. k = 1
    <3>1. \/ k + 1 = 2 \/ k + 1 = 3 \/ k + 1 = 4 \/ k + 1 = 5
          \/ k + 1 = 6 \/ k + 1 = 7 \/ k + 1 = 8 \/ k + 1 = 9
      BY <2>2
    <3>2. k + 1 = 2
      BY <2>3, <3>1, TheThreePrograms
    <3>3. QED
      BY <3>2
  <2>5. Tail(c) = Waits(s, 2) /\ c = Waits(s, 1)
    BY <1>5, <2>4
  <2>6. Head(Tail(c)) = <<"block">>
    <3>1. 2 \in 1 .. 9 /\ blocked_wait(s)[2] = <<"block">>
      BY TheThreePrograms
    <3>2. QED
      BY <2>5, <3>1, HeadsOfBodies
  <2>7. Tail(c) = Waits(r, 2)
    BY <1>1, <2>6
  <2>8. s = r
    BY <2>5, <2>7, WaitsDiffer
  <2>9. QED
    BY <1>5, <2>4, <2>5, <2>7, <2>8, TheThreePrograms
<1>6. Head(c) # <<"schedule">>
  <2>1. c \in Seq(Instruction) /\ Len(c) > 1 /\ Head(Tail(c)) = c[2] /\ Head(c) = c[1]
    BY <1>2, TailWellFormed, HeadTailProperties DEF WellFormed
  <2>2. c[2][1] \in Critical /\ 2 \in 2 .. Len(c) /\ 2 - 1 = 1
    BY <1>2, <2>1, LenProperties DEF Critical, SemaphoreOps
  <2>3. c[1][1] \in Cover
    BY <2>2 DEF WellFormed
  <2>4. QED
    BY <2>1, <2>3 DEF Cover, Critical, SemaphoreOps
<1>7. QED
  BY <1>3, <1>4, <1>5, <1>6, ShapeStep

-----------------------------------------------------------------------------
(* The inductive invariant. *)

(* Every thread main is to create exists once the timer has been started,   *)
(* and nobody is current before the first thread runs or after the end.     *)
AllCreated == status # "created" => \A t \in Thread : state[t] # "none"
NobodyAtRest == status # "running" => current = NoThread

QueueInv == QueuesMatchStates /\ AllCreated /\ NobodyAtRest /\ ExitsAreTruthful

Shapes == \A t \in Thread : Shape(code[t])

(* A thread on a semaphore's list is about to block, or has blocked and is  *)
(* on its way into the scheduler, or waits there to be switched to.         *)
Waiting(t, s) ==
    \/ t = current /\ lock = 1 /\ state[t] = "Running" /\ code[t] = Waits(s, 2)
    \/ /\ t = current /\ lock = 1 /\ state[t] = "Blocked"
       /\ code[t] \in {Waits(s, 3), Waits(s, 4)}
    \/ t # current /\ state[t] = "Blocked" /\ code[t] = Waits(s, 5)

ListInv ==
    /\ \A s \in Semaphores : \A t \in Listed(s) : Waiting(t, s)
    /\ \A t \in Thread : state[t] = "Blocked" => \E s \in Semaphores : t \in Listed(s)
    /\ \A s \in Semaphores, t \in Thread : code[t] = Waits(s, 2) => t \in Listed(s)
    /\ \A s \in Semaphores : IsInjective(waiters[s])

(* Nobody queues up at a semaphore that is not zero. *)
AppendsAtZero ==
    \A s \in Semaphores, t \in Thread : code[t] = Waits(s, 1) => value[s] = 0

(* A thread that has finished only has the way into the scheduler left.     *)
LeavingInv ==
    \A t \in Thread :
        /\ state[t] = "Finished" =>
              code[t] \in {Finishes(2), Finishes(3), Preempted(Finishes(2))}
        /\ state[t] = "deleted" => code[t] \in {Finishes(2), Finishes(4)}

(* Those who will look at a semaphore again or wake one who will, counted   *)
(* against its value with the signals that are on their way added.          *)
Active(s) ==
    ((Pending("while", s) \cup Pending("dec", s)) \ Listed(s)) \cup Pending("wake", s)
WakeupInv ==
    \A s \in Semaphores : waiters[s] # <<>> =>
        value[s] + Cardinality(Pending("inc", s)) <= Cardinality(Active(s))

SchedInv ==
    /\ SemInv /\ QueueInv /\ Shapes /\ ListInv /\ AppendsAtZero
    /\ LeavingInv /\ WakeupInv

-----------------------------------------------------------------------------
(* The queues and the states of the threads. *)

(* A step that touches neither, nor who runs. *)
LEMMA QuietKeepsQueues ==
    QueueInv /\ UNCHANGED <<status, current, state, ready, blocked>> => QueueInv'
BY DEF QueueInv, QueuesMatchStates, AllCreated, NobodyAtRest, ExitsAreTruthful

(* main fills the ready queue and runs its head. *)
LEMMA StartUpKeepsQueues == SchedInv /\ StartUp => QueueInv'
<1> SUFFICES ASSUME SchedInv, StartUp PROVE QueueInv'
  OBVIOUS
<1> USE DEF SchedInv, SemInv, SemTypeOK, ThreadTypeOK, QueueInv
<1>1. /\ ready \in Seq(Thread) /\ blocked \in Seq(Thread)
      /\ state \in [Thread -> States]
  OBVIOUS
<1>2. status \in Starting /\ current = NoThread /\ NoThread \notin Thread
  BY SThreadAssumption
     DEF StartUp, Create, StartTimer, SetSchedulerContext, FirstSchedule, Starting, StartTypeOK
<1>3. ASSUME NEW t \in Thread, Create(t) PROVE QueueInv'
  <2>1. t \notin Range(ready)
    BY <1>3 DEF Create, QueuesMatchStates
  <2>2. Range(ready') = Range(ready) \cup {t} /\ IsInjective(ready')
    BY <1>1, <1>3, <2>1, AppendMembers DEF Create, queue_append, QueuesMatchStates
  <2>3. \A u \in Thread : state'[u] = IF u = t THEN "Ready" ELSE state[u]
    BY <1>3 DEF Create
  <2>4. QueuesMatchStates'
    BY <1>2, <1>3, <2>2, <2>3 DEF Create, QueuesMatchStates
  <2>5. AllCreated' /\ NobodyAtRest' /\ ExitsAreTruthful'
    BY <1>2, <1>3 DEF Create, AllCreated, NobodyAtRest, ExitsAreTruthful
  <2>6. QED
    BY <2>4, <2>5
<1>4. CASE StartTimer \/ SetSchedulerContext
  <2>1. /\ UNCHANGED <<current, state, ready, blocked>>
        /\ status' \in {"armed", "context_set"}
    BY <1>4 DEF StartTimer, SetSchedulerContext
  <2>2. \A t \in Thread : state[t] # "none"
    BY <1>4 DEF StartTimer, SetSchedulerContext, AllCreated
  <2>3. QED
    BY <1>2, <2>1, <2>2
       DEF QueuesMatchStates, AllCreated, NobodyAtRest, ExitsAreTruthful
<1>5. CASE FirstSchedule
  <2> DEFINE h == Head(ready)
  <2>1. ready # <<>>
    BY <1>5 DEF FirstSchedule, StartTypeOK
  <2>2. /\ h \in Thread /\ h \in Range(ready)
        /\ Range(ready') = Range(ready) \ {h} /\ IsInjective(ready')
    BY <1>1, <1>5, <2>1, TailMembers, HeadTailProperties
       DEF FirstSchedule, QueuesMatchStates
  <2> HIDE DEF h
  <2>3. /\ status' = "running" /\ current' = h /\ blocked' = blocked
        /\ \A u \in Thread : state'[u] = IF u = h THEN "Running" ELSE state[u]
    BY <1>5, <2>2 DEF FirstSchedule, h
  <2>4. state[h] = "Ready"
    BY <2>2 DEF QueuesMatchStates
  <2>5. QueuesMatchStates'
    BY <1>2, <2>2, <2>3, <2>4 DEF QueuesMatchStates
  <2>6. AllCreated' /\ NobodyAtRest' /\ ExitsAreTruthful'
    <3>1. \A t \in Thread : state[t] # "none"
      BY <1>5 DEF FirstSchedule, AllCreated
    <3>2. QED
      BY <2>3, <3>1 DEF AllCreated, NobodyAtRest, ExitsAreTruthful
  <2>7. QED
    BY <2>5, <2>6
<1>6. QED
  BY <1>3, <1>4, <1>5 DEF StartUp

(* The scheduler puts the thread it leaves where its state belongs and      *)
(* takes the next, or finds none and tells which kind of end it is.         *)
LEMMA ScheduleKeepsQueues == SchedInv /\ Schedule => QueueInv'
<1> SUFFICES ASSUME SchedInv, Schedule PROVE QueueInv'
  OBVIOUS
<1> USE DEF SchedInv, SemInv, SemTypeOK, ThreadTypeOK, QueueInv
<1> DEFINE c == current
           saved == SavedState(c)
           queue == IF saved = "Ready" THEN queue_append(ready, c) ELSE ready
<1>1. /\ ready \in Seq(Thread) /\ blocked \in Seq(Thread)
      /\ state \in [Thread -> States] /\ NoThread \notin Thread
  BY SThreadAssumption
<1>2. c \in Thread /\ status = "running" /\ \A t \in Thread : state[t] # "none"
  BY DEF Schedule, Executing, AllCreated
<1>3. state[c] \in {"Running", "Blocked", "Finished"}
        /\ c \notin Range(ready) /\ c \notin Range(blocked)
  BY <1>2 DEF QueuesMatchStates
<1>4. \/ state[c] = "Running" /\ saved = "Ready"
      \/ state[c] = "Blocked" /\ saved = "Blocked"
      \/ state[c] = "Finished" /\ saved = "deleted"
  BY <1>3 DEF SavedState
<1>5. /\ queue \in Seq(Thread) /\ IsInjective(queue)
      /\ Range(queue) = IF saved = "Ready" THEN Range(ready) \cup {c} ELSE Range(ready)
  <2>1. IsInjective(ready)
    BY DEF QueuesMatchStates
  <2>2. /\ Append(ready, c) \in Seq(Thread) /\ IsInjective(Append(ready, c))
        /\ Range(Append(ready, c)) = Range(ready) \cup {c}
    BY <1>1, <1>2, <1>3, <2>1, AppendMembers, AppendProperties
  <2>3. queue = IF saved = "Ready" THEN Append(ready, c) ELSE ready
    BY DEF queue_append
  <2> HIDE DEF queue, saved
  <2>4. QED
    BY <1>1, <2>1, <2>2, <2>3
<1>6. /\ blocked' \in Seq(Thread) /\ IsInjective(blocked')
      /\ Range(blocked') = IF saved = "Blocked" THEN Range(blocked) \cup {c} ELSE Range(blocked)
  <2>1. blocked' = IF saved = "Blocked" THEN Append(blocked, c) ELSE blocked
    BY DEF Schedule, queue_append
  <2>2. IsInjective(blocked)
    BY DEF QueuesMatchStates
  <2>3. /\ Append(blocked, c) \in Seq(Thread) /\ IsInjective(Append(blocked, c))
        /\ Range(Append(blocked, c)) = Range(blocked) \cup {c}
    BY <1>1, <1>2, <1>3, <2>2, AppendMembers, AppendProperties
  <2> HIDE DEF saved
  <2>4. QED
    BY <1>1, <2>1, <2>2, <2>3
<1> HIDE DEF saved
<1>7. CASE queue = <<>>
  <2>1. /\ status' = IF blocked' = <<>> THEN "completed" ELSE "deadlocked"
        /\ current' = NoThread /\ ready' = queue
        /\ state' = [state EXCEPT ![c] = saved]
    BY <1>7 DEF Schedule, saved
  <2>2. \A u \in Thread : state'[u] = IF u = c THEN saved ELSE state[u]
    BY <1>1, <2>1
  <2>3. Range(queue) = {}
    BY <1>7, RangeEquality DEF Range
  <2> HIDE DEF queue
  <2>4. saved # "Ready"
    BY <1>5, <2>3
  <2>5. QueuesMatchStates'
    BY <1>1, <1>2, <1>3, <1>4, <1>5, <1>6, <2>1, <2>2, <2>4 DEF QueuesMatchStates
  <2>6. \A u \in Thread : state'[u] \in {"deleted", "Blocked"}
    BY <1>1, <1>2, <1>4, <1>5, <2>2, <2>3, <2>4 DEF QueuesMatchStates, States
  <2>7. blocked' = <<>> => \A u \in Thread : state'[u] = "deleted"
    <3>1. SUFFICES ASSUME blocked' = <<>> PROVE \A u \in Thread : state'[u] = "deleted"
      OBVIOUS
    <3>2. Range(blocked') = {}
      BY <3>1 DEF Range
    <3>3. saved # "Blocked" /\ Range(blocked) = {}
      BY <1>6, <3>2
    <3>4. QED
      BY <1>4, <2>2, <2>4, <2>6, <3>3 DEF QueuesMatchStates
  <2>8. blocked' # <<>> => \E u \in Thread : state'[u] = "Blocked"
    <3>1. SUFFICES ASSUME blocked' # <<>> PROVE \E u \in Thread : state'[u] = "Blocked"
      OBVIOUS
    <3>2. Head(blocked') \in Range(blocked') /\ Head(blocked') \in Thread
      BY <1>6, <3>1, TailMembers, HeadTailProperties
    <3>3. QED
      BY <2>5, <3>2 DEF QueuesMatchStates
  <2>9. QED
    BY <1>2, <2>1, <2>2, <2>5, <2>6, <2>7, <2>8
       DEF AllCreated, NobodyAtRest, ExitsAreTruthful
<1>8. CASE queue # <<>>
  <2> DEFINE h == Head(queue)
  <2>1. /\ status' = status /\ current' = h /\ ready' = Tail(queue)
        /\ state' = [state EXCEPT ![c] = saved, ![h] = "Running"]
    BY <1>8 DEF Schedule, saved
  <2>2. /\ h \in Thread /\ h \in Range(queue)
        /\ Range(ready') = Range(queue) \ {h} /\ IsInjective(ready')
    BY <1>5, <1>8, <2>1, TailMembers, HeadTailProperties
  <2> HIDE DEF h, queue
  <2>3. \A u \in Thread : state'[u] = IF u = h THEN "Running"
                                     ELSE IF u = c THEN saved ELSE state[u]
    BY <1>1, <2>1
  <2>4. (h = c /\ saved = "Ready") \/ (h # c /\ state[h] = "Ready")
    BY <1>3, <1>5, <2>2 DEF QueuesMatchStates
  <2>5. QueuesMatchStates'
    <3>1. \A t \in Thread : (state'[t] = "Ready") <=> (t \in Range(ready'))
      BY <1>3, <1>4, <1>5, <2>2, <2>3, <2>4 DEF QueuesMatchStates
    <3>2. \A t \in Thread : t \in Range(blocked') => state'[t] = "Blocked" /\ t # current'
      BY <1>3, <1>4, <1>6, <2>1, <2>3, <2>4 DEF QueuesMatchStates
    <3>3. \A t \in Thread : state'[t] \in {"Running", "Finished"} => t = current'
      BY <1>4, <2>1, <2>3 DEF QueuesMatchStates
    <3>4. \A t \in Thread : state'[t] = "Blocked" /\ t # current' => t \in Range(blocked')
      BY <1>4, <1>6, <2>1, <2>3 DEF QueuesMatchStates
    <3>5. state'[current'] = "Running"
      BY <2>1, <2>2, <2>3
    <3>6. QED
      BY <1>6, <2>2, <3>1, <3>2, <3>3, <3>4, <3>5 DEF QueuesMatchStates
  <2>6. AllCreated' /\ NobodyAtRest' /\ ExitsAreTruthful'
    BY <1>2, <1>4, <2>1, <2>3 DEF AllCreated, NobodyAtRest, ExitsAreTruthful
  <2>7. QED
    BY <2>5, <2>6
<1>9. QED
  BY <1>7, <1>8

(* Unblocking a thread that waits moves it from one queue to the other.     *)
LEMMA UnblockKeepsQueues ==
    ASSUME SchedInv, status = "running", NEW t \in Thread, Unblock(t), t # current,
           state[t] = "Blocked", current' = current
    PROVE  QueueInv'
<1> USE DEF SchedInv, SemInv, SemTypeOK, ThreadTypeOK, QueueInv
<1>1. /\ ready \in Seq(Thread) /\ blocked \in Seq(Thread)
      /\ state \in [Thread -> States] /\ current \in Thread
  OBVIOUS
<1>2. t \notin Range(ready) /\ t \in Range(blocked)
  BY DEF QueuesMatchStates
<1>3. /\ Range(ready') = Range(ready) \cup {t} /\ IsInjective(ready')
      /\ Range(blocked') = Range(blocked) \ {t} /\ IsInjective(blocked')
  <2>1. ready' = Append(ready, t) /\ blocked' = queue_remove(blocked, t)
    BY DEF Unblock, queue_append
  <2>2. IsInjective(ready) /\ IsInjective(blocked)
    BY DEF QueuesMatchStates
  <2>3. /\ Range(Append(ready, t)) = Range(ready) \cup {t} /\ IsInjective(Append(ready, t))
    BY <1>1, <1>2, <2>2, AppendMembers
  <2>4. /\ Range(queue_remove(blocked, t)) = Range(blocked) \ {t}
        /\ IsInjective(queue_remove(blocked, t))
    BY <1>1, <2>2, RemoveMembers
  <2>5. QED
    BY <2>1, <2>3, <2>4
<1>4. /\ status' = "running"
      /\ \A u \in Thread : state'[u] = IF u = t THEN "Ready" ELSE state[u]
  BY <1>1 DEF Unblock
<1>5. QueuesMatchStates'
  BY <1>1, <1>2, <1>3, <1>4 DEF QueuesMatchStates
<1>6. AllCreated' /\ NobodyAtRest' /\ ExitsAreTruthful'
  BY <1>4 DEF AllCreated, NobodyAtRest, ExitsAreTruthful
<1>7. QED
  BY <1>5, <1>6

(* The current thread changes its own state. *)
LEMMA SetStateKeepsQueues ==
    ASSUME SchedInv, NEW op, NEW s \in {"Blocked", "Finished"}, SetState(op, s)
    PROVE  QueueInv'
<1> USE DEF SchedInv, SemInv, SemTypeOK, ThreadTypeOK, QueueInv
<1>1. /\ current \in Thread /\ status = "running"
      /\ UNCHANGED <<status, current, ready, blocked>>
      /\ \A u \in Thread : state'[u] = IF u = current THEN s ELSE state[u]
  BY DEF SetState, Executing
<1>2. QueuesMatchStates'
  BY <1>1 DEF QueuesMatchStates
<1>3. AllCreated' /\ NobodyAtRest' /\ ExitsAreTruthful'
  BY <1>1 DEF AllCreated, NobodyAtRest, ExitsAreTruthful
<1>4. QED
  BY <1>2, <1>3

-----------------------------------------------------------------------------
(* Where the threads are. *)

(* The current thread takes an instruction off what it has left. *)
LEMMA CurrentInstruction ==
    ASSUME SchedInv, NEW op, Executing(op)
    PROVE  /\ current \in Thread /\ status = "running"
           /\ code[current] # <<>> /\ Head(code[current])[1] = op
           /\ Shape(code[current]) /\ WellFormed(code[current])
           /\ op \in Critical => lock = 1
           /\ Done => /\ \A t \in Thread : code'[t] = IF t = current THEN Tail(code[current])
                                                                   ELSE code[t]
                      /\ code'[current] = Tail(code[current])
                      /\ op # "append" => \A s \in Semaphores :
                            code'[current] \notin {Waits(s, 1), Waits(s, 2)}
                      /\ Shapes'
<1>1. /\ current \in Thread /\ status = "running"
      /\ code[current] # <<>> /\ Head(code[current])[1] = op
      /\ Shape(code[current]) /\ WellFormed(code[current])
      /\ op \in Critical => lock = 1
  BY DEF Executing, SchedInv, SemInv, SemTypeOK, ThreadTypeOK, Shapes, Programs,
         OperationsAreAtomic
<1>2. ASSUME Done
      PROVE  /\ \A t \in Thread : code'[t] = IF t = current THEN Tail(code[current])
                                                            ELSE code[t]
             /\ code'[current] = Tail(code[current])
             /\ op # "append" => \A s \in Semaphores :
                   code'[current] \notin {Waits(s, 1), Waits(s, 2)}
             /\ Shapes'
  <2>1. \A t \in Thread : code'[t] = IF t = current THEN Tail(code[current]) ELSE code[t]
    BY <1>2 DEF Done, SchedInv, SemInv, SemTypeOK
  <2>2. Shape(Tail(code[current]))
    BY <1>1, ShapeStep
  <2>3. Shapes'
    BY <2>1, <2>2 DEF Shapes, SchedInv
  <2>4. code'[current] = Tail(code[current])
    BY <1>1, <2>1
  <2>5. \A s \in Semaphores : op # "append" =>
            Tail(code[current]) # Waits(s, 1) /\ Tail(code[current]) # Waits(s, 2)
    BY <1>1, BeforeTheBlock
  <2>6. QED
    BY <2>1, <2>3, <2>4, <2>5
<1>3. QED
  BY <1>1, <1>2

(* Only a thread on its way into the scheduler is on a list while it runs.  *)
LEMMA NotListed ==
    ASSUME SchedInv, current \in Thread, status = "running",
           \/ lock = 0
           \/ code[current] = <<>>
           \/ Head(code[current])[1] \notin {"block", "lock", "schedule"}
    PROVE  state[current] # "Blocked" /\ \A s \in Semaphores : current \notin Listed(s)
<1>1. ASSUME NEW s \in Semaphores, current \in Listed(s) PROVE FALSE
  <2>1. Waiting(current, s)
    BY <1>1 DEF SchedInv, ListInv
  <2>2. lock = 1 /\ \E k \in {2, 3, 4} : code[current] = Waits(s, k)
    BY <2>1 DEF Waiting
  <2>3. /\ Waits(s, 2) # <<>> /\ Head(Waits(s, 2)) = <<"block">>
        /\ Waits(s, 3) # <<>> /\ Head(Waits(s, 3)) = <<"lock">>
        /\ Waits(s, 4) # <<>> /\ Head(Waits(s, 4)) = <<"schedule">>
    BY HeadsOfBodies, TheThreePrograms
  <2>4. QED
    BY <2>2, <2>3
<1>2. state[current] # "Blocked"
  BY <1>1 DEF SchedInv, ListInv
<1>3. QED
  BY <1>1, <1>2

(* A step of the current thread alone keeps the lists if it keeps its own   *)
(* place on them.                                                           *)
LEMMA OwnStepKeepsLists ==
    ASSUME SchedInv, current \in Thread, UNCHANGED <<current, waiters>>,
           \A t \in Thread \ {current} : code'[t] = code[t] /\ state'[t] = state[t],
           \A s \in Semaphores : current \in Listed(s) => Waiting(current, s)',
           state'[current] = "Blocked" => \E s \in Semaphores : current \in Listed(s),
           \A s \in Semaphores : code'[current] = Waits(s, 2) => current \in Listed(s)
    PROVE  ListInv'
<1> USE DEF SchedInv
<1>1. \A s \in Semaphores : Listed(s)' = Listed(s) /\ Listed(s) \subseteq Thread
  BY RangeOfSeq DEF Listed, SemInv, SemTypeOK
<1>2. ASSUME NEW s \in Semaphores, NEW t \in Listed(s) PROVE Waiting(t, s)'
  <2>1. CASE t = current
    BY <1>2, <2>1
  <2>2. CASE t # current
    <3>1. t \in Thread /\ state[t] = "Blocked" /\ code[t] = Waits(s, 5)
      BY <1>1, <1>2, <2>2 DEF ListInv, Waiting
    <3>2. QED
      BY <2>2, <3>1 DEF Waiting
  <2>3. QED
    BY <2>1, <2>2
<1>3. \A t \in Thread : state'[t] = "Blocked" => \E s \in Semaphores : t \in Listed(s)
  BY DEF ListInv
<1>4. \A s \in Semaphores, t \in Thread : code'[t] = Waits(s, 2) => t \in Listed(s)
  BY DEF ListInv
<1>5. \A s \in Semaphores : IsInjective(waiters'[s])
  BY DEF ListInv
<1>6. QED
  BY <1>1, <1>2, <1>3, <1>4, <1>5 DEF ListInv

(* The queueing up of others is not possible while one thread runs. *)
LEMMA OwnStepKeepsAppends ==
    ASSUME SchedInv, \A t \in Thread \ {current} : code'[t] = code[t],
           \A s \in Semaphores :
               current \in Thread /\ code'[current] = Waits(s, 1) => value'[s] = 0
    PROVE  AppendsAtZero'
<1> SUFFICES ASSUME NEW s \in Semaphores, NEW t \in Thread, code'[t] = Waits(s, 1)
             PROVE  value'[s] = 0
  BY DEF AppendsAtZero
<1>1. Waits(s, 1) # <<>> /\ Head(Waits(s, 1)) = <<"append", s>>
  BY HeadsOfBodies, TheThreePrograms
<1>2. t = current
  <2>1. SUFFICES ASSUME t # current PROVE FALSE
    OBVIOUS
  <2>2. code[t] # <<>> /\ Head(code[t])[1] = "append"
    BY <1>1, <2>1
  <2>3. QED
    BY <2>1, <2>2 DEF SchedInv, SemInv, OperationsAreAtomic, Critical, SemaphoreOps
<1>3. QED
  BY <1>2

(* A thread that has finished takes the lock and calls the scheduler.       *)
LEMMA FinishedHeads ==
    ASSUME SchedInv, NEW t \in Thread, state[t] = "Finished"
    PROVE  /\ code[t] # <<>>
           /\ \/ Head(code[t]) = <<"lock">> /\ code[t] = Finishes(2)
              \/ /\ Head(code[t]) = <<"schedule">>
                 /\ Tail(code[t]) \in {Finishes(2), Finishes(4)}
<1>1. code[t] \in {Finishes(2), Finishes(3), Preempted(Finishes(2))}
  BY DEF SchedInv, LeavingInv
<1>2. /\ Finishes(2) # <<>> /\ Head(Finishes(2)) = <<"lock">>
      /\ Finishes(3) # <<>> /\ Head(Finishes(3)) = <<"schedule">>
  BY HeadsOfBodies, TheThreePrograms
<1>3. Tail(Finishes(3)) = Finishes(4) /\ Finishes(2) \in Seq(Instruction)
  <2>1. finish \in Seq(Instruction) /\ 2 \in 1 .. Len(finish) /\ 3 \in 1 .. Len(finish)
    BY TheThreePrograms
  <2>2. Tail(After(finish, 3)) = After(finish, 3 + 1) /\ After(finish, 2) \in Seq(Instruction)
    BY <2>1, AfterStep
  <2>3. QED
    BY <2>2 DEF Finishes
<1>4. /\ Preempted(Finishes(2)) # <<>> /\ Head(Preempted(Finishes(2))) = <<"schedule">>
      /\ Tail(Preempted(Finishes(2))) = Finishes(2)
  BY <1>3, PreemptedStep
<1>5. QED
  BY <1>1, <1>2, <1>3, <1>4

(* An instruction that is not part of the way into the scheduler. *)
LEMMA OtherInstructionKeepsPlaces ==
    ASSUME SchedInv, NEW op, Executing(op), Done,
           op \notin {"append", "block", "finish", "lock", "schedule"},
           UNCHANGED <<current, state, waiters>>
    PROVE  ListInv' /\ AppendsAtZero' /\ LeavingInv'
<1>1. /\ current \in Thread /\ status = "running"
      /\ code[current] # <<>> /\ Head(code[current])[1] = op
      /\ Shape(code[current]) /\ WellFormed(code[current])
      /\ \A t \in Thread : code'[t] = IF t = current THEN Tail(code[current]) ELSE code[t]
      /\ code'[current] = Tail(code[current])
  BY CurrentInstruction
<1>2. state[current] # "Blocked" /\ \A s \in Semaphores : current \notin Listed(s)
  BY <1>1, NotListed
<1>3. \A s \in Semaphores : code'[current] # Waits(s, 1) /\ code'[current] # Waits(s, 2)
  BY CurrentInstruction
<1>4. ListInv'
  BY <1>1, <1>2, <1>3, OwnStepKeepsLists
<1>5. AppendsAtZero'
  BY <1>1, <1>3, OwnStepKeepsAppends
<1>6. LeavingInv'
  <2>1. state[current] # "Finished"
    BY <1>1, FinishedHeads
  <2>2. state[current] # "deleted"
    BY <1>1 DEF SchedInv, QueueInv, QueuesMatchStates
  <2>3. QED
    BY <1>1, <2>1, <2>2 DEF SchedInv, LeavingInv
<1>7. QED
  BY <1>4, <1>5, <1>6

(* Taking the lock brings a thread that blocks or finishes closer to the    *)
(* scheduler.                                                               *)
LEMMA LockKeepsPlaces ==
    ASSUME SchedInv, Lock, UNCHANGED semaphoreVars
    PROVE  ListInv' /\ AppendsAtZero' /\ LeavingInv'
<1>1. Executing("lock") /\ Done /\ lock' = 1 /\ UNCHANGED <<current, state, waiters>>
  BY DEF Lock, semaphoreVars
<1>2. /\ current \in Thread /\ status = "running"
      /\ code[current] # <<>> /\ Head(code[current])[1] = "lock"
      /\ Shape(code[current]) /\ WellFormed(code[current])
      /\ \A t \in Thread : code'[t] = IF t = current THEN Tail(code[current]) ELSE code[t]
      /\ code'[current] = Tail(code[current])
  BY <1>1, CurrentInstruction
<1>3. \A s \in Semaphores : code'[current] # Waits(s, 1) /\ code'[current] # Waits(s, 2)
  BY <1>1, CurrentInstruction
<1>4. \A s \in Semaphores : /\ Head(Waits(s, 2)) = <<"block">>
                            /\ Head(Waits(s, 4)) = <<"schedule">>
                            /\ Tail(Waits(s, 3)) = Waits(s, 4)
  <2> SUFFICES ASSUME NEW s \in Semaphores
               PROVE  /\ Head(Waits(s, 2)) = <<"block">>
                      /\ Head(Waits(s, 4)) = <<"schedule">>
                      /\ Tail(Waits(s, 3)) = Waits(s, 4)
    OBVIOUS
  <2>1. blocked_wait(s) \in Seq(Instruction) /\ 3 \in 1 .. Len(blocked_wait(s))
    BY TheThreePrograms
  <2>2. Tail(After(blocked_wait(s), 3)) = After(blocked_wait(s), 3 + 1)
    BY <2>1, AfterStep
  <2>3. QED
    BY <2>2, HeadsOfBodies, TheThreePrograms DEF Waits
<1>5. ASSUME NEW s \in Semaphores, current \in Listed(s) PROVE Waiting(current, s)'
  <2>1. Waiting(current, s)
    BY <1>5 DEF SchedInv, ListInv
  <2>2. state[current] = "Blocked" /\ code[current] = Waits(s, 3)
    BY <1>2, <1>4, <2>1 DEF Waiting
  <2>3. code'[current] = Waits(s, 4)
    BY <1>2, <1>4, <2>2
  <2>4. QED
    BY <1>1, <2>2, <2>3 DEF Waiting
<1>6. state'[current] = "Blocked" => \E s \in Semaphores : current \in Listed(s)
  BY <1>1, <1>2 DEF SchedInv, ListInv
<1>7. ListInv'
  BY <1>1, <1>2, <1>3, <1>5, <1>6, OwnStepKeepsLists
<1>8. AppendsAtZero'
  BY <1>2, <1>3, OwnStepKeepsAppends
<1>9. LeavingInv'
  <2>1. state[current] = "Finished" => code'[current] = Finishes(3)
    <3>1. SUFFICES ASSUME state[current] = "Finished" PROVE code'[current] = Finishes(3)
      OBVIOUS
    <3>2. code[current] = Finishes(2)
      BY <1>2, <3>1, FinishedHeads
    <3>3. Tail(Finishes(2)) = Finishes(3)
      <4>1. finish \in Seq(Instruction) /\ 2 \in 1 .. Len(finish)
        BY TheThreePrograms
      <4>2. Tail(After(finish, 2)) = After(finish, 2 + 1)
        BY <4>1, AfterStep
      <4>3. QED
        BY <4>2 DEF Finishes
    <3>4. QED
      BY <1>2, <3>2, <3>3
  <2>2. state[current] # "deleted"
    BY <1>2 DEF SchedInv, QueueInv, QueuesMatchStates
  <2>3. QED
    BY <1>1, <1>2, <2>1, <2>2 DEF SchedInv, LeavingInv
<1>10. QED
  BY <1>7, <1>8, <1>9

(* A thread blocks only when it is on a list. *)
LEMMA BlockKeepsPlaces ==
    ASSUME SchedInv, Block, UNCHANGED semaphoreVars
    PROVE  ListInv' /\ AppendsAtZero' /\ LeavingInv'
<1>1. /\ Executing("block") /\ Done /\ UNCHANGED <<current, lock, waiters>>
      /\ state' = [state EXCEPT ![current] = "Blocked"]
  BY DEF Block, SetState, semaphoreVars
<1>2. /\ current \in Thread /\ status = "running" /\ lock = 1
      /\ code[current] # <<>> /\ Head(code[current])[1] = "block"
      /\ Shape(code[current]) /\ WellFormed(code[current])
      /\ \A t \in Thread : code'[t] = IF t = current THEN Tail(code[current]) ELSE code[t]
      /\ code'[current] = Tail(code[current])
  BY <1>1, CurrentInstruction DEF Critical
<1>3. \A s \in Semaphores : code'[current] # Waits(s, 1) /\ code'[current] # Waits(s, 2)
  BY <1>1, CurrentInstruction
<1>4. PICK s \in Semaphores : code[current] = Waits(s, 2) /\ code'[current] = Waits(s, 3)
  BY <1>2, WhereInstructionIs
<1>5. current \in Listed(s)
  BY <1>2, <1>4 DEF SchedInv, ListInv
<1>6. \A t \in Thread : state'[t] = IF t = current THEN "Blocked" ELSE state[t]
  BY <1>1 DEF SchedInv, SemInv, SemTypeOK, ThreadTypeOK
<1>7. ASSUME NEW r \in Semaphores, current \in Listed(r) PROVE Waiting(current, r)'
  <2>1. \E k \in {2, 3, 4} : code[current] = Waits(r, k)
    BY <1>2, <1>7 DEF SchedInv, ListInv, Waiting
  <2>2. r = s
    BY <1>4, <2>1, WaitsDiffer
  <2>3. QED
    BY <1>1, <1>2, <1>4, <1>6, <2>2 DEF Waiting
<1>8. ListInv'
  BY <1>1, <1>2, <1>3, <1>5, <1>6, <1>7, OwnStepKeepsLists
<1>9. AppendsAtZero'
  BY <1>2, <1>3, OwnStepKeepsAppends
<1>10. LeavingInv'
  BY <1>2, <1>6 DEF SchedInv, LeavingInv
<1>11. QED
  BY <1>8, <1>9, <1>10

(* A thread that finishes is on no list. *)
LEMMA FinishKeepsPlaces ==
    ASSUME SchedInv, Finish, UNCHANGED semaphoreVars
    PROVE  ListInv' /\ AppendsAtZero' /\ LeavingInv'
<1>1. /\ Executing("finish") /\ Done /\ UNCHANGED <<current, lock, waiters>>
      /\ state' = [state EXCEPT ![current] = "Finished"]
  BY DEF Finish, SetState, semaphoreVars
<1>2. /\ current \in Thread /\ status = "running"
      /\ code[current] # <<>> /\ Head(code[current])[1] = "finish"
      /\ Shape(code[current]) /\ WellFormed(code[current])
      /\ \A t \in Thread : code'[t] = IF t = current THEN Tail(code[current]) ELSE code[t]
      /\ code'[current] = Tail(code[current])
  BY <1>1, CurrentInstruction
<1>3. \A s \in Semaphores : code'[current] # Waits(s, 1) /\ code'[current] # Waits(s, 2)
  BY <1>1, CurrentInstruction
<1>4. \A s \in Semaphores : current \notin Listed(s)
  BY <1>2, NotListed
<1>5. \A t \in Thread : state'[t] = IF t = current THEN "Finished" ELSE state[t]
  BY <1>1 DEF SchedInv, SemInv, SemTypeOK, ThreadTypeOK
<1>6. ListInv'
  BY <1>1, <1>2, <1>3, <1>4, <1>5, OwnStepKeepsLists
<1>7. AppendsAtZero'
  BY <1>2, <1>3, OwnStepKeepsAppends
<1>8. code'[current] = Finishes(2)
  BY <1>2, WhereInstructionIs
<1>9. LeavingInv'
  BY <1>2, <1>5, <1>8 DEF SchedInv, LeavingInv
<1>10. QED
  BY <1>6, <1>7, <1>9

(* What a switch does to the states of the threads. *)
LEMMA ScheduleEffect ==
    ASSUME SchedInv, Schedule
    PROVE  /\ \A t \in Thread \ {current} :
                 state'[t] = state[t] \/ (state[t] = "Ready" /\ state'[t] = "Running")
           /\ state[current] = "Running" => state'[current] \in {"Ready", "Running"}
           /\ state[current] = "Blocked" =>
                 state'[current] = "Blocked" /\ current' # current
           /\ state[current] = "Finished" => state'[current] = "deleted"
           /\ current' \in Thread => state'[current'] = "Running"
<1> USE DEF SchedInv, SemInv, SemTypeOK, ThreadTypeOK, QueueInv
<1> DEFINE c == current
           saved == SavedState(c)
           queue == IF saved = "Ready" THEN queue_append(ready, c) ELSE ready
<1>1. /\ ready \in Seq(Thread) /\ state \in [Thread -> States] /\ NoThread \notin Thread
      /\ c \in Thread /\ state[c] \in {"Running", "Blocked", "Finished"}
  BY SThreadAssumption DEF Schedule, Executing, QueuesMatchStates
<1>2. \/ state[c] = "Running" /\ saved = "Ready"
      \/ state[c] = "Blocked" /\ saved = "Blocked"
      \/ state[c] = "Finished" /\ saved = "deleted"
  BY <1>1 DEF SavedState
<1>3. /\ queue \in Seq(Thread)
      /\ Range(queue) = IF saved = "Ready" THEN Range(ready) \cup {c} ELSE Range(ready)
  <2>1. /\ Append(ready, c) \in Seq(Thread)
        /\ Range(Append(ready, c)) = Range(ready) \cup {c}
    BY <1>1, AppendMembers, AppendProperties
  <2>2. queue = IF saved = "Ready" THEN Append(ready, c) ELSE ready
    BY DEF queue_append
  <2> HIDE DEF queue, saved
  <2>3. QED
    BY <1>1, <2>1, <2>2
<1> HIDE DEF saved
<1>4. CASE queue = <<>>
  <2>1. current' = NoThread /\ state' = [state EXCEPT ![c] = saved]
    BY <1>4 DEF Schedule, saved
  <2> HIDE DEF queue
  <2>2. Range(queue) = {}
    BY <1>4 DEF Range
  <2>3. saved # "Ready"
    BY <1>3, <2>2
  <2>4. QED
    BY <1>1, <1>2, <2>1, <2>3
<1>5. CASE queue # <<>>
  <2> DEFINE h == Head(queue)
  <2>1. current' = h /\ state' = [state EXCEPT ![c] = saved, ![h] = "Running"]
    BY <1>5 DEF Schedule, saved
  <2>2. h \in Thread /\ h \in Range(queue)
    BY <1>3, <1>5, TailMembers, HeadTailProperties
  <2> HIDE DEF h, queue
  <2>3. (h = c /\ saved = "Ready") \/ (h # c /\ state[h] = "Ready")
    BY <1>1, <1>3, <2>2 DEF QueuesMatchStates
  <2>4. QED
    BY <1>1, <1>2, <2>1, <2>2, <2>3
<1>6. QED
  BY <1>4, <1>5

(* A switch takes a blocked thread off the CPU and leaves it on its list.   *)
LEMMA ScheduleKeepsPlaces ==
    ASSUME SchedInv, Schedule, UNCHANGED semaphoreVars
    PROVE  ListInv' /\ AppendsAtZero' /\ LeavingInv'
<1>1. Executing("schedule") /\ Done /\ UNCHANGED <<lock, waiters>>
  BY DEF Schedule, semaphoreVars
<1>2. /\ current \in Thread /\ status = "running" /\ lock = 1
      /\ code[current] # <<>> /\ Head(code[current])[1] = "schedule"
      /\ Shape(code[current]) /\ WellFormed(code[current])
      /\ \A t \in Thread : code'[t] = IF t = current THEN Tail(code[current]) ELSE code[t]
      /\ code'[current] = Tail(code[current])
  BY <1>1, CurrentInstruction DEF Critical
<1>3. \A s \in Semaphores : code'[current] # Waits(s, 1) /\ code'[current] # Waits(s, 2)
  BY <1>1, CurrentInstruction
<1>4. \A s \in Semaphores : Listed(s)' = Listed(s) /\ Listed(s) \subseteq Thread
  BY <1>1, RangeOfSeq DEF Listed, SchedInv, SemInv, SemTypeOK
<1>5. \A s \in Semaphores : /\ Head(Waits(s, 2)) = <<"block">>
                            /\ Head(Waits(s, 3)) = <<"lock">>
                            /\ Tail(Waits(s, 4)) = Waits(s, 5)
  <2> SUFFICES ASSUME NEW s \in Semaphores
               PROVE  /\ Head(Waits(s, 2)) = <<"block">>
                      /\ Head(Waits(s, 3)) = <<"lock">>
                      /\ Tail(Waits(s, 4)) = Waits(s, 5)
    OBVIOUS
  <2>1. blocked_wait(s) \in Seq(Instruction) /\ 4 \in 1 .. Len(blocked_wait(s))
    BY TheThreePrograms
  <2>2. Tail(After(blocked_wait(s), 4)) = After(blocked_wait(s), 4 + 1)
    BY <2>1, AfterStep
  <2>3. QED
    BY <2>2, HeadsOfBodies, TheThreePrograms DEF Waits
<1>6. ASSUME NEW s \in Semaphores, NEW t \in Listed(s) PROVE Waiting(t, s)'
  <2>1. Waiting(t, s) /\ t \in Thread
    BY <1>4, <1>6 DEF SchedInv, ListInv
  <2>2. CASE t = current
    <3>1. state[t] = "Blocked" /\ code[t] = Waits(s, 4)
      BY <1>2, <1>5, <2>1, <2>2 DEF Waiting
    <3>2. state'[t] = "Blocked" /\ current' # t
      BY <2>2, <3>1, ScheduleEffect
    <3>3. code'[t] = Waits(s, 5)
      BY <1>2, <1>5, <2>2, <3>1
    <3>4. QED
      BY <3>2, <3>3 DEF Waiting
  <2>3. CASE t # current
    <3>1. state[t] = "Blocked" /\ code[t] = Waits(s, 5)
      BY <2>1, <2>3 DEF Waiting
    <3>2. state'[t] = "Blocked" /\ current' # t
      BY <2>1, <2>3, <3>1, ScheduleEffect
    <3>3. QED
      BY <1>2, <2>1, <2>3, <3>1, <3>2 DEF Waiting
  <2>4. QED
    BY <2>2, <2>3
<1>7. ASSUME NEW t \in Thread, state'[t] = "Blocked" PROVE \E s \in Semaphores : t \in Listed(s)
  <2>1. state[current] \in {"Running", "Blocked", "Finished"}
    BY <1>2 DEF SchedInv, QueueInv, QueuesMatchStates
  <2>2. state[t] = "Blocked"
    BY <1>7, <2>1, ScheduleEffect
  <2>3. QED
    BY <2>2 DEF SchedInv, ListInv
<1>8. \A s \in Semaphores, t \in Thread : code'[t] = Waits(s, 2) => t \in Listed(s)
  BY <1>2, <1>3 DEF SchedInv, ListInv
<1>9. \A s \in Semaphores : IsInjective(waiters'[s])
  BY <1>1 DEF SchedInv, ListInv
<1>10. ListInv'
  BY <1>4, <1>6, <1>7, <1>8, <1>9 DEF ListInv
<1>11. AppendsAtZero'
  BY <1>2, <1>3, OwnStepKeepsAppends
<1>12. LeavingInv'
  <2>1. state[current] \in {"Running", "Blocked", "Finished"}
    BY <1>2 DEF SchedInv, QueueInv, QueuesMatchStates
  <2>2. state[current] = "Finished" => code'[current] \in {Finishes(2), Finishes(4)}
    BY <1>2, FinishedHeads
  <2>3. \A t \in Thread : t # current =>
            /\ state'[t] \in {"Finished", "deleted"} => state'[t] = state[t]
            /\ code'[t] = code[t]
    BY <1>2, ScheduleEffect
  <2>4. state'[current] \in {"Finished", "deleted"} =>
            state[current] = "Finished" /\ state'[current] = "deleted"
    BY <2>1, ScheduleEffect
  <2>5. QED
    BY <2>2, <2>3, <2>4 DEF SchedInv, LeavingInv
<1>13. QED
  BY <1>10, <1>11, <1>12

(* A thread queues up once, on one list, right before it blocks. *)
LEMMA AppendKeepsPlaces ==
    ASSUME SchedInv, semp_append
    PROVE  ListInv' /\ AppendsAtZero' /\ LeavingInv'
<1>1. /\ Executing("append") /\ Done /\ UNCHANGED <<current, state, lock>>
      /\ waiters' = [waiters EXCEPT ![Operand] = Append(@, current)]
  BY DEF semp_append
<1>2. /\ current \in Thread /\ status = "running" /\ lock = 1
      /\ code[current] # <<>> /\ Head(code[current])[1] = "append"
      /\ Shape(code[current]) /\ WellFormed(code[current])
      /\ \A t \in Thread : code'[t] = IF t = current THEN Tail(code[current]) ELSE code[t]
      /\ code'[current] = Tail(code[current])
  BY <1>1, CurrentInstruction DEF Critical, SemaphoreOps
<1>3. PICK s \in Semaphores :
          /\ code[current] = Waits(s, 1) /\ Head(code[current]) = <<"append", s>>
          /\ code'[current] = Waits(s, 2)
  BY <1>2, WhereInstructionIs
<1>4. Operand = s
  BY <1>3 DEF Operand
<1>5. state[current] # "Blocked" /\ \A r \in Semaphores : current \notin Listed(r)
  BY <1>2, NotListed
<1>6. state[current] = "Running"
  <2>1. state[current] # "Finished"
    BY <1>2, FinishedHeads
  <2>2. QED
    BY <1>2, <1>5, <2>1 DEF SchedInv, QueueInv, QueuesMatchStates
<1>7. waiters \in [Semaphores -> Seq(Thread)]
  BY DEF SchedInv, SemInv, SemTypeOK
<1>8. /\ \A r \in Semaphores : Listed(r)' = IF r = s THEN Listed(r) \cup {current}
                                                   ELSE Listed(r)
      /\ \A r \in Semaphores : IsInjective(waiters'[r])
      /\ \A r \in Semaphores : Listed(r) \subseteq Thread
  <2>1. \A r \in Semaphores : waiters'[r] = IF r = s THEN Append(waiters[r], current)
                                                    ELSE waiters[r]
    BY <1>1, <1>4, <1>7
  <2>2. IsInjective(waiters[s]) /\ current \notin Range(waiters[s])
    BY <1>5 DEF SchedInv, ListInv, Listed
  <2>3. /\ Range(Append(waiters[s], current)) = Range(waiters[s]) \cup {current}
        /\ IsInjective(Append(waiters[s], current))
    BY <1>2, <1>7, <2>2, AppendMembers
  <2>4. \A r \in Semaphores : Range(waiters[r]) \subseteq Thread
    BY <1>7, RangeOfSeq
  <2>5. QED
    BY <2>1, <2>3, <2>4 DEF Listed, SchedInv, ListInv
<1>9. ASSUME NEW r \in Semaphores, NEW t \in Thread, t \in Listed(r)' PROVE Waiting(t, r)'
  <2>1. CASE t = current
    BY <1>1, <1>2, <1>3, <1>5, <1>6, <1>8, <1>9, <2>1 DEF Waiting
  <2>2. CASE t # current
    <3>1. Waiting(t, r)
      BY <1>8, <1>9, <2>2 DEF SchedInv, ListInv
    <3>2. QED
      BY <1>1, <1>2, <2>2, <3>1 DEF Waiting
  <2>3. QED
    BY <2>1, <2>2
<1>10. ListInv'
  <2>1. \A r \in Semaphores : \A t \in Listed(r)' : Waiting(t, r)'
    BY <1>2, <1>8, <1>9
  <2>2. \A t \in Thread : state'[t] = "Blocked" => \E r \in Semaphores : t \in Listed(r)'
    BY <1>1, <1>8 DEF SchedInv, ListInv
  <2>3. \A r \in Semaphores, t \in Thread : code'[t] = Waits(r, 2) => t \in Listed(r)'
    <3> SUFFICES ASSUME NEW r \in Semaphores, NEW t \in Thread, code'[t] = Waits(r, 2)
                 PROVE  t \in Listed(r)'
      OBVIOUS
    <3>1. CASE t = current
      <4>1. r = s
        BY <1>3, <3>1, WaitsDiffer
      <4>2. QED
        BY <1>8, <3>1, <4>1
    <3>2. CASE t # current
      BY <1>2, <1>8, <3>2 DEF SchedInv, ListInv
    <3>3. QED
      BY <3>1, <3>2
  <2>4. QED
    BY <1>8, <2>1, <2>2, <2>3 DEF ListInv
<1>11. AppendsAtZero'
  <2>1. \A r \in Semaphores : code'[current] # Waits(r, 1)
    BY <1>3, WaitsDiffer
  <2>2. QED
    BY <1>2, <2>1, OwnStepKeepsAppends
<1>12. LeavingInv'
  BY <1>1, <1>2, <1>6 DEF SchedInv, LeavingInv
<1>13. QED
  BY <1>10, <1>11, <1>12

(* The thread woken is one that waits in the scheduler, and leaves the list *)
(* and the blocked queue together.                                          *)
LEMMA WakesABlockedThread ==
    ASSUME SchedInv, Wake, waiters[Operand] # <<>>
    PROVE  /\ Operand \in Semaphores /\ Head(waiters[Operand]) \in Thread
           /\ Head(waiters[Operand]) \in Listed(Operand)
           /\ Head(waiters[Operand]) # current
           /\ state[Head(waiters[Operand])] = "Blocked"
           /\ code[Head(waiters[Operand])] = Waits(Operand, 5)
           /\ state' = [state EXCEPT ![Head(waiters[Operand])] = "Ready"]
           /\ waiters' = [waiters EXCEPT ![Operand] = Tail(@)]
           /\ Unblock(Head(waiters[Operand]))
<1>1. Executing("wake")
  BY DEF Wake
<1>2. /\ current \in Thread /\ status = "running"
      /\ code[current] # <<>> /\ Head(code[current])[1] = "wake" /\ Shape(code[current])
  BY <1>1, CurrentInstruction
<1>3. PICK s \in Semaphores : Head(code[current]) = <<"wake", s>>
  BY <1>2, WhereInstructionIs
<1>4. Operand = s
  BY <1>3 DEF Operand
<1> DEFINE h == Head(waiters[s])
<1>5. waiters[s] \in Seq(Thread) /\ waiters[s] # <<>>
  BY <1>4 DEF SchedInv, SemInv, SemTypeOK
<1>6. h \in Thread /\ h \in Listed(s)
  BY <1>5, TailMembers, HeadTailProperties DEF Listed
<1>7. h # current
  BY <1>2, <1>6, NotListed
<1>8. state[h] = "Blocked" /\ code[h] = Waits(s, 5)
  BY <1>6, <1>7 DEF SchedInv, ListInv, Waiting
<1>9. waiters' = [waiters EXCEPT ![s] = Tail(@)] /\ Unblock(h)
  BY <1>4, <1>5 DEF Wake
<1> HIDE DEF h
<1>10. state' = [state EXCEPT ![h] = "Ready"]
  BY <1>8, <1>9 DEF Unblock
<1>11. QED
  BY <1>4, <1>6, <1>7, <1>8, <1>9, <1>10 DEF h

(* A thread is on at most one list. *)
LEMMA ListsDisjoint ==
    ASSUME SchedInv, NEW s \in Semaphores, NEW r \in Semaphores, NEW t,
           t \in Listed(s), t \in Listed(r)
    PROVE  s = r
<1>1. Waiting(t, s) /\ Waiting(t, r)
  BY DEF SchedInv, ListInv
<1>2. \E j, k \in {2, 3, 4, 5} : Waits(s, j) = Waits(r, k)
  BY <1>1 DEF Waiting
<1>3. QED
  BY <1>2, WaitsDiffer

(* Waking takes one thread off one list and off the blocked threads.        *)
LEMMA WakeKeepsPlaces ==
    ASSUME SchedInv, Wake
    PROVE  ListInv' /\ AppendsAtZero' /\ LeavingInv'
<1>1. Executing("wake") /\ Done /\ UNCHANGED <<current, lock, value>>
  BY DEF Wake
<1>2. /\ current \in Thread /\ status = "running"
      /\ code[current] # <<>> /\ Head(code[current])[1] = "wake"
      /\ Shape(code[current]) /\ WellFormed(code[current])
      /\ \A t \in Thread : code'[t] = IF t = current THEN Tail(code[current]) ELSE code[t]
      /\ code'[current] = Tail(code[current])
  BY <1>1, CurrentInstruction
<1>3. \A s \in Semaphores : code'[current] # Waits(s, 1) /\ code'[current] # Waits(s, 2)
  BY <1>1, CurrentInstruction
<1>4. CASE waiters[Operand] = <<>>
  BY <1>1, <1>4, OtherInstructionKeepsPlaces DEF Wake
<1>5. CASE waiters[Operand] # <<>>
  <2> DEFINE s == Operand
             h == Head(waiters[s])
  <2>1. /\ s \in Semaphores /\ h \in Thread /\ h \in Listed(s) /\ h # current
        /\ state[h] = "Blocked" /\ state' = [state EXCEPT ![h] = "Ready"]
        /\ waiters' = [waiters EXCEPT ![s] = Tail(@)]
    BY <1>5, WakesABlockedThread
  <2>2. /\ waiters \in [Semaphores -> Seq(Thread)]
        /\ \A t \in Thread : state'[t] = IF t = h THEN "Ready" ELSE state[t]
    BY <2>1 DEF SchedInv, SemInv, SemTypeOK, ThreadTypeOK
  <2>3. /\ \A r \in Semaphores : Listed(r)' = IF r = s THEN Listed(r) \ {h} ELSE Listed(r)
        /\ \A r \in Semaphores : IsInjective(waiters'[r])
        /\ \A r \in Semaphores : Listed(r) \subseteq Thread
    <3>1. \A r \in Semaphores : waiters'[r] = IF r = s THEN Tail(waiters[s]) ELSE waiters[r]
      BY <2>1, <2>2
    <3>2. \A r \in Semaphores : IsInjective(waiters[r])
      BY DEF SchedInv, ListInv
    <3>3. IsInjective(Tail(waiters[s])) /\ Range(Tail(waiters[s])) = Range(waiters[s]) \ {h}
      BY <1>5, <2>1, <2>2, <3>2, TailMembers
    <3>4. \A r \in Semaphores : Range(waiters[r]) \subseteq Thread
      BY <2>2, RangeOfSeq
    <3> HIDE DEF s, h
    <3>5. QED
      BY <3>1, <3>2, <3>3, <3>4 DEF Listed
  <2>4. state[current] # "Blocked" /\ \A r \in Semaphores : current \notin Listed(r)
    BY <1>2, NotListed
  <2>5. \A r \in Semaphores : h \in Listed(r) => r = s
    BY <2>1, ListsDisjoint
  <2> HIDE DEF s, h
  <2>6. ASSUME NEW r \in Semaphores, NEW t \in Thread, t \in Listed(r)' PROVE Waiting(t, r)'
    <3>1. t \in Listed(r) /\ t # h /\ t # current
      BY <2>3, <2>4, <2>5, <2>6
    <3>2. Waiting(t, r)
      BY <3>1 DEF SchedInv, ListInv
    <3>3. QED
      BY <1>1, <1>2, <2>2, <3>1, <3>2 DEF Waiting
  <2>7. \A t \in Thread : state'[t] = "Blocked" => \E r \in Semaphores : t \in Listed(r)'
    BY <2>2, <2>3 DEF SchedInv, ListInv
  <2>8. \A r \in Semaphores, t \in Thread : code'[t] = Waits(r, 2) => t \in Listed(r)'
    <3> SUFFICES ASSUME NEW r \in Semaphores, NEW t \in Thread, code'[t] = Waits(r, 2)
                 PROVE  FALSE
      OBVIOUS
    <3>1. t # current /\ code[t] = Waits(r, 2)
      BY <1>2, <1>3
    <3>2. t \in Listed(r) /\ Waiting(t, r)
      BY <3>1 DEF SchedInv, ListInv
    <3>3. Waits(r, 2) = Waits(r, 5)
      BY <3>1, <3>2 DEF Waiting
    <3>4. QED
      BY <3>3, WaitsDiffer
  <2>9. ListInv'
    <3>1. \A r \in Semaphores : \A t \in Listed(r)' : Waiting(t, r)'
      BY <2>3, <2>6
    <3>2. QED
      BY <2>3, <2>7, <2>8, <3>1 DEF ListInv
  <2>10. AppendsAtZero'
    BY <1>2, <1>3, OwnStepKeepsAppends
  <2>11. LeavingInv'
    <3>1. state[current] # "Finished" /\ state[current] # "deleted"
      BY <1>2, FinishedHeads DEF SchedInv, QueueInv, QueuesMatchStates
    <3>2. QED
      BY <1>2, <2>2, <3>1 DEF SchedInv, LeavingInv
  <2>12. QED
    BY <2>9, <2>10, <2>11
<1>6. QED
  BY <1>4, <1>5

(* A look at a semaphore either goes on to the decrement or, the semaphore  *)
(* being zero, goes round the loop.                                         *)
LEMMA WhileEffect ==
    ASSUME SchedInv, While
    PROVE  /\ current \in Thread /\ status = "running"
           /\ \A t \in Thread \ {current} : code'[t] = code[t]
           /\ \E s \in Semaphores :
                 /\ code[current] = Waits(s, 7)
                 /\ \/ value[s] = 0 /\ code'[current] = Waits(s, 1)
                    \/ value[s] # 0 /\ code'[current] = Waits(s, 8)
<1>1. Executing("while")
  BY DEF While
<1>2. /\ current \in Thread /\ status = "running"
      /\ code[current] # <<>> /\ Head(code[current])[1] = "while" /\ Shape(code[current])
  BY <1>1, CurrentInstruction
<1>3. PICK s \in Semaphores :
          /\ code[current] = Waits(s, 7) /\ Head(code[current]) = <<"while", s>>
          /\ Tail(code[current]) = Waits(s, 8)
  BY <1>2, WhereInstructionIs
<1>4. Operand = s
  BY <1>3 DEF Operand
<1>5. code' = [code EXCEPT ![current] =
                  IF value[s] = 0
                    THEN << <<"append", s>> >> \o block \o << <<"lock">> >> \o code[current]
                    ELSE Tail(code[current])]
  BY <1>4 DEF While
<1>6. << <<"append", s>> >> \o block \o << <<"lock">> >> \o code[current] = Waits(s, 1)
  BY <1>3, CallsAreBodies
<1>7. code'[current] = IF value[s] = 0 THEN Waits(s, 1) ELSE Waits(s, 8)
  BY <1>2, <1>3, <1>5, <1>6 DEF SchedInv, SemInv, SemTypeOK
<1>8. \A t \in Thread \ {current} : code'[t] = code[t]
  BY <1>2, <1>5 DEF SchedInv, SemInv, SemTypeOK
<1>9. QED
  BY <1>2, <1>3, <1>7, <1>8

(* Going round the loop leads to the queueing up, at a semaphore that is    *)
(* zero.                                                                    *)
LEMMA WhileKeepsPlaces ==
    ASSUME SchedInv, While
    PROVE  Shapes' /\ ListInv' /\ AppendsAtZero' /\ LeavingInv'
<1>1. /\ Executing("while") /\ UNCHANGED <<current, state, lock, value, waiters>>
  BY DEF While
<1>2. /\ current \in Thread /\ status = "running"
      /\ code[current] # <<>> /\ Head(code[current])[1] = "while"
  BY <1>1, CurrentInstruction
<1>3. /\ \A t \in Thread \ {current} : code'[t] = code[t]
      /\ \E s \in Semaphores :
            /\ code[current] = Waits(s, 7)
            /\ \/ value[s] = 0 /\ code'[current] = Waits(s, 1)
               \/ value[s] # 0 /\ code'[current] = Waits(s, 8)
  BY WhileEffect
<1>4. PICK s \in Semaphores :
            \/ value[s] = 0 /\ code'[current] = Waits(s, 1)
            \/ value[s] # 0 /\ code'[current] = Waits(s, 8)
  BY <1>3
<1>5. Shapes'
  <2>1. Shape(Waits(s, 1)) /\ Shape(Waits(s, 8))
    BY DEF Shape, Body
  <2>2. QED
    BY <1>3, <1>4, <2>1 DEF Shapes, SchedInv
<1>6. state[current] # "Blocked" /\ \A r \in Semaphores : current \notin Listed(r)
  BY <1>2, NotListed
<1>7. \A r \in Semaphores : code'[current] # Waits(r, 2)
  <2> SUFFICES ASSUME NEW r \in Semaphores PROVE code'[current] # Waits(r, 2)
    OBVIOUS
  <2>1. /\ Head(Waits(s, 1)) = <<"append", s>> /\ Head(Waits(s, 8)) = <<"dec", s>>
        /\ Head(Waits(r, 2)) = <<"block">>
    BY HeadsOfBodies, TheThreePrograms
  <2>2. QED
    BY <1>4, <2>1
<1>8. ListInv'
  BY <1>1, <1>2, <1>3, <1>6, <1>7, OwnStepKeepsLists
<1>9. AppendsAtZero'
  <2>1. ASSUME NEW r \in Semaphores, code'[current] = Waits(r, 1) PROVE value'[r] = 0
    <3>1. Head(Waits(s, 8)) = <<"dec", s>> /\ Head(Waits(r, 1)) = <<"append", r>>
      BY HeadsOfBodies, TheThreePrograms
    <3>2. value[s] = 0 /\ Waits(s, 1) = Waits(r, 1)
      BY <1>4, <2>1, <3>1
    <3>3. QED
      BY <1>1, <3>2, WaitsDiffer
  <2>2. QED
    BY <1>3, <2>1, OwnStepKeepsAppends
<1>10. LeavingInv'
  <2>1. state[current] # "Finished" /\ state[current] # "deleted"
    BY <1>2, FinishedHeads DEF SchedInv, QueueInv, QueuesMatchStates
  <2>2. QED
    BY <1>1, <1>3, <2>1 DEF SchedInv, LeavingInv
<1>11. QED
  BY <1>5, <1>8, <1>9, <1>10

(* A call starts at the beginning of one of the programs. *)
LEMMA CallKeepsPlaces ==
    ASSUME SchedInv, NEW program, Call(program), UNCHANGED semaphoreVars,
           \/ program \in {yield, finish}
           \/ \E s \in Semaphores : program \in {semaphore_wait(s), semaphore_signal(s)}
    PROVE  Shapes' /\ ListInv' /\ AppendsAtZero' /\ LeavingInv'
<1>1. /\ current \in Thread /\ status = "running" /\ code[current] = <<>>
      /\ UNCHANGED <<current, state, waiters>>
      /\ \A t \in Thread : code'[t] = IF t = current THEN program ELSE code[t]
  BY DEF Call, SchedInv, SemInv, SemTypeOK, ThreadTypeOK, semaphoreVars
<1>2. state[current] # "Blocked" /\ \A r \in Semaphores : current \notin Listed(r)
  BY <1>1, NotListed
<1>3. \/ program = Finishes(1) \/ program = Finishes(2)
      \/ \E s \in Semaphores : program = Signal(s, 1) \/ program = Waits(s, 6)
  BY CallsAreBodies
<1>4. Shape(program)
  BY <1>3 DEF Shape, Body
<1>5. Head(program)[1] \in {"finish", "lock"}
  <2>1. /\ Head(Finishes(1)) = <<"finish">> /\ Head(Finishes(2)) = <<"lock">>
        /\ \A s \in Semaphores : /\ Head(Signal(s, 1)) = <<"lock">>
                                 /\ Head(Waits(s, 6)) = <<"lock">>
    BY HeadsOfBodies, TheThreePrograms
  <2>2. QED
    BY <1>3, <2>1
<1>6. \A r \in Semaphores : program # Waits(r, 1) /\ program # Waits(r, 2)
  <2>1. \A r \in Semaphores : /\ Head(Waits(r, 1)) = <<"append", r>>
                              /\ Head(Waits(r, 2)) = <<"block">>
    BY HeadsOfBodies, TheThreePrograms
  <2>2. QED
    BY <1>5, <2>1
<1>7. Shapes'
  BY <1>1, <1>4 DEF Shapes, SchedInv
<1>8. ListInv'
  BY <1>1, <1>2, <1>6, OwnStepKeepsLists
<1>9. AppendsAtZero'
  BY <1>1, <1>6, OwnStepKeepsAppends
<1>10. LeavingInv'
  <2>1. state[current] # "Finished" /\ state[current] # "deleted"
    BY <1>1, FinishedHeads DEF SchedInv, QueueInv, QueuesMatchStates
  <2>2. QED
    BY <1>1, <2>1 DEF SchedInv, LeavingInv
<1>11. QED
  BY <1>7, <1>8, <1>9, <1>10

(* An interrupt finds the lock free, so that no thread is on its way into   *)
(* the scheduler.                                                           *)
LEMMA TickKeepsPlaces ==
    ASSUME SchedInv, Tick, UNCHANGED semaphoreVars
    PROVE  Shapes' /\ ListInv' /\ AppendsAtZero' /\ LeavingInv'
<1> DEFINE c == code[current]
<1>1. /\ current \in Thread /\ status = "running" /\ lock = 0
      /\ UNCHANGED <<current, state, waiters>>
      /\ \A t \in Thread : code'[t] = IF t = current THEN Preempted(c) ELSE code[t]
  BY DEF Tick, SchedInv, SemInv, SemTypeOK, ThreadTypeOK, semaphoreVars, Preempted
<1>2. state[current] # "Blocked" /\ \A r \in Semaphores : current \notin Listed(r)
  BY <1>1, NotListed
<1>3. c \in Seq(Instruction) /\ Shape(c)
  BY <1>1 DEF SchedInv, SemInv, SemTypeOK, Shapes
<1>4. c = <<>> \/ Head(c)[1] # "schedule"
  BY <1>1 DEF SchedInv, SemInv, OperationsAreAtomic, Critical
<1>5. Body(c)
  <2>1. ASSUME NEW d \in Seq(Instruction), c = Preempted(d) PROVE FALSE
    BY <1>4, <2>1, PreemptedStep
  <2>2. QED
    BY <1>3, <2>1 DEF Shape
<1>6. Shape(Preempted(c)) /\ Head(Preempted(c)) = <<"schedule">>
  BY <1>3, <1>5, PreemptedStep DEF Shape
<1>7. \A r \in Semaphores : Preempted(c) # Waits(r, 1) /\ Preempted(c) # Waits(r, 2)
  <2>1. \A r \in Semaphores : /\ Head(Waits(r, 1)) = <<"append", r>>
                              /\ Head(Waits(r, 2)) = <<"block">>
    BY HeadsOfBodies, TheThreePrograms
  <2>2. QED
    BY <1>6, <2>1
<1>8. state[current] = "Finished" => c = Finishes(2)
  BY <1>1, <1>4, FinishedHeads
<1>9. state[current] # "deleted"
  BY <1>1 DEF SchedInv, QueueInv, QueuesMatchStates
<1> HIDE DEF c
<1>10. Shapes'
  BY <1>1, <1>6 DEF Shapes, SchedInv
<1>11. ListInv'
  BY <1>1, <1>2, <1>7, OwnStepKeepsLists
<1>12. AppendsAtZero'
  BY <1>1, <1>7, OwnStepKeepsAppends
<1>13. LeavingInv'
  BY <1>1, <1>8, <1>9 DEF SchedInv, LeavingInv
<1>14. QED
  BY <1>10, <1>11, <1>12, <1>13

(* Before the first thread runs no thread has a place to lose. *)
LEMMA StartingKeepsPlaces ==
    ASSUME SchedInv, StartUp \/ TickWhileStarting, UNCHANGED semaphoreVars
    PROVE  Shapes' /\ ListInv' /\ AppendsAtZero' /\ LeavingInv'
<1>1. current \notin Thread /\ UNCHANGED <<code, value, waiters>>
  <2>1. status \in Starting /\ UNCHANGED <<code, value, waiters>>
    BY DEF StartUp, Create, StartTimer, SetSchedulerContext, FirstSchedule,
           TickWhileStarting, Starting, semaphoreVars
  <2>2. QED
    BY <2>1, SThreadAssumption DEF SchedInv, SemInv, StartTypeOK
<1>2. \A t \in Thread : /\ state'[t] = state[t] \/ state'[t] \in {"Ready", "Running"}
                        /\ state[t] = "Blocked" => state'[t] = state[t] /\ t # current'
  <2>1. ASSUME NEW u \in Thread, Create(u)
        PROVE  /\ current' = current
               /\ \A t \in Thread : state'[t] = IF t = u THEN "Ready" ELSE state[t]
               /\ state[u] = "none"
    BY <2>1 DEF Create, SchedInv, SemInv, SemTypeOK, ThreadTypeOK
  <2>2. CASE FirstSchedule
    <3>1. ready # <<>> /\ ready \in Seq(Thread)
      BY <2>2 DEF FirstSchedule, SchedInv, SemInv, SemTypeOK, ThreadTypeOK, StartTypeOK
    <3>2. Head(ready) \in Thread /\ Head(ready) \in Range(ready)
      BY <3>1, HeadTailProperties, TailMembers
    <3>3. state[Head(ready)] = "Ready"
      BY <3>2 DEF SchedInv, QueueInv, QueuesMatchStates
    <3>4. current' = Head(ready)
          /\ \A t \in Thread : state'[t] = IF t = Head(ready) THEN "Running" ELSE state[t]
      BY <2>2, <3>2 DEF FirstSchedule, SchedInv, SemInv, SemTypeOK, ThreadTypeOK
    <3>5. QED
      BY <3>3, <3>4
  <2>3. CASE StartTimer \/ SetSchedulerContext \/ TickWhileStarting
    BY <1>1, <2>3 DEF StartTimer, SetSchedulerContext, TickWhileStarting
  <2>4. QED
    BY <1>1, <2>1, <2>2, <2>3 DEF StartUp
<1>3. \A s \in Semaphores : Listed(s)' = Listed(s) /\ Listed(s) \subseteq Thread
  BY <1>1, RangeOfSeq DEF Listed, SchedInv, SemInv, SemTypeOK
<1>4. /\ code' = code /\ value' = value /\ waiters' = waiters
      /\ \A t \in Thread : state'[t] = "Blocked" => state[t] = "Blocked"
      /\ \A t \in Thread : state'[t] \in {"Finished", "deleted"} => state'[t] = state[t]
  BY <1>1, <1>2
<1>5. ASSUME NEW s \in Semaphores, NEW t \in Listed(s) PROVE Waiting(t, s)'
  <2>1. t \in Thread /\ state[t] = "Blocked" /\ code[t] = Waits(s, 5)
    BY <1>1, <1>3, <1>5 DEF SchedInv, ListInv, Waiting
  <2>2. t # current' /\ state'[t] = "Blocked" /\ code'[t] = Waits(s, 5)
    BY <1>2, <1>4, <2>1
  <2>3. QED
    BY <2>2 DEF Waiting
<1>6. \A t \in Thread : state'[t] = "Blocked" => \E s \in Semaphores : t \in Listed(s)
  BY <1>4 DEF SchedInv, ListInv
<1>7. /\ \A s \in Semaphores, t \in Thread : code'[t] = Waits(s, 2) => t \in Listed(s)
      /\ \A s \in Semaphores : IsInjective(waiters'[s])
  BY <1>4 DEF SchedInv, ListInv
<1>8. ListInv'
  BY <1>3, <1>5, <1>6, <1>7 DEF ListInv
<1>9. Shapes'
  BY <1>4 DEF SchedInv, Shapes
<1>10. AppendsAtZero'
  BY <1>4 DEF SchedInv, AppendsAtZero
<1>11. LeavingInv'
  BY <1>4 DEF SchedInv, LeavingInv
<1>12. QED
  BY <1>8, <1>9, <1>10, <1>11

-----------------------------------------------------------------------------
(* Wakeups. *)

(* Threads are finitely many, so sets of them compare by what they hold.    *)
LEMMA SetsOfThreads ==
    ASSUME NEW A \in SUBSET Thread, NEW B \in SUBSET Thread, NEW x \in Thread
    PROVE  /\ Cardinality(A) \in Nat
           /\ A \subseteq B => Cardinality(A) <= Cardinality(B)
           /\ A \subseteq B \cup {x} => Cardinality(A) <= Cardinality(B) + 1
           /\ x \in B /\ A \subseteq B \ {x} => Cardinality(A) + 1 <= Cardinality(B)
<1>1. IsFiniteSet(A) /\ IsFiniteSet(B)
  BY SThreadAssumption, FS_Subset
<1>2. Cardinality(A) \in Nat /\ Cardinality(B) \in Nat
  BY <1>1, FS_CardinalityType
<1>3. A \subseteq B => Cardinality(A) <= Cardinality(B)
  BY <1>1, FS_Subset
<1>4. ASSUME A \subseteq B \cup {x} PROVE Cardinality(A) <= Cardinality(B) + 1
  <2>1. /\ IsFiniteSet(B \cup {x})
        /\ Cardinality(B \cup {x}) = IF x \in B THEN Cardinality(B) ELSE Cardinality(B) + 1
    BY <1>1, FS_AddElement
  <2>2. Cardinality(A) <= Cardinality(B \cup {x})
    BY <1>4, <2>1, FS_Subset
  <2>3. QED
    BY <1>2, <2>1, <2>2
<1>5. ASSUME x \in B, A \subseteq B \ {x} PROVE Cardinality(A) + 1 <= Cardinality(B)
  <2>1. IsFiniteSet(B \ {x}) /\ Cardinality(B \ {x}) = Cardinality(B) - 1
    BY <1>1, <1>5, FS_RemoveElement
  <2>2. Cardinality(A) <= Cardinality(B \ {x})
    BY <1>5, <2>1, FS_Subset
  <2>3. QED
    BY <1>2, <2>1, <2>2
<1>6. QED
  BY <1>2, <1>3, <1>4, <1>5

(* The sets that are counted are sets of threads. *)
LEMMA CountedThreads ==
    \A s : /\ \A op : Pending(op, s) \subseteq Thread /\ Pending(op, s)' \subseteq Thread
           /\ Active(s) \subseteq Thread /\ Active(s)' \subseteq Thread
BY DEF Pending, Active

(* An operation is ahead of the same threads if the current thread neither  *)
(* executes nor calls it.                                                   *)
LEMMA OthersStayPending ==
    ASSUME NEW op, NEW s,
           \A t \in Thread \ {current} : code'[t] = code[t],
           <<op, s>> \in Range(code'[current]) <=> <<op, s>> \in Range(code[current])
    PROVE  Pending(op, s)' = Pending(op, s)
BY DEF Pending

(* Executing an instruction takes at most that one off what is ahead.       *)
LEMMA DoneKeepsPending ==
    ASSUME SchedInv, NEW op, Executing(op), Done, NEW o, NEW s
    PROVE  /\ <<o, s>> # Head(code[current]) => Pending(o, s)' = Pending(o, s)
           /\ Pending(o, s)' \subseteq Pending(o, s)
           /\ Pending(o, s) \ {current} \subseteq Pending(o, s)'
<1>1. /\ current \in Thread /\ code[current] # <<>> /\ code[current] \in Seq(Instruction)
      /\ \A t \in Thread : code'[t] = IF t = current THEN Tail(code[current]) ELSE code[t]
      /\ code'[current] = Tail(code[current])
  BY CurrentInstruction DEF WellFormed
<1>2. Range(code[current]) = {Head(code[current])} \cup Range(code'[current])
  BY <1>1, TailMembers
<1>3. QED
  BY <1>1, <1>2 DEF Pending

(* A semaphore about which nothing changes for the worse. *)
LEMMA WakeupsKept ==
    ASSUME SchedInv, NEW s \in Semaphores, value'[s] = value[s],
           Pending("inc", s)' \subseteq Pending("inc", s),
           Active(s) \subseteq Active(s)', waiters[s] # <<>>
    PROVE  value'[s] + Cardinality(Pending("inc", s)') <= Cardinality(Active(s)')
<1>1. /\ Cardinality(Pending("inc", s)') \in Nat /\ Cardinality(Pending("inc", s)) \in Nat
      /\ Cardinality(Active(s)') \in Nat /\ Cardinality(Active(s)) \in Nat
      /\ Cardinality(Pending("inc", s)') <= Cardinality(Pending("inc", s))
      /\ Cardinality(Active(s)) <= Cardinality(Active(s)')
  BY CountedThreads, SetsOfThreads, SThreadAssumption
<1>2. value[s] + Cardinality(Pending("inc", s)) <= Cardinality(Active(s))
  BY DEF SchedInv, WakeupInv
<1>3. value[s] \in Nat
  BY DEF SchedInv, SemInv, SemTypeOK
<1>4. QED
  BY <1>1, <1>2, <1>3

(* The instructions that are not about a semaphore's value or list. *)
LEMMA OtherInstructionKeepsWakeups ==
    ASSUME SchedInv, NEW op, Executing(op), Done, op \notin {"while", "dec", "inc", "wake"},
           UNCHANGED <<value, waiters>>
    PROVE  WakeupInv'
<1>1. Head(code[current])[1] = op
  BY CurrentInstruction
<1>2. SUFFICES ASSUME NEW s \in Semaphores, waiters'[s] # <<>>
               PROVE  value'[s] + Cardinality(Pending("inc", s)') <= Cardinality(Active(s)')
  BY DEF WakeupInv
<1>3. \A o \in {"while", "dec", "inc", "wake"} : Pending(o, s)' = Pending(o, s)
  <2> SUFFICES ASSUME NEW o \in {"while", "dec", "inc", "wake"}
               PROVE  Pending(o, s)' = Pending(o, s)
    OBVIOUS
  <2>1. <<o, s>> # Head(code[current])
    BY <1>1
  <2>2. QED
    BY <2>1, DoneKeepsPending
<1>4. Active(s)' = Active(s)
  BY <1>3 DEF Active, Listed
<1>5. QED
  BY <1>2, <1>3, <1>4, WakeupsKept

(* A thread that queues up finds the value zero; the signals on their way   *)
(* will each wake a thread.                                                 *)
LEMMA AppendKeepsWakeups ==
    ASSUME SchedInv, semp_append
    PROVE  WakeupInv'
<1>1. Executing("append") /\ Done /\ value' = value
  BY DEF semp_append
<1>2. /\ current \in Thread /\ code[current] # <<>> /\ Head(code[current])[1] = "append"
      /\ Shape(code[current])
  BY <1>1, CurrentInstruction
<1>3. PICK r \in Semaphores : code[current] = Waits(r, 1) /\ Head(code[current]) = <<"append", r>>
  BY <1>2, WhereInstructionIs
<1>4. waiters' = [waiters EXCEPT ![r] = Append(@, current)] /\ value[r] = 0
  <2>1. Operand = r
    BY <1>3 DEF Operand
  <2>2. value[r] = 0
    BY <1>2, <1>3 DEF SchedInv, AppendsAtZero
  <2>3. QED
    BY <2>1, <2>2 DEF semp_append
<1>5. SUFFICES ASSUME NEW s \in Semaphores, waiters'[s] # <<>>
               PROVE  value'[s] + Cardinality(Pending("inc", s)') <= Cardinality(Active(s)')
  BY DEF WakeupInv
<1>6. \A o \in {"while", "dec", "inc", "wake"} : Pending(o, s)' = Pending(o, s)
  <2> SUFFICES ASSUME NEW o \in {"while", "dec", "inc", "wake"}
               PROVE  Pending(o, s)' = Pending(o, s)
    OBVIOUS
  <2>1. <<o, s>> # Head(code[current])
    BY <1>3
  <2>2. QED
    BY <1>1, <2>1, DoneKeepsPending
<1>7. CASE s # r
  <2>1. waiters'[s] = waiters[s]
    BY <1>4, <1>7 DEF SchedInv, SemInv, SemTypeOK
  <2>2. Active(s)' = Active(s)
    BY <1>6, <2>1 DEF Active, Listed
  <2>3. QED
    BY <1>1, <1>5, <1>6, <2>1, <2>2, WakeupsKept
<1>8. CASE s = r
  <2>1. Pending("inc", s) \subseteq Pending("wake", s)
    <3> SUFFICES ASSUME NEW t \in Thread, <<"inc", s>> \in Range(code[t])
                 PROVE  <<"wake", s>> \in Range(code[t])
      BY DEF Pending
    <3>1. Shape(code[t])
      BY DEF SchedInv, Shapes
    <3>2. QED
      BY <3>1, SignalsWake
  <2>2. Pending("inc", s)' \subseteq Active(s)'
    BY <1>6, <2>1 DEF Active
  <2>3. /\ Cardinality(Pending("inc", s)') <= Cardinality(Active(s)')
        /\ Cardinality(Pending("inc", s)') \in Nat
    BY <2>2, CountedThreads, SetsOfThreads, <1>2
  <2>4. value'[s] = 0
    BY <1>1, <1>4, <1>8
  <2>5. QED
    BY <2>3, <2>4
<1>9. QED
  BY <1>7, <1>8

(* A decrement takes away one of those it counts on, and one of what it is  *)
(* compared with.                                                           *)
LEMMA DecrementKeepsWakeups ==
    ASSUME SchedInv, Decrement
    PROVE  WakeupInv'
<1>1. Executing("dec") /\ Done /\ waiters' = waiters
  BY DEF Decrement
<1>2. /\ current \in Thread /\ code[current] # <<>> /\ Head(code[current])[1] = "dec"
      /\ Shape(code[current])
  BY <1>1, CurrentInstruction
<1>3. PICK r \in Semaphores : Head(code[current]) = <<"dec", r>>
  BY <1>2, WhereInstructionIs
<1>4. value' = [value EXCEPT ![r] = @ - 1]
  <2>1. Operand = r
    BY <1>3 DEF Operand
  <2>2. QED
    BY <2>1 DEF Decrement
<1>5. SUFFICES ASSUME NEW s \in Semaphores, waiters'[s] # <<>>
               PROVE  value'[s] + Cardinality(Pending("inc", s)') <= Cardinality(Active(s)')
  BY DEF WakeupInv
<1>6. \A o \in {"while", "inc", "wake"} : Pending(o, s)' = Pending(o, s)
  <2> SUFFICES ASSUME NEW o \in {"while", "inc", "wake"}
               PROVE  Pending(o, s)' = Pending(o, s)
    OBVIOUS
  <2>1. <<o, s>> # Head(code[current])
    BY <1>3
  <2>2. QED
    BY <1>1, <2>1, DoneKeepsPending
<1>7. CASE s # r
  <2>1. <<"dec", s>> # Head(code[current]) /\ value'[s] = value[s]
    BY <1>3, <1>4, <1>7 DEF SchedInv, SemInv, SemTypeOK
  <2>2. Pending("dec", s)' = Pending("dec", s)
    BY <1>1, <2>1, DoneKeepsPending
  <2>3. Active(s)' = Active(s)
    BY <1>1, <1>6, <2>2 DEF Active, Listed
  <2>4. QED
    BY <1>1, <1>5, <1>6, <2>1, <2>3, WakeupsKept
<1>8. CASE s = r
  <2>1. value'[s] = value[s] - 1 /\ value[s] \in Nat
    BY <1>4, <1>8 DEF SchedInv, SemInv, SemTypeOK
  <2>2. Pending("dec", s) \ {current} \subseteq Pending("dec", s)'
    BY <1>1, DoneKeepsPending
  <2>3. Active(s) \subseteq Active(s)' \cup {current}
    BY <1>1, <1>6, <2>2 DEF Active, Listed
  <2>4. /\ Cardinality(Active(s)) <= Cardinality(Active(s)') + 1
        /\ Cardinality(Active(s)) \in Nat /\ Cardinality(Active(s)') \in Nat
        /\ Cardinality(Pending("inc", s)) \in Nat
    BY <1>2, <2>3, CountedThreads, SetsOfThreads
  <2>5. value[s] + Cardinality(Pending("inc", s)) <= Cardinality(Active(s))
    BY <1>1, <1>5 DEF SchedInv, WakeupInv
  <2>6. Cardinality(Pending("inc", s)') = Cardinality(Pending("inc", s))
    BY <1>6
  <2>7. QED
    BY <2>1, <2>4, <2>5, <2>6
<1>9. QED
  BY <1>7, <1>8

(* An increment moves one from the signals on their way to the value.       *)
LEMMA IncrementKeepsWakeups ==
    ASSUME SchedInv, Increment
    PROVE  WakeupInv'
<1>1. Executing("inc") /\ Done /\ waiters' = waiters
  BY DEF Increment
<1>2. /\ current \in Thread /\ code[current] # <<>> /\ Head(code[current])[1] = "inc"
      /\ Shape(code[current]) /\ code'[current] = Tail(code[current])
  BY <1>1, CurrentInstruction
<1>3. PICK r \in Semaphores : /\ code[current] = Signal(r, 2)
                              /\ Head(code[current]) = <<"inc", r>>
                              /\ Tail(code[current]) = Signal(r, 3)
  BY <1>2, WhereInstructionIs
<1>4. value' = [value EXCEPT ![r] = @ + 1]
  <2>1. Operand = r
    BY <1>3 DEF Operand
  <2>2. QED
    BY <2>1 DEF Increment
<1>5. SUFFICES ASSUME NEW s \in Semaphores, waiters'[s] # <<>>
               PROVE  value'[s] + Cardinality(Pending("inc", s)') <= Cardinality(Active(s)')
  BY DEF WakeupInv
<1>6. \A o \in {"while", "dec", "wake"} : Pending(o, s)' = Pending(o, s)
  <2> SUFFICES ASSUME NEW o \in {"while", "dec", "wake"}
               PROVE  Pending(o, s)' = Pending(o, s)
    OBVIOUS
  <2>1. <<o, s>> # Head(code[current])
    BY <1>3
  <2>2. QED
    BY <1>1, <2>1, DoneKeepsPending
<1>7. Active(s)' = Active(s)
  BY <1>1, <1>6 DEF Active, Listed
<1>8. Pending("inc", s)' \subseteq Pending("inc", s)
  BY <1>1, DoneKeepsPending
<1>9. CASE s # r
  <2>1. value'[s] = value[s]
    BY <1>4, <1>9 DEF SchedInv, SemInv, SemTypeOK
  <2>2. QED
    BY <1>1, <1>5, <1>7, <1>8, <2>1, WakeupsKept
<1>10. CASE s = r
  <2>1. value'[s] = value[s] + 1 /\ value[s] \in Nat
    BY <1>4, <1>10 DEF SchedInv, SemInv, SemTypeOK
  <2>2. /\ <<"inc", s>> \in Range(code[current])
        /\ <<"inc", s>> \notin Range(code'[current])
    <3>1. <<"inc", r>> \in Range(Signal(r, 2)) /\ <<"inc", r>> \notin Range(Signal(r, 3))
      BY OperationsAhead DEF SemaphoreOps
    <3>2. QED
      BY <1>2, <1>3, <1>10, <3>1
  <2>3. current \in Pending("inc", s) /\ current \notin Pending("inc", s)'
    BY <1>2, <2>2 DEF Pending
  <2>4. Pending("inc", s)' \subseteq Pending("inc", s) \ {current}
    BY <1>8, <2>3
  <2>5. /\ Cardinality(Pending("inc", s)') + 1 <= Cardinality(Pending("inc", s))
        /\ Cardinality(Pending("inc", s)) \in Nat /\ Cardinality(Pending("inc", s)') \in Nat
        /\ Cardinality(Active(s)) \in Nat
    BY <1>2, <2>3, <2>4, CountedThreads, SetsOfThreads
  <2>6. value[s] + Cardinality(Pending("inc", s)) <= Cardinality(Active(s))
    BY <1>1, <1>5 DEF SchedInv, WakeupInv
  <2>7. QED
    BY <1>7, <2>1, <2>5, <2>6
<1>11. QED
  BY <1>9, <1>10

(* A signal that wakes a thread hands its place to that thread, which will  *)
(* look at the semaphore again.                                             *)
LEMMA WakeKeepsWakeups ==
    ASSUME SchedInv, Wake
    PROVE  WakeupInv'
<1>1. Executing("wake") /\ Done /\ value' = value
  BY DEF Wake
<1>2. /\ current \in Thread /\ code[current] # <<>> /\ Head(code[current])[1] = "wake"
      /\ Shape(code[current])
  BY <1>1, CurrentInstruction
<1>3. PICK r \in Semaphores : Head(code[current]) = <<"wake", r>>
  BY <1>2, WhereInstructionIs
<1>4. Operand = r
  BY <1>3 DEF Operand
<1>5. SUFFICES ASSUME NEW s \in Semaphores, waiters'[s] # <<>>
               PROVE  value'[s] + Cardinality(Pending("inc", s)') <= Cardinality(Active(s)')
  BY DEF WakeupInv
<1>6. \A o \in {"while", "dec", "inc"} : Pending(o, s)' = Pending(o, s)
  <2> SUFFICES ASSUME NEW o \in {"while", "dec", "inc"}
               PROVE  Pending(o, s)' = Pending(o, s)
    OBVIOUS
  <2>1. <<o, s>> # Head(code[current])
    BY <1>3
  <2>2. QED
    BY <1>1, <2>1, DoneKeepsPending
<1>7. CASE s # r
  <2>1. waiters'[s] = waiters[s]
    BY <1>4, <1>7 DEF Wake, SchedInv, SemInv, SemTypeOK
  <2>2. <<"wake", s>> # Head(code[current])
    BY <1>3, <1>7
  <2>3. Pending("wake", s)' = Pending("wake", s)
    BY <1>1, <2>2, DoneKeepsPending
  <2>4. Active(s)' = Active(s)
    BY <1>6, <2>1, <2>3 DEF Active, Listed
  <2>5. QED
    BY <1>1, <1>5, <1>6, <2>1, <2>4, WakeupsKept
<1>8. CASE s = r
  <2>1. waiters[s] # <<>>
    <3>1. waiters[s] = <<>> => waiters' = waiters
      BY <1>4, <1>8 DEF Wake
    <3>2. QED
      BY <1>5, <3>1
  <2> DEFINE h == Head(waiters[s])
  <2>2. /\ h \in Thread /\ h \in Listed(s) /\ h # current /\ code[h] = Waits(s, 5)
        /\ waiters' = [waiters EXCEPT ![s] = Tail(@)]
    BY <1>4, <1>8, <2>1, WakesABlockedThread
  <2>3. Listed(s)' = Listed(s) \ {h}
    <3>1. waiters[s] \in Seq(Thread) /\ IsInjective(waiters[s])
      BY DEF SchedInv, ListInv, SemInv, SemTypeOK
    <3>2. Range(Tail(waiters[s])) = Range(waiters[s]) \ {h}
      BY <2>1, <3>1, TailMembers
    <3>3. waiters'[s] = Tail(waiters[s])
      BY <2>2 DEF SchedInv, SemInv, SemTypeOK
    <3>4. QED
      BY <3>2, <3>3 DEF Listed
  <2> HIDE DEF h
  <2>4. h \in Pending("while", s) /\ h \notin Pending("wake", s)
    <3>1. <<"while", s>> \in Range(Waits(s, 5)) /\ <<"wake", s>> \notin Range(Waits(s, 5))
      BY OperationsAhead DEF SemaphoreOps
    <3>2. QED
      BY <2>2, <3>1 DEF Pending
  <2>5. h \in Active(s)' /\ h \notin Active(s)
    BY <1>6, <2>2, <2>3, <2>4 DEF Active
  <2>6. Pending("wake", s) \ {current} \subseteq Pending("wake", s)'
    BY <1>1, DoneKeepsPending
  <2>7. Active(s) \ {current} \subseteq Active(s)' \ {h}
    BY <1>6, <2>3, <2>5, <2>6 DEF Active
  <2> DEFINE A == Active(s) \ {current}
  <2>8. A \subseteq Thread /\ Active(s) \subseteq A \cup {current}
    BY CountedThreads
  <2>9. /\ Cardinality(A) + 1 <= Cardinality(Active(s)')
        /\ Cardinality(A) \in Nat /\ Cardinality(Active(s)') \in Nat
    BY <2>2, <2>5, <2>7, <2>8, CountedThreads, SetsOfThreads
  <2> HIDE DEF A
  <2>10. Cardinality(Active(s)) <= Cardinality(A) + 1 /\ Cardinality(Active(s)) \in Nat
    BY <1>2, <2>8, CountedThreads, SetsOfThreads
  <2>11. value[s] + Cardinality(Pending("inc", s)) <= Cardinality(Active(s))
    BY <2>1 DEF SchedInv, WakeupInv
  <2>12. value'[s] \in Nat /\ value'[s] = value[s] /\ Cardinality(Pending("inc", s)) \in Nat
    BY <1>1, <1>2, CountedThreads, SetsOfThreads DEF SchedInv, SemInv, SemTypeOK
  <2>13. Pending("inc", s)' = Pending("inc", s)
    BY <1>6
  <2>14. QED
    BY <2>9, <2>10, <2>11, <2>12, <2>13
<1>9. QED
  BY <1>7, <1>8

(* A thread that looks at a semaphore goes on to decrement it or comes back *)
(* to look again.                                                           *)
LEMMA WhileKeepsWakeups ==
    ASSUME SchedInv, While
    PROVE  WakeupInv'
<1>1. Executing("while") /\ UNCHANGED <<value, waiters>>
  BY DEF While
<1>2. /\ \A t \in Thread \ {current} : code'[t] = code[t]
      /\ \E r \in Semaphores :
            code[current] = Waits(r, 7) /\ code'[current] \in {Waits(r, 1), Waits(r, 8)}
  BY WhileEffect
<1>3. PICK r \in Semaphores :
          code[current] = Waits(r, 7) /\ code'[current] \in {Waits(r, 1), Waits(r, 8)}
  BY <1>2
<1>4. SUFFICES ASSUME NEW s \in Semaphores, waiters'[s] # <<>>
               PROVE  value'[s] + Cardinality(Pending("inc", s)') <= Cardinality(Active(s)')
  BY DEF WakeupInv
<1>5. \A o \in {"inc", "wake"}, k \in {1, 7, 8} : <<o, s>> \notin Range(Waits(r, k))
  BY OperationsAhead DEF SemaphoreOps
<1>6. \A o \in {"inc", "wake"} : Pending(o, s)' = Pending(o, s)
  BY <1>2, <1>3, <1>5, OthersStayPending
<1>7. Pending("while", s) \cup Pending("dec", s)
        \subseteq Pending("while", s)' \cup Pending("dec", s)'
  <2> SUFFICES ASSUME NEW t \in Thread, t \in Pending("while", s) \cup Pending("dec", s)
               PROVE  t \in Pending("while", s)' \cup Pending("dec", s)'
    BY DEF Pending
  <2>1. CASE t # current
    BY <1>2, <2>1 DEF Pending
  <2>2. CASE t = current
    <3>1. /\ <<"while", s>> \in Range(Waits(r, 7)) \/ <<"dec", s>> \in Range(Waits(r, 7))
                => s = r
          /\ <<"dec", r>> \in Range(Waits(r, 1)) /\ <<"dec", r>> \in Range(Waits(r, 8))
      BY OperationsAhead DEF SemaphoreOps
    <3>2. s = r
      BY <1>3, <2>2, <3>1 DEF Pending
    <3>3. <<"dec", s>> \in Range(code'[t])
      BY <1>3, <2>2, <3>1, <3>2
    <3>4. QED
      BY <3>3 DEF Pending
  <2>3. QED
    BY <2>1, <2>2
<1>8. Active(s) \subseteq Active(s)'
  BY <1>1, <1>6, <1>7 DEF Active, Listed
<1>9. QED
  BY <1>1, <1>4, <1>6, <1>8, WakeupsKept

(* A call of wait adds one who will look; a call of signal adds one to each *)
(* side.                                                                    *)
LEMMA CallKeepsWakeups ==
    ASSUME SchedInv, NEW program, Call(program), UNCHANGED semaphoreVars,
           \/ program \in {yield, finish}
           \/ \E s \in Semaphores : program \in {semaphore_wait(s), semaphore_signal(s)}
    PROVE  WakeupInv'
<1>1. /\ current \in Thread /\ code[current] = <<>> /\ value' = value /\ waiters' = waiters
      /\ \A t \in Thread : code'[t] = IF t = current THEN program ELSE code[t]
  BY DEF Call, SchedInv, SemInv, SemTypeOK, ThreadTypeOK, semaphoreVars
<1>2. \/ program = Finishes(1) \/ program = Finishes(2)
      \/ \E r \in Semaphores : program = Signal(r, 1) \/ program = Waits(r, 6)
  BY CallsAreBodies
<1>3. SUFFICES ASSUME NEW s \in Semaphores, waiters'[s] # <<>>
               PROVE  value'[s] + Cardinality(Pending("inc", s)') <= Cardinality(Active(s)')
  BY DEF WakeupInv
<1>4. \A o : <<o, s>> \notin Range(code[current])
  BY <1>1 DEF Range
<1>5. \A o : Pending(o, s)' = IF <<o, s>> \in Range(program)
                                THEN Pending(o, s) \cup {current} ELSE Pending(o, s)
  BY <1>1, <1>4 DEF Pending
<1>6. Active(s) \subseteq Active(s)'
  BY <1>1, <1>5 DEF Active, Listed
<1>7. CASE program # Signal(s, 1)
  <2>1. <<"inc", s>> \notin Range(program)
    <3>1. <<"inc", s>> \notin Range(Finishes(1)) /\ <<"inc", s>> \notin Range(Finishes(2))
      BY OperationsAhead DEF SemaphoreOps
    <3>2. ASSUME NEW r \in Semaphores, program = Signal(r, 1) \/ program = Waits(r, 6)
          PROVE  <<"inc", s>> \notin Range(program)
      BY <1>7, <3>2, OperationsAhead DEF SemaphoreOps
    <3>3. QED
      BY <1>2, <3>1, <3>2
  <2>2. Pending("inc", s)' = Pending("inc", s)
    BY <1>5, <2>1
  <2>3. QED
    BY <1>1, <1>3, <1>6, <2>2, WakeupsKept
<1>8. CASE program = Signal(s, 1)
  <2>1. <<"inc", s>> \in Range(program) /\ <<"wake", s>> \in Range(program)
    BY <1>8, OperationsAhead DEF SemaphoreOps
  <2>2. Pending("inc", s)' \subseteq Pending("inc", s) \cup {current}
    BY <1>5
  <2>3. current \in Active(s)' /\ current \notin Active(s)
    BY <1>4, <1>5, <2>1 DEF Active, Pending
  <2>4. /\ Cardinality(Pending("inc", s)') <= Cardinality(Pending("inc", s)) + 1
        /\ Cardinality(Pending("inc", s)) \in Nat /\ Cardinality(Pending("inc", s)') \in Nat
    BY <1>1, <2>2, CountedThreads, SetsOfThreads
  <2>5. Active(s) \subseteq Active(s)' \ {current}
    BY <1>6, <2>3
  <2>6. /\ Cardinality(Active(s)) + 1 <= Cardinality(Active(s)')
        /\ Cardinality(Active(s)) \in Nat /\ Cardinality(Active(s)') \in Nat
    BY <1>1, <2>3, <2>5, CountedThreads, SetsOfThreads
  <2>7. value[s] + Cardinality(Pending("inc", s)) <= Cardinality(Active(s))
    BY <1>1, <1>3 DEF SchedInv, WakeupInv
  <2>8. value[s] \in Nat /\ value'[s] = value[s]
    BY <1>1 DEF SchedInv, SemInv, SemTypeOK
  <2>9. QED
    BY <2>4, <2>6, <2>7, <2>8
<1>9. QED
  BY <1>7, <1>8

(* An interrupt, and the steps before the first thread runs, add no         *)
(* operation and take none away.                                            *)
LEMMA InterruptKeepsWakeups ==
    ASSUME SchedInv, Tick \/ StartUp \/ TickWhileStarting, UNCHANGED semaphoreVars
    PROVE  WakeupInv'
<1>1. value' = value /\ waiters' = waiters
  BY DEF semaphoreVars
<1>2. SUFFICES ASSUME NEW s \in Semaphores, waiters'[s] # <<>>
               PROVE  value'[s] + Cardinality(Pending("inc", s)') <= Cardinality(Active(s)')
  BY DEF WakeupInv
<1>3. \A o : Pending(o, s)' = Pending(o, s)
  <2>1. CASE Tick
    <3>1. /\ current \in Thread /\ code[current] \in Seq(Instruction)
          /\ \A t \in Thread : code'[t] = IF t = current THEN Preempted(code[t]) ELSE code[t]
      BY <2>1 DEF Tick, SchedInv, SemInv, SemTypeOK, ThreadTypeOK, Preempted
    <3>2. Range(Preempted(code[current])) = {<<"schedule">>} \cup Range(code[current])
      BY <3>1, PreemptedStep
    <3>3. QED
      BY <3>1, <3>2 DEF Pending
  <2>2. CASE StartUp \/ TickWhileStarting
    <3>1. code' = code
      BY <2>2 DEF StartUp, Create, StartTimer, SetSchedulerContext, FirstSchedule,
                  TickWhileStarting
    <3>2. QED
      BY <3>1 DEF Pending
  <2>3. QED
    BY <2>1, <2>2
<1>4. Active(s)' = Active(s)
  BY <1>1, <1>3 DEF Active, Listed
<1>5. QED
  BY <1>1, <1>2, <1>3, <1>4, WakeupsKept

-----------------------------------------------------------------------------
(* The inductive invariant. *)

(* Nothing has been created and nobody waits. *)
LEMMA SchedInitInv == SemInit => SchedInv
<1> SUFFICES ASSUME SemInit PROVE SchedInv
  OBVIOUS
<1>1. SemInv
  BY InitInv
<1>2. /\ status = "created" /\ current = NoThread /\ ready = <<>> /\ blocked = <<>>
      /\ \A t \in Thread : state[t] = "none" /\ code[t] = <<>>
      /\ \A s \in Semaphores : waiters[s] = <<>>
  BY DEF SemInit, SThreadInit, new_semaphore
<1>3. Range(<<>>) = {} /\ IsInjective(<<>>)
  BY DEF Range, IsInjective
<1>4. QueueInv
  BY <1>2, <1>3 DEF QueueInv, QueuesMatchStates, AllCreated, NobodyAtRest, ExitsAreTruthful
<1>5. Shapes
  BY <1>2 DEF Shapes, Shape, Body
<1>6. \A s \in Semaphores : Waits(s, 1) # <<>> /\ Waits(s, 2) # <<>>
  BY HeadsOfBodies
<1>7. ListInv /\ AppendsAtZero
  BY <1>2, <1>3, <1>6 DEF ListInv, Listed, AppendsAtZero
<1>8. LeavingInv
  BY <1>2 DEF LeavingInv
<1>9. WakeupInv
  BY <1>2 DEF WakeupInv
<1>10. QED
  BY <1>1, <1>4, <1>5, <1>7, <1>8, <1>9 DEF SchedInv

(* No step of the library under the threads' calls breaks it. *)
LEMMA LibraryKeepsSched ==
    ASSUME SchedInv, LibraryStep, UNCHANGED semaphoreVars
    PROVE  SchedInv'
<1>1. SemInv'
  BY LibraryKeepsInv DEF SchedInv
<1>2. UNCHANGED <<value, waiters>>
  BY DEF semaphoreVars
<1>3. ASSUME NEW op, Executing(op), Done, op \notin {"while", "dec", "inc", "wake"}
      PROVE  Shapes' /\ WakeupInv'
  BY <1>2, <1>3, CurrentInstruction, OtherInstructionKeepsWakeups
<1>4. CASE Schedule
  <2>1. Executing("schedule") /\ Done
    BY <1>4 DEF Schedule
  <2>2. QED
    BY <1>1, <1>3, <1>4, <2>1, ScheduleKeepsQueues, ScheduleKeepsPlaces DEF SchedInv
<1>5. CASE Lock
  <2>1. Executing("lock") /\ Done /\ UNCHANGED <<status, current, state, ready, blocked>>
    BY <1>5 DEF Lock
  <2>2. QueueInv'
    BY <2>1, QuietKeepsQueues DEF SchedInv
  <2>3. QED
    BY <1>1, <1>3, <1>5, <2>1, <2>2, LockKeepsPlaces DEF SchedInv
<1>6. CASE Unlock
  <2>1. Executing("unlock") /\ Done /\ UNCHANGED <<status, current, state, ready, blocked>>
    BY <1>6 DEF Unlock
  <2>2. QueueInv'
    BY <2>1, QuietKeepsQueues DEF SchedInv
  <2>3. ListInv' /\ AppendsAtZero' /\ LeavingInv'
    BY <1>2, <2>1, OtherInstructionKeepsPlaces
  <2>4. QED
    BY <1>1, <1>3, <2>1, <2>2, <2>3 DEF SchedInv
<1>7. CASE Block
  <2>1. Executing("block") /\ Done /\ SetState("block", "Blocked")
    BY <1>7 DEF Block, SetState
  <2>2. QueueInv'
    BY <2>1, SetStateKeepsQueues
  <2>3. QED
    BY <1>1, <1>3, <1>7, <2>1, <2>2, BlockKeepsPlaces DEF SchedInv
<1>8. CASE Finish
  <2>1. Executing("finish") /\ Done /\ SetState("finish", "Finished")
    BY <1>8 DEF Finish, SetState
  <2>2. QueueInv'
    BY <2>1, SetStateKeepsQueues
  <2>3. QED
    BY <1>1, <1>3, <1>8, <2>1, <2>2, FinishKeepsPlaces DEF SchedInv
<1>9. QED
  BY <1>4, <1>5, <1>6, <1>7, <1>8 DEF LibraryStep

(* Nor does a step of a wait or a signal. *)
LEMMA SemaphoreKeepsSched ==
    ASSUME SchedInv, SemaphoreStep
    PROVE  SchedInv'
<1>1. SemInv'
  BY SemaphoreKeepsInv DEF SchedInv
<1>2. CASE While
  <2>1. QueueInv'
    BY <1>2, QuietKeepsQueues DEF While, SchedInv
  <2>2. QED
    BY <1>1, <1>2, <2>1, WhileKeepsPlaces, WhileKeepsWakeups DEF SchedInv
<1>3. CASE semp_append
  <2>1. Executing("append") /\ Done /\ UNCHANGED <<status, current, state, ready, blocked>>
    BY <1>3 DEF semp_append
  <2>2. QueueInv'
    BY <2>1, QuietKeepsQueues DEF SchedInv
  <2>3. QED
    BY <1>1, <1>3, <2>1, <2>2, CurrentInstruction, AppendKeepsPlaces, AppendKeepsWakeups
       DEF SchedInv
<1>4. CASE Decrement \/ Increment
  <2>1. /\ \E op \in {"dec", "inc"} : Executing(op) /\ Done
        /\ UNCHANGED <<status, current, state, ready, blocked, waiters>>
    BY <1>4 DEF Decrement, Increment
  <2>2. QueueInv'
    BY <2>1, QuietKeepsQueues DEF SchedInv
  <2>3. Shapes' /\ ListInv' /\ AppendsAtZero' /\ LeavingInv'
    BY <2>1, CurrentInstruction, OtherInstructionKeepsPlaces
  <2>4. WakeupInv'
    BY <1>4, DecrementKeepsWakeups, IncrementKeepsWakeups
  <2>5. QED
    BY <1>1, <2>2, <2>3, <2>4 DEF SchedInv
<1>5. CASE Wake
  <2>1. Executing("wake") /\ Done /\ UNCHANGED current
    BY <1>5 DEF Wake
  <2>2. CASE waiters[Operand] = <<>>
    <3>1. UNCHANGED <<status, current, state, ready, blocked>>
      BY <1>5, <2>2 DEF Wake
    <3>2. QED
      BY <3>1, QuietKeepsQueues, <1>1, <1>5, <2>1, CurrentInstruction, WakeKeepsPlaces,
         WakeKeepsWakeups DEF SchedInv
  <2>3. CASE waiters[Operand] # <<>>
    <3> DEFINE h == Head(waiters[Operand])
    <3>1. h \in Thread /\ Unblock(h) /\ h # current /\ state[h] = "Blocked"
      BY <1>5, <2>3, WakesABlockedThread
    <3> HIDE DEF h
    <3>2. status = "running"
      BY <2>1 DEF Executing
    <3>3. QueueInv'
      BY <2>1, <3>1, <3>2, UnblockKeepsQueues
    <3>4. QED
      BY <3>3, <1>1, <1>5, <2>1, CurrentInstruction, WakeKeepsPlaces, WakeKeepsWakeups
         DEF SchedInv
  <2>4. QED
    BY <2>2, <2>3
<1>6. QED
  BY <1>2, <1>3, <1>4, <1>5 DEF SemaphoreStep

(* No step of the program, and no interrupt, breaks the invariant. *)
LEMMA SchedNextInv == SchedInv /\ [SemNext]_semVars => SchedInv'
<1> SUFFICES ASSUME SchedInv, [SemNext]_semVars PROVE SchedInv'
  OBVIOUS
<1>1. SemInv'
  BY NextInv DEF SchedInv
<1>2. ASSUME NEW program, Call(program), UNCHANGED semaphoreVars,
             \/ program \in {yield, finish}
             \/ \E s \in Semaphores :
                   program \in {semaphore_wait(s), semaphore_signal(s)}
      PROVE  SchedInv'
  <2>1. QueueInv'
    BY <1>2, QuietKeepsQueues DEF Call, SchedInv
  <2>2. QED
    BY <1>1, <1>2, <2>1, CallKeepsPlaces, CallKeepsWakeups DEF SchedInv
<1>3. ASSUME StartUp \/ Interrupt, UNCHANGED semaphoreVars PROVE SchedInv'
  <2>1. CASE StartUp
    BY <1>1, <1>3, <2>1, StartUpKeepsQueues, StartingKeepsPlaces, InterruptKeepsWakeups
       DEF SchedInv
  <2>2. CASE Tick
    <3>1. QueueInv'
      BY <2>2, QuietKeepsQueues DEF Tick, SchedInv
    <3>2. QED
      BY <1>1, <1>3, <2>2, <3>1, TickKeepsPlaces, InterruptKeepsWakeups DEF SchedInv
  <2>3. CASE TickWhileStarting
    <3>1. /\ status' \in {"crashed", "assert_failed"} /\ status \in {"armed", "context_set"}
          /\ current = NoThread /\ UNCHANGED <<current, state, ready, blocked>>
      BY <2>3 DEF TickWhileStarting, SchedInv, SemInv, StartTypeOK, Starting
    <3>2. QueueInv'
      BY <3>1 DEF SchedInv, QueueInv, QueuesMatchStates, AllCreated, NobodyAtRest,
                  ExitsAreTruthful
    <3>3. QED
      BY <1>1, <1>3, <2>3, <3>2, StartingKeepsPlaces, InterruptKeepsWakeups DEF SchedInv
  <2>4. QED
    BY <1>3, <2>1, <2>2, <2>3 DEF Interrupt
<1>4. CASE SThreadNext /\ UNCHANGED semaphoreVars
  BY <1>2, <1>3, <1>4, LibraryKeepsSched DEF SThreadNext, Run
<1>5. CASE Client /\ UNCHANGED semaphoreVars
  BY <1>2, <1>5 DEF Client
<1>6. CASE SemaphoreStep
  BY <1>6, SemaphoreKeepsSched
<1>7. CASE UNCHANGED semVars
  <2>1. UNCHANGED <<status, current, state, ready, blocked, lock, code, value, waiters>>
    BY <1>7 DEF semVars, threadVars, semaphoreVars
  <2>2. QueueInv'
    BY <2>1, QuietKeepsQueues DEF SchedInv
  <2>3. Shapes' /\ AppendsAtZero' /\ LeavingInv'
    BY <2>1 DEF SchedInv, Shapes, AppendsAtZero, LeavingInv
  <2>4. ListInv' /\ WakeupInv'
    BY <2>1 DEF SchedInv, ListInv, Listed, Waiting, WakeupInv, Active, Pending
  <2>5. QED
    BY <1>1, <2>2, <2>3, <2>4 DEF SchedInv
<1>8. QED
  BY <1>4, <1>5, <1>6, <1>7 DEF SemNext

-----------------------------------------------------------------------------
(* What it implies. *)

(* A thread that is on its way into the scheduler from a list has the block *)
(* ahead of it; nobody is on two lists.                                     *)
LEMMA ListsImplyWaiters == SchedInv => WaitersAreBlocked
<1> SUFFICES ASSUME SchedInv PROVE WaitersAreBlocked
  OBVIOUS
<1>1. \A s \in Semaphores : IsInjective(waiters[s])
  BY DEF SchedInv, ListInv
<1>2. \A s, r \in Semaphores : s # r => Listed(s) \cap Listed(r) = {}
  BY ListsDisjoint
<1>3. ASSUME NEW s \in Semaphores, NEW t \in Listed(s)
      PROVE  state[t] = "Blocked" \/ AboutToBlock(t)
  <2>1. Waiting(t, s)
    BY DEF SchedInv, ListInv
  <2>2. <<"block">> \in Range(Waits(s, 2))
    <3>1. blocked_wait(s) \in Seq(Instruction) /\ Len(blocked_wait(s)) = 9
            /\ 2 \in 1 .. Len(blocked_wait(s)) /\ blocked_wait(s)[2] = <<"block">>
      BY TheThreePrograms
    <3>2. Range(After(blocked_wait(s), 2)) = {blocked_wait(s)[j] : j \in 2 .. Len(blocked_wait(s))}
      BY <3>1, AfterStep
    <3>3. 2 \in 2 .. Len(blocked_wait(s))
      BY <3>1
    <3>4. QED
      BY <3>1, <3>2, <3>3 DEF Waits
  <2>3. QED
    BY <2>1, <2>2 DEF Waiting, AboutToBlock
<1>4. \A t \in Thread : state[t] = "Blocked" => \E s \in Semaphores : t \in Listed(s)
  BY DEF SchedInv, ListInv
<1>5. QED
  BY <1>1, <1>2, <1>3, <1>4 DEF WaitersAreBlocked

(* The signals on their way are counted on top of what has to be counted.   *)
LEMMA CountsImplyWakeups == SchedInv => NoLostWakeup
<1> SUFFICES ASSUME SchedInv, NEW s \in Semaphores, waiters[s] # <<>>
             PROVE  value[s] <= Cardinality(Active(s))
  BY DEF NoLostWakeup, Active
<1>1. value[s] + Cardinality(Pending("inc", s)) <= Cardinality(Active(s))
  BY DEF SchedInv, WakeupInv
<1>2. /\ value[s] \in Nat /\ Cardinality(Pending("inc", s)) \in Nat
      /\ Cardinality(Active(s)) \in Nat
  BY CountedThreads, SetsOfThreads, SThreadAssumption DEF SchedInv, SemInv, SemTypeOK
<1>3. QED
  BY <1>1, <1>2

(* When nobody can run, nobody is left who would look at a semaphore, so no *)
(* semaphore anybody waits on has a value to take.                          *)
LEMMA DeadlocksOnZero == SchedInv => DeadlockedOnZero
<1> SUFFICES ASSUME SchedInv, status = "deadlocked", NEW t \in Thread, state[t] # "deleted"
             PROVE  \E s \in Semaphores : t \in Listed(s) /\ value[s] = 0
  BY DEF DeadlockedOnZero
<1>1. current \notin Thread /\ \A u \in Thread : state[u] \in {"deleted", "Blocked"}
  BY SThreadAssumption DEF SchedInv, QueueInv, NobodyAtRest, ExitsAreTruthful
<1>2. PICK s \in Semaphores : t \in Listed(s)
  BY <1>1 DEF SchedInv, ListInv
<1>3. ASSUME NEW u \in Thread PROVE u \notin Active(s)
  <2>1. CASE state[u] = "deleted"
    <3>1. code[u] \in {Finishes(2), Finishes(4)}
      BY <2>1 DEF SchedInv, LeavingInv
    <3>2. \A op \in SemaphoreOps : <<op, s>> \notin Range(code[u])
      BY <3>1, OperationsAhead
    <3>3. QED
      BY <3>2 DEF Active, Pending, SemaphoreOps
  <2>2. CASE state[u] = "Blocked"
    <3>1. PICK r \in Semaphores : u \in Listed(r)
      BY <2>2 DEF SchedInv, ListInv
    <3>2. code[u] = Waits(r, 5)
      BY <1>1, <3>1 DEF SchedInv, ListInv, Waiting
    <3>3. <<"wake", s>> \notin Range(code[u])
      BY <3>2, OperationsAhead DEF SemaphoreOps
    <3>4. <<"while", s>> \in Range(code[u]) \/ <<"dec", s>> \in Range(code[u]) => r = s
      BY <3>2, OperationsAhead DEF SemaphoreOps
    <3>5. QED
      BY <3>1, <3>3, <3>4 DEF Active, Pending
  <2>3. QED
    BY <1>1, <2>1, <2>2
<1>4. Active(s) = {}
  BY <1>3, CountedThreads
<1>5. waiters[s] # <<>>
  BY <1>2 DEF Listed, Range
<1>6. value[s] <= 0 /\ value[s] \in Nat
  <2>1. value[s] <= Cardinality(Active(s))
    BY <1>5, CountsImplyWakeups DEF NoLostWakeup, Active
  <2>2. Cardinality(Active(s)) = 0
    BY <1>4, FS_EmptySet
  <2>3. QED
    BY <2>1, <2>2 DEF SchedInv, SemInv, SemTypeOK
<1>7. QED
  BY <1>2, <1>6

-----------------------------------------------------------------------------

(* Whatever the threads call and wherever the timer falls, the queues match *)
(* the states of the threads (sthread.c:100 and :113): no thread is lost,   *)
(* queued twice, or queued while it runs.                                   *)
THEOREM QueuesAlwaysMatch == SemSpec => []QueuesMatchStates
<1>1. SchedInv => QueuesMatchStates
  BY DEF SchedInv, QueueInv
<1>2. QED
  BY SchedInitInv, SchedNextInv, <1>1, PTL DEF SemSpec

(* The scheduler says that all threads completed only when all have, and    *)
(* that the system is deadlocked only when all threads left are blocked     *)
(* (sthread.c:260).                                                         *)
THEOREM ExitsAlwaysTruthful == SemSpec => []ExitsAreTruthful
<1>1. SchedInv => ExitsAreTruthful
  BY DEF SchedInv, QueueInv
<1>2. QED
  BY SchedInitInv, SchedNextInv, <1>1, PTL DEF SemSpec

(* A thread is on at most one semaphore's list, once, and then blocked or   *)
(* about to be; a blocked thread is on one (semaphore.c:121).               *)
THEOREM WaitersAlwaysBlocked == SemSpec => []WaitersAreBlocked
BY SchedInitInv, SchedNextInv, ListsImplyWaiters, PTL DEF SemSpec

(* No wakeup is lost: while threads wait on a semaphore with a positive     *)
(* value, as many threads as the value are on their way to look at it or to *)
(* wake one that will (semaphore.c:134 to :154).                            *)
THEOREM WakeupsNeverLost == SemSpec => []NoLostWakeup
BY SchedInitInv, SchedNextInv, CountsImplyWakeups, PTL DEF SemSpec

(* The process is declared deadlocked only when every thread left waits on  *)
(* a semaphore that is zero (semaphore.c:114).                              *)
THEOREM DeadlockOnlyOnZero == SemSpec => []DeadlockedOnZero
BY SchedInitInv, SchedNextInv, DeadlocksOnZero, PTL DEF SemSpec

(* Once the threads run, no assertion of the library fails any more: there  *)
(* is a current thread whenever the scheduler is entered (sthread.c:241),   *)
(* and a signal unblocks only a thread that is blocked (sthread.c:406).     *)
AssertionsHoldOnceRunning ==
    [][status = "running" => status' \in {"running", "completed", "deadlocked"}]_semVars

(* No later step stops the program with an assertion. *)
THEOREM AssertionsHold == SemSpec => AssertionsHoldOnceRunning
<1>1. ASSUME SchedInv, SemNext, status = "running"
      PROVE  status' \in {"running", "completed", "deadlocked"}
  <2>1. CASE Wake
    <3>1. CASE waiters[Operand] = <<>>
      BY <1>1, <2>1, <3>1 DEF Wake
    <3>2. CASE waiters[Operand] # <<>>
      BY <1>1, <2>1, <3>2, WakesABlockedThread DEF Unblock
    <3>3. QED
      BY <3>1, <3>2
  <2>2. CASE Schedule
    BY <1>1, <2>2 DEF Schedule
  <2>3. CASE StartUp \/ TickWhileStarting
    BY <1>1, <2>3 DEF StartUp, Create, StartTimer, SetSchedulerContext, FirstSchedule,
                      TickWhileStarting
  <2>4. CASE UNCHANGED status
    BY <1>1, <2>4
  <2>5. Wake \/ Schedule \/ StartUp \/ TickWhileStarting \/ UNCHANGED status
    BY <1>1 DEF SemNext, SThreadNext, Run, LibraryStep, Interrupt, Client, SemaphoreStep,
                Lock, Unlock, Block, Finish, SetState, Call, Tick, While, semp_append,
                Decrement, Increment
  <2>6. QED
    BY <2>1, <2>2, <2>3, <2>4, <2>5
<1>2. SchedInv /\ [SemNext]_semVars
        => [status = "running" => status' \in {"running", "completed", "deadlocked"}]_semVars
  BY <1>1
<1>3. QED
  BY SchedInitInv, SchedNextInv, <1>2, PTL DEF SemSpec, AssertionsHoldOnceRunning
==============================================================================
